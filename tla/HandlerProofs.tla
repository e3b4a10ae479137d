---------------------------- MODULE HandlerProofs ------------------------------
(***************************************************************************)
(* Theorems about the handlers (RequestHandlers): what the static handler  *)
(* puts into a body whoever rewrites the file, and which directory the     *)
(* CRUD handler takes for its root.                                        *)
(***************************************************************************)
EXTENDS RoutingProofs

Codes == {0, 200, 400, 403, 404, 500}

-----------------------------------------------------------------------------
(***************************************************************************)
(* The static handler                                                      *)
(***************************************************************************)
(* What has been read is numbered as in the file, and no byte is older     *)
(* than the one before it or younger than the file.  Of a file that nobody *)
(* has rewritten, no more is read than there is, and all of it when the    *)
(* read ends.                                                              *)
BodyInv ==
  /\ body \in Seq(Nat \X Nat)
  /\ \A i \in 1..Len(body) :
       /\ body[i][2] = i /\ body[i][1] <= file.version
       /\ i > 1 => body[i][1] >= body[i - 1][1]
  /\ pc \notin {"static_read", "done"} => body = <<>> /\ ~opened
  /\ file.version = 0 =>
       /\ pc \in {"static_open", "static_read"} =>
            file.size < MAX_FILE_SIZE /\ Len(body) <= file.size
       /\ pc = "done" /\ opened /\ result.status = 200 =>
            file.size < MAX_FILE_SIZE /\ Len(body) = file.size

StaticInv ==
  /\ file \in [there : BOOLEAN, version : 0..MaxVersion, size : Sizes \cup {0}]
  /\ opened \in BOOLEAN /\ result \in [code : Codes, status : Codes]
  /\ BodyInv

(* What FileAssumption says of a file of the type. *)
LEMMA FileNumbers ==
  /\ \A f \in [there : BOOLEAN, version : 0..MaxVersion, size : Sizes \cup {0}] :
       f.size \in Nat /\ f.version \in Nat
  /\ NoFile \in [there : BOOLEAN, version : 0..MaxVersion, size : Sizes \cup {0}]
  /\ [there : {TRUE}, version : {0}, size : Sizes]
       \subseteq [there : BOOLEAN, version : 0..MaxVersion, size : Sizes \cup {0}]
<1>1. \A n \in Sizes \cup {0} : n \in Nat
  <2>1. \A n \in Sizes : n \in Nat
    BY FileAssumption
  <2> QED
    BY <2>1
<1>2. \A n \in 0..MaxVersion : n \in Nat
  OBVIOUS
<1>3. 0 \in 0..MaxVersion
  BY FileAssumption
<1> QED
  BY <1>1, <1>2, <1>3 DEF NoFile

(* The size of the next chunk. *)
LEMMA ChunkSize ==
  ASSUME StaticInv
  PROVE  LET c == Cardinality(Available)
         IN  /\ c \in Nat
             /\ c = BufferSize => Len(body) + BufferSize <= file.size
             /\ c # BufferSize /\ Len(body) <= file.size => Len(body) + c = file.size
<1> DEFINE L == Len(body)
           n == file.size
<1>1. L \in Nat /\ n \in Nat /\ BufferSize \in Nat \ {0}
  <2>1. body \in Seq(Nat \X Nat) /\ file.size \in Nat
    BY FileNumbers DEF StaticInv, BodyInv
  <2>2. Len(body) \in Nat
    BY <2>1, LenProperties
  <2>3. file.size \in Nat /\ BufferSize \in Nat \ {0}
    BY <2>1, FileAssumption
  <2> QED
    BY <2>2, <2>3
<1>2. Available = {i \in (L + 1)..(L + BufferSize) : i <= n}
  BY DEF Available
<1> HIDE DEF L, n
<1>3. CASE L + BufferSize <= n
  <2>1. Available = (L + 1)..(L + BufferSize)
    BY <1>1, <1>2, <1>3
  <2>2. Cardinality(Available) = BufferSize
    <3>1. \A a, b \in Int : Cardinality(a..b) = IF a > b THEN 0 ELSE b - a + 1
      BY FS_Interval
    <3>2. Cardinality((L + 1)..(L + BufferSize))
            = IF L + 1 > L + BufferSize THEN 0 ELSE L + BufferSize - (L + 1) + 1
      BY <1>1, <3>1
    <3> QED
      BY <1>1, <2>1, <3>2
  <2> QED
    BY <1>1, <1>3, <2>2 DEF L, n
<1>4. CASE ~(L + BufferSize <= n)
  <2>1. Available = (L + 1)..n
    BY <1>1, <1>2, <1>4
  <2>2. Cardinality(Available) = IF L + 1 > n THEN 0 ELSE n - (L + 1) + 1
    BY <1>1, <2>1, FS_Interval
  <2>3. /\ Cardinality(Available) \in Nat /\ Cardinality(Available) # BufferSize
        /\ L <= n => L + Cardinality(Available) = n
    BY <1>1, <1>4, <2>2
  <2> QED
    BY <2>3 DEF L, n
<1> QED
  BY <1>3, <1>4

(* A chunk of the file, which ends the read if it is not full. *)
LEMMA ReadChunkInv ==
  ASSUME StaticInv, ReadChunk
  PROVE  StaticInv'
<1> DEFINE c     == Cardinality(Available)
           chunk == [i \in 1..c |-> <<file.version, Len(body) + i>>]
<1>1. /\ pc = "static_read" /\ UNCHANGED <<file, opened>>
      /\ body \in Seq(Nat \X Nat) /\ Len(body) \in Nat
      /\ file.version \in Nat /\ file.size \in Nat
  BY FileNumbers, LenProperties DEF ReadChunk, StaticInv, BodyInv
<1>2. CASE body' = body \o chunk /\ pc' = (IF c = BufferSize THEN pc ELSE "done") /\ UNCHANGED result
  <2>1. /\ c \in Nat
        /\ c = BufferSize => Len(body) + BufferSize <= file.size
        /\ c # BufferSize /\ Len(body) <= file.size => Len(body) + c = file.size
    BY ChunkSize
  <2> HIDE DEF c
  <2>2. chunk \in Seq(Nat \X Nat) /\ Len(chunk) = c /\ DOMAIN chunk = 1..c
    <3>1. \A i \in 1..c : <<file.version, Len(body) + i>> \in Nat \X Nat
      BY <1>1
    <3> QED
      BY <2>1, <3>1, IsASeq, LenProperties
  <2>3. \A i \in 1..c : chunk[i] = <<file.version, Len(body) + i>>
    OBVIOUS
  <2> HIDE DEF chunk
  <2>4. /\ body' \in Seq(Nat \X Nat) /\ Len(body') = Len(body) + c
        /\ \A i \in 1..(Len(body) + c) :
             body'[i] = IF i <= Len(body) THEN body[i] ELSE chunk[i - Len(body)]
    BY <1>1, <1>2, <2>2, ConcatProperties
  <2>5. ASSUME NEW i \in 1..(Len(body) + c)
        PROVE  \/ (i \in 1..Len(body) /\ body'[i] = body[i])
               \/ (i > Len(body) /\ body'[i] = <<file.version, i>>)
    <3>1. body'[i] = IF i <= Len(body) THEN body[i] ELSE chunk[i - Len(body)]
      BY <2>4
    <3>2. CASE i <= Len(body)
      <4>1. i \in 1..Len(body)
        BY <1>1, <2>1, <3>2
      <4> QED
        BY <3>1, <3>2, <4>1
    <3>3. CASE ~(i <= Len(body))
      <4>1. i - Len(body) \in 1..c /\ Len(body) + (i - Len(body)) = i /\ i > Len(body)
        BY <1>1, <2>1, <3>3
      <4>2. chunk[i - Len(body)] = <<file.version, Len(body) + (i - Len(body))>>
        BY <2>3, <4>1
      <4>3. chunk[i - Len(body)] = <<file.version, i>>
        BY <4>1, <4>2
      <4> QED
        BY <3>1, <3>3, <4>1, <4>3
    <3> QED
      BY <3>2, <3>3
  <2>6. ASSUME NEW i \in 1..Len(body')
        PROVE  /\ body'[i][2] = i /\ body'[i][1] <= file.version
               /\ i > 1 => body'[i][1] >= body'[i - 1][1]
    <3>1. \A j \in 1..Len(body') : body'[j][2] = j /\ body'[j][1] <= file.version
      <4>1. \A j \in 1..Len(body) : body[j][2] = j /\ body[j][1] <= file.version
        BY DEF StaticInv, BodyInv
      <4>2. \A j \in 1..(Len(body) + c) :
              body'[j] = <<file.version, j>> => body'[j][2] = j /\ body'[j][1] <= file.version
        BY <1>1
      <4>3. 1..Len(body') = 1..(Len(body) + c)
        BY <2>4
      <4> QED
        BY <2>5, <4>1, <4>2, <4>3
    <3>2. ASSUME i > 1 PROVE body'[i][1] >= body'[i - 1][1]
      <4>1. i - 1 \in 1..(Len(body) + c) /\ i \in 1..(Len(body) + c)
        BY <1>1, <2>1, <2>4, <3>2
      <4>2. CASE i \in 1..Len(body)
        <5>1. i - 1 \in 1..Len(body) /\ ~(i - 1 > Len(body)) /\ ~(i > Len(body))
          BY <1>1, <3>2, <4>2, SMTT(60)
        <5>2. body'[i] = body[i] /\ body'[i - 1] = body[i - 1]
          BY <2>5, <4>1, <5>1
        <5> QED
          BY <3>2, <4>2, <5>2 DEF StaticInv, BodyInv
      <4>3. CASE i \notin 1..Len(body)
        <5>1. body'[i] = <<file.version, i>>
          BY <2>5, <4>1, <4>3
        <5>2. body'[i - 1] \in Nat \X Nat /\ body'[i - 1][1] <= file.version
          BY <2>4, <3>1, <4>1, ElementOfSeq
        <5> QED
          BY <1>1, <5>1, <5>2
      <4> QED
        BY <4>2, <4>3
    <3> QED
      BY <3>1, <3>2
  <2>7. BodyInv'
    <3>1. file.version = 0 => file.size < MAX_FILE_SIZE /\ Len(body) <= file.size
      BY <1>1 DEF StaticInv, BodyInv
    <3>2. file'.version = 0 =>
            /\ pc' = "static_read" => file'.size < MAX_FILE_SIZE /\ Len(body') <= file'.size
            /\ pc' = "done" => file'.size < MAX_FILE_SIZE /\ Len(body') = file'.size
      BY <1>1, <1>2, <2>1, <2>4, <3>1
    <3>3. pc' \in {"static_read", "done"}
      BY <1>1, <1>2
    <3> QED
      BY <1>1, <2>4, <2>6, <3>2, <3>3 DEF BodyInv
  <2> QED
    BY <1>1, <1>2, <2>7 DEF StaticInv
<1>3. CASE pc' = "done" /\ result' = [result EXCEPT !.status = 500] /\ UNCHANGED body
  <2>1. result' \in [code : Codes, status : Codes] /\ result'.status # 200
    BY <1>3 DEF StaticInv, Codes
  <2> QED
    BY <1>1, <1>3, <2>1 DEF StaticInv, BodyInv
<1> QED
  BY <1>2, <1>3 DEF ReadChunk

(* A step that leaves the static handler alone, before the file is open or *)
(* after the response is complete.                                         *)
LEMMA StaticFrame ==
  ASSUME StaticInv, UNCHANGED <<file, opened, body>>,
         result' \in [code : Codes, status : Codes],
         \/ pc' = pc /\ UNCHANGED result
         \/ pc \notin {"static_open", "static_read", "done"}
              /\ pc' \notin {"static_open", "static_read"}
  PROVE  StaticInv'
<1>1. CASE pc' = pc /\ UNCHANGED result
  BY <1>1 DEF StaticInv, BodyInv
<1>2. CASE pc \notin {"static_open", "static_read", "done"}
             /\ pc' \notin {"static_open", "static_read"}
  BY <1>2 DEF StaticInv, BodyInv
<1> QED
  BY <1>1, <1>2

(* The other steps of the handlers, with the file and without. *)
LEMMA HandleStaticInv ==
  ASSUME StaticInv, Handle
  PROVE  StaticInv'
<1>a. \A code \in Codes : [code |-> code, status |-> code] \in [code : Codes, status : Codes]
  OBVIOUS
<1>b. result \in [code : Codes, status : Codes]
  BY DEF StaticInv
<1>1. CASE Respond
  BY <1>1, <1>a, StaticFrame
     DEF Respond, EchoResponse, HealthResponse, SleepResponse, ChannelsResponse,
         NotFoundResponse, FixedResponse, Finish, Codes
<1>2. CASE CreateCrudHandler \/ Climb \/ RootFound
  <2>1. /\ UNCHANGED <<file, opened, body>>
        /\ \/ pc' = pc /\ UNCHANGED result
           \/ /\ pc \in {"handle", "climb"} /\ pc' \in {"climb", "done"}
              /\ \/ UNCHANGED result
                 \/ \E code \in Codes : result' = [code |-> code, status |-> code]
    BY <1>2 DEF CreateCrudHandler, Climb, RootFound, Finish, Codes, StaticRest, request
  <2> QED
    BY <1>a, <1>b, <2>1, StaticFrame
<1>3. CASE CreateStaticHandler
  <2>1. file' \in [there : BOOLEAN, version : 0..MaxVersion, size : Sizes \cup {0}]
    BY <1>3, FileNumbers DEF CreateStaticHandler
  <2>2. /\ pc = "handle" /\ pc' = "static_check" /\ UNCHANGED <<opened, body, result>>
    BY <1>3 DEF CreateStaticHandler
  <2>3. body' = <<>> /\ ~opened'
    BY <2>2 DEF StaticInv, BodyInv
  <2> QED
    BY <1>b, <2>1, <2>2, <2>3 DEF StaticInv, BodyInv
<1>4. CASE CheckFile
  <2>1. /\ UNCHANGED <<file, opened, body>> /\ pc = "static_check"
        /\ pc' \in {"static_check", "static_size", "done"}
        /\ \/ UNCHANGED result
           \/ \E code \in Codes : result' = [code |-> code, status |-> code]
    BY <1>4 DEF CheckFile, Finish, Codes
  <2> QED
    BY <1>a, <1>b, <2>1, StaticFrame
<1>5. CASE CheckSize
  <2>1. /\ UNCHANGED <<file, opened, body>> /\ pc = "static_size"
        /\ \/ pc' = pc /\ UNCHANGED result
           \/ pc' = "done" /\ \E code \in Codes : result' = [code |-> code, status |-> code]
           \/ /\ file.size <= MAX_FILE_SIZE - 1 /\ pc' = "static_open"
              /\ result' = [code |-> 200, status |-> 200]
    BY <1>5 DEF CheckSize, Finish, Codes
  <2>2. CASE \/ pc' = pc /\ UNCHANGED result
             \/ pc' = "done" /\ \E code \in Codes : result' = [code |-> code, status |-> code]
    BY <1>a, <1>b, <2>1, <2>2, StaticFrame
  <2>3. CASE /\ file.size <= MAX_FILE_SIZE - 1 /\ pc' = "static_open"
             /\ result' = [code |-> 200, status |-> 200]
    <3>1. result' \in [code : Codes, status : Codes]
      BY <2>3 DEF Codes
    <3>2. file.size \in Nat /\ MAX_FILE_SIZE \in Nat
      BY FileNumbers, FileAssumption DEF StaticInv
    <3>3. body = <<>> /\ ~opened /\ file.size < MAX_FILE_SIZE /\ Len(body) <= file.size
      BY <2>1, <2>3, <3>2 DEF StaticInv, BodyInv
    <3> QED
      BY <2>1, <2>3, <3>1, <3>3 DEF StaticInv, BodyInv
  <2> QED
    BY <2>1, <2>2, <2>3
<1>6. CASE OpenStream
  <2>1. /\ UNCHANGED <<file, body, result>> /\ pc = "static_open" /\ opened' \in BOOLEAN
        /\ pc' = IF opened' THEN "static_read" ELSE "done"
    BY <1>6 DEF OpenStream, StaticInv
  <2>3. CASE opened'
    BY <2>1, <2>3 DEF StaticInv, BodyInv
  <2>4. CASE ~opened'
    BY <2>1, <2>4 DEF StaticInv, BodyInv
  <2> QED
    BY <2>3, <2>4
<1>7. CASE Return
  <2>1. /\ pc' = "idle" /\ file' = NoFile /\ opened' = FALSE /\ body' = <<>> /\ result' = NoResult
    BY <1>7 DEF Return
  <2>2. <<>> \in Seq(Nat \X Nat) /\ Len(<<>>) = 0
    BY EmptySeq
  <2>3. \A i \in 1..Len(body') : FALSE
    BY <2>1, <2>2
  <2>4. NoFile \in [there : BOOLEAN, version : 0..MaxVersion, size : Sizes \cup {0}]
    BY FileNumbers
  <2>5. NoResult \in [code : Codes, status : Codes]
    BY DEF NoResult, Codes
  <2> QED
    BY <2>1, <2>2, <2>3, <2>4, <2>5 DEF StaticInv, BodyInv
<1> QED
  BY <1>1, <1>2, <1>3, <1>4, <1>5, <1>6, <1>7, ReadChunkInv DEF Handle, Static

(* Others rewrite the file, or remove it. *)
LEMMA ChangeFileInv ==
  ASSUME StaticInv, ChangeFile
  PROVE  StaticInv'
<1>1. /\ UNCHANGED <<pc, opened, body, result>> /\ pc # "done"
      /\ file \in [there : BOOLEAN, version : 0..MaxVersion, size : Sizes \cup {0}]
  BY DEF ChangeFile, request, StaticInv
<1>2. CASE file.version < MaxVersion
             /\ \E n \in Sizes : file' = [file EXCEPT !.version = @ + 1, !.size = n]
  <2>1. PICK n \in Sizes : file' = [file EXCEPT !.version = @ + 1, !.size = n]
    BY <1>2
  <2>2. /\ file.version \in Nat /\ file.version + 1 \in 0..MaxVersion
        /\ file'.version = file.version + 1
    BY <1>1, <1>2, <2>1, FileAssumption
  <2>3. file' \in [there : BOOLEAN, version : 0..MaxVersion, size : Sizes \cup {0}]
    BY <1>1, <2>1, <2>2
  <2>4. \A i \in 1..Len(body) : body[i][1] \in Nat
    BY ElementOfSeq DEF StaticInv, BodyInv
  <2>5. \A i \in 1..Len(body) : body[i][1] <= file'.version
    BY <2>2, <2>4 DEF StaticInv, BodyInv
  <2>6. file'.version # 0
    BY <2>2
  <2> QED
    BY <1>1, <2>3, <2>5, <2>6 DEF StaticInv, BodyInv
<1>3. CASE file' = [file EXCEPT !.there = FALSE]
  <2>1. /\ file' \in [there : BOOLEAN, version : 0..MaxVersion, size : Sizes \cup {0}]
        /\ file'.version = file.version /\ file'.size = file.size
    BY <1>1, <1>3
  <2> QED
    BY <1>1, <2>1 DEF StaticInv, BodyInv
<1> QED
  BY <1>2, <1>3 DEF ChangeFile

(* Every step keeps the invariant of the static handler. *)
LEMMA StaticNextInv ==
  ASSUME StartupInv, RouteInv, StaticInv, [Next]_vars
  PROVE  StaticInv'
<1>b. result \in [code : Codes, status : Codes]
  BY DEF StaticInv
<1>1. CASE UNCHANGED vars
  BY <1>1, <1>b, StaticFrame DEF vars, handler, request
<1>2. CASE Startup /\ UNCHANGED <<request, handler>>
  BY <1>2, <1>b, StaticFrame DEF handler, request
<1>3. CASE Route /\ UNCHANGED handler
  <2>1. pc = "loop" /\ pc' \in {"loop", "handle", "done"}
    BY <1>3 DEF Route, MatchLevel, StripLevel, NoMatch, InLoop
  <2> QED
    BY <1>3, <1>b, <2>1, StaticFrame DEF handler
<1>4. ASSUME NEW uri \in Targets, Refuse(uri) \/ RouteRequest(uri), UNCHANGED handler
      PROVE  StaticInv'
  <2>1. pc = "idle" /\ pc' \in {"done", "handle", "loop"}
    BY <1>4 DEF Refuse, RouteRequest
  <2> QED
    BY <1>4, <1>b, <2>1, StaticFrame DEF handler
<1> QED
  BY <1>1, <1>2, <1>3, <1>4, HandleStaticInv, ChangeFileInv DEF Next, Work

-----------------------------------------------------------------------------
(***************************************************************************)
(* The paths of the CRUD handler                                           *)
(***************************************************************************)
(* What is above a path ends before the slashes before the last name, but  *)
(* is "/" when nothing is before them.                                     *)
LEMMA AboveProperties ==
  ASSUME NEW S, NEW s \in Seq(S), Slashes(s) # {}
  PROVE  \E m \in 0..(Len(s) - 1) : \E e \in 0..m :
           /\ s[m + 1] = Slash /\ \A i \in (m + 2)..Len(s) : s[i] # Slash
           /\ (e > 0 => s[e] # Slash) /\ \A i \in (e + 1)..m : s[i] = Slash
           /\ Above(s) = IF e = 0 THEN Root ELSE FirstOf(s, e)
<1>1. PICK m \in 0..(Len(s) - 1) :
        /\ Parent(s) = FirstOf(s, m) /\ s[m + 1] = Slash
        /\ \A i \in (m + 2)..Len(s) : s[i] # Slash
  BY ParentProperties
<1>2. Len(s) \in Nat /\ m \in 0..Len(s)
  BY LenProperties
<1>3. /\ FirstOf(s, m) \in Seq(S) /\ Len(FirstOf(s, m)) = m
      /\ \A i \in 1..m : FirstOf(s, m)[i] = s[i]
  BY <1>2, FirstOfProperties
<1>4. PICK e \in 0..m :
        /\ TrimRight(FirstOf(s, m)) = FirstOf(FirstOf(s, m), e)
        /\ e > 0 => FirstOf(s, m)[e] # Slash
        /\ \A i \in (e + 1)..m : FirstOf(s, m)[i] = Slash
  BY <1>3, TrimRightProperties
<1>5. FirstOf(FirstOf(s, m), e) = FirstOf(s, e) /\ e \in 0..Len(s)
  BY <1>2, FirstOfFirstOf
<1>6. FirstOf(s, e) \in Seq(S) /\ Len(FirstOf(s, e)) = e
  BY <1>5, FirstOfProperties
<1>7. Above(s) = IF e = 0 THEN Root ELSE FirstOf(s, e)
  <2>1. FirstOf(s, e) = <<>> <=> e = 0
    BY <1>2, <1>6, EmptySeq
  <2> QED
    BY <1>1, <1>4, <1>5, <2>1 DEF Above
<1>8. (e > 0 => s[e] # Slash) /\ \A i \in (e + 1)..m : s[i] = Slash
  <2>1. (e > 0 => e \in 1..m) /\ \A i \in (e + 1)..m : i \in 1..m
    BY <1>2
  <2> QED
    BY <1>3, <1>4, <2>1
<1> QED
  BY <1>1, <1>7, <1>8

(* The parent path is what is above, if the path has no host. *)
LEMMA ParentPathProperties ==
  ASSUME NEW S, NEW s \in Seq(S), ~HasHost(s)
  PROVE  /\ Slashes(s) = {} \/ s = Root => ParentPath(s) = <<>>
         /\ Slashes(s) # {} /\ s # Root =>
              \E m \in 0..(Len(s) - 1) : \E e \in 0..m :
                /\ s[m + 1] = Slash /\ \A i \in (m + 2)..Len(s) : s[i] # Slash
                /\ (e > 0 => s[e] # Slash) /\ \A i \in (e + 1)..m : s[i] = Slash
                /\ ParentPath(s) = IF e = 0 THEN Root ELSE FirstOf(s, e)
<1>1. Slashes(s) = {} \/ s = Root => ParentPath(s) = <<>>
  BY DEF ParentPath
<1>2. Slashes(s) # {} /\ s # Root => ParentPath(s) = Above(s)
  BY DEF ParentPath, IsHost
<1> QED
  BY <1>1, <1>2, AboveProperties

(* The first three symbols of a path decide whether it has a host. *)
LEMMA HostOfPrefix ==
  ASSUME NEW S, NEW s \in Seq(S), NEW k \in 0..Len(s)
  PROVE  HasHost(FirstOf(s, k)) <=> k > 2 /\ HasHost(s)
<1>1. /\ Len(s) \in Nat /\ Len(FirstOf(s, k)) = k
      /\ \A i \in 1..k : FirstOf(s, k)[i] = s[i]
  BY FirstOfProperties, LenProperties
<1>2. CASE k > 2
  <2>1. 1 \in 1..k /\ 2 \in 1..k /\ 3 \in 1..k /\ Len(s) > 2
    BY <1>1, <1>2
  <2> QED
    BY <1>1, <1>2, <2>1 DEF HasHost
<1>3. CASE ~(k > 2)
  BY <1>1, <1>3 DEF HasHost
<1> QED
  BY <1>2, <1>3

(* The parent path of a path with a host has one, or is empty. *)
LEMMA ParentOfHost ==
  ASSUME NEW S, Slash \in S, NEW s \in Seq(S), HasHost(s)
  PROVE  ParentPath(s) = <<>> \/ (ParentPath(s) \in Seq(S) /\ HasHost(ParentPath(s)))
<1>1. Len(s) \in Nat /\ Len(s) > 2 /\ s[1] = Slash /\ s[2] = Slash /\ s[3] # Slash /\ DOMAIN s = 1..Len(s)
  BY LenProperties DEF HasHost
<1>2. Slashes(s) # {}
  <2>1. 1 \in DOMAIN s
    BY <1>1
  <2> QED
    BY <1>1, <2>1 DEF Slashes
<1>3. PICK m \in 0..(Len(s) - 1) : \E e \in 0..m :
        /\ s[m + 1] = Slash /\ \A i \in (m + 2)..Len(s) : s[i] # Slash
        /\ (e > 0 => s[e] # Slash) /\ \A i \in (e + 1)..m : s[i] = Slash
        /\ Above(s) = IF e = 0 THEN Root ELSE FirstOf(s, e)
  BY <1>2, AboveProperties
<1>4. PICK e \in 0..m :
        /\ \A i \in (e + 1)..m : s[i] = Slash
        /\ Above(s) = IF e = 0 THEN Root ELSE FirstOf(s, e)
  BY <1>3
<1>5. CASE m < 2
  <2>1. \A i \in 3..Len(s) : s[i] # Slash
    <3>1. m + 1 # 1 \/ s[2] # Slash
      <4>1. m = 0 => 2 \in (m + 2)..Len(s)
        BY <1>1
      <4> QED
        BY <1>3, <4>1
    <3>2. m = 1
      BY <1>1, <1>5, <3>1
    <3> QED
      BY <1>3, <3>2
  <2>2. {i \in Slashes(s) : i > 2} = {}
    BY <1>1, <2>1 DEF Slashes
  <2>3. Min({Len(s) + 1}) = Len(s) + 1
    BY <1>1 DEF Min
  <2>4. Host(s) = FirstOf(s, Len(s))
    <3>1. {i \in Slashes(s) : i > 2} \cup {Len(s) + 1} = {Len(s) + 1}
      BY <2>2
    <3>2. Min({i \in Slashes(s) : i > 2} \cup {Len(s) + 1}) = Len(s) + 1
      BY <2>3, <3>1, Zenon
    <3>3. Min({i \in Slashes(s) : i > 2} \cup {Len(s) + 1}) - 1 = Len(s)
      BY <1>1, <3>2
    <3> QED
      BY <3>3, Zenon DEF Host, FirstOf
  <2>5. Host(s) = s
    <3>1. Len(s) \in 0..Len(s) /\ Len(s) \in 0..Len(s)
      BY <1>1
    <3> QED
      BY <2>4, <3>1, FirstOfFirstOf
  <2> QED
    BY <2>5 DEF ParentPath, IsHost
<1>6. CASE ~(m < 2)
  <2>1. m > 2 /\ 3 \in 1..m
    <3>1. m + 1 # 3
      BY <1>1, <1>3
    <3> QED
      BY <1>1, <1>6, <3>1
  <2>2. e > 2 /\ e \in 0..Len(s)
    <3>1. 3 \notin (e + 1)..m
      BY <1>1, <1>4
    <3> QED
      BY <1>1, <2>1, <3>1
  <2>3. Above(s) = FirstOf(s, e) /\ HasHost(FirstOf(s, e)) /\ FirstOf(s, e) \in Seq(S)
    BY <1>4, <2>2, HostOfPrefix, FirstOfProperties
  <2>4. ASSUME Above(s) = Host(s)
        PROVE  Append(Host(s), Slash) \in Seq(S) /\ HasHost(Append(Host(s), Slash))
    <3> DEFINE h == Host(s)
    <3>1. h \in Seq(S) /\ HasHost(h)
      BY <2>3, <2>4
    <3> HIDE DEF h
    <3>2. /\ Append(h, Slash) \in Seq(S) /\ Len(Append(h, Slash)) = Len(h) + 1
          /\ \A i \in 1..Len(h) : Append(h, Slash)[i] = h[i]
      BY <3>1, AppendProperties
    <3>3. Len(h) \in Nat /\ Len(h) > 2 /\ 1 \in 1..Len(h) /\ 2 \in 1..Len(h) /\ 3 \in 1..Len(h)
      BY <3>1, LenProperties DEF HasHost
    <3>4. HasHost(Append(h, Slash))
      BY <3>1, <3>2, <3>3 DEF HasHost
    <3> QED
      BY <3>2, <3>4 DEF h
  <2> QED
    BY <2>3, <2>4 DEF ParentPath
<1> QED
  BY <1>5, <1>6

(* A directory of a path: it ends in a name and at a slash, or it is all   *)
(* of the path.                                                            *)
Directory(path, dir, k) ==
  /\ dir = FirstOf(path, k) /\ path[k] # Slash
  /\ k = Len(path) \/ path[k + 1] = Slash

(* The parent path of a directory is one, unless it is "/" or empty. *)
LEMMA ParentDirectory ==
  ASSUME NEW S, NEW path \in Seq(S), ~HasHost(path),
         NEW k \in 1..Len(path), NEW dir, Directory(path, dir, k)
  PROVE  \/ ParentPath(dir) \in {<<>>, Root}
         \/ \E e \in 1..Len(path) : Directory(path, ParentPath(dir), e)
<1>1. Len(path) \in Nat /\ k \in 0..Len(path)
  BY LenProperties
<1>2. dir \in Seq(S) /\ Len(dir) = k /\ \A i \in 1..k : dir[i] = path[i]
  BY <1>1, FirstOfProperties DEF Directory
<1>a. ~HasHost(dir)
  BY <1>1, HostOfPrefix DEF Directory
<1> SUFFICES ASSUME ParentPath(dir) \notin {<<>>, Root}
             PROVE  \E e \in 1..Len(path) : Directory(path, ParentPath(dir), e)
  OBVIOUS
<1>3. PICK m \in 0..(k - 1) : \E e \in 0..m :
        /\ dir[m + 1] = Slash
        /\ (e > 0 => dir[e] # Slash) /\ \A i \in (e + 1)..m : dir[i] = Slash
        /\ ParentPath(dir) = IF e = 0 THEN Root ELSE FirstOf(dir, e)
  BY <1>2, <1>a, ParentPathProperties
<1>4. PICK e \in 0..m :
        /\ dir[m + 1] = Slash
        /\ (e > 0 => dir[e] # Slash) /\ \A i \in (e + 1)..m : dir[i] = Slash
        /\ ParentPath(dir) = IF e = 0 THEN Root ELSE FirstOf(dir, e)
  BY <1>3
<1>5. e > 0 /\ ParentPath(dir) = FirstOf(dir, e)
  BY <1>4
<1>6. e \in 1..Len(path) /\ e \in 1..k /\ e \in 0..k /\ m + 1 \in 1..k /\ e + 1 \in 1..k
  BY <1>1, <1>5
<1>7. FirstOf(dir, e) = FirstOf(path, e)
  BY <1>1, <1>6, FirstOfFirstOf DEF Directory
<1>8. path[e] # Slash
  BY <1>2, <1>4, <1>5, <1>6
<1>9. path[e + 1] = Slash
  <2>1. dir[e + 1] = Slash
    <3>1. e + 1 = m + 1 \/ e + 1 \in (e + 1)..m
      BY <1>6
    <3> QED
      BY <1>4, <3>1
  <2> QED
    BY <1>2, <1>6, <2>1
<1> QED
  BY <1>5, <1>6, <1>7, <1>8, <1>9 DEF Directory

(* A directory whose parent path is "/" is the first of the path: slashes  *)
(* are before it, and no slash is in it.                                   *)
LEMMA FirstDirectory ==
  ASSUME NEW S, Slash \in S, NEW path \in Seq(S), ~HasHost(path),
         NEW k \in 1..Len(path), NEW dir, Directory(path, dir, k), ParentPath(dir) = Root
  PROVE  \E n \in 1..(k - 1) :
           /\ \A i \in 1..n : path[i] = Slash
           /\ \A i \in (n + 1)..k : path[i] # Slash
           /\ Slashes(dir) = 1..n /\ Len(dir) = k
<1>1. Len(path) \in Nat /\ k \in 0..Len(path)
  BY LenProperties
<1>2. /\ dir \in Seq(S) /\ Len(dir) = k /\ DOMAIN dir = 1..k
      /\ \A i \in 1..k : dir[i] = path[i]
  BY <1>1, FirstOfProperties DEF Directory
<1>a. ~HasHost(dir)
  BY <1>1, HostOfPrefix DEF Directory
<1>3. Len(Root) = 1 /\ Root[1] = Slash /\ Root # <<>>
  BY DEF Root
<1>4. PICK m \in 0..(k - 1) : \E e \in 0..m :
        /\ dir[m + 1] = Slash /\ \A i \in (m + 2)..k : dir[i] # Slash
        /\ (e > 0 => dir[e] # Slash) /\ \A i \in (e + 1)..m : dir[i] = Slash
        /\ ParentPath(dir) = IF e = 0 THEN Root ELSE FirstOf(dir, e)
  BY <1>2, <1>3, <1>a, ParentPathProperties
<1>5. PICK e \in 0..m :
        /\ (e > 0 => dir[e] # Slash) /\ \A i \in (e + 1)..m : dir[i] = Slash
        /\ ParentPath(dir) = IF e = 0 THEN Root ELSE FirstOf(dir, e)
  BY <1>4
<1>6. m + 1 \in 1..k
  BY <1>1
<1>7. e = 0
  <2> SUFFICES ASSUME e > 0 PROVE FALSE
    BY <1>1
  <2>1. e \in 0..Len(dir) /\ e \in 1..e
    BY <1>1, <1>2
  <2>2. Len(FirstOf(dir, e)) = e /\ FirstOf(dir, e)[e] = dir[e]
    BY <1>2, <2>1, FirstOfProperties
  <2>3. FirstOf(dir, e) = Root
    BY <1>5
  <2>4. e = 1 /\ dir[e] = Slash
    BY <1>3, <2>2, <2>3
  <2> QED
    BY <1>5, <2>4
<1>8. ASSUME NEW i \in 1..(m + 1) PROVE i \in 1..k /\ dir[i] = Slash
  <2>1. i = m + 1 \/ i \in (e + 1)..m
    BY <1>1, <1>7
  <2>2. dir[m + 1] = Slash /\ \A j \in (e + 1)..m : dir[j] = Slash
    BY <1>4, <1>5
  <2>3. i \in 1..k
    BY <1>1
  <2> QED
    BY <2>1, <2>2, <2>3
<1>9. \A i \in (m + 2)..k : i \in 1..k /\ dir[i] # Slash
  BY <1>1, <1>2, <1>4
<1>10. m + 1 # k
  BY <1>2, <1>4 DEF Directory
<1>11. m + 1 \in 1..(k - 1)
  BY <1>1, <1>10
<1>12. Slashes(dir) = 1..(m + 1)
  <2>1. \A i \in 1..k : i \in 1..(m + 1) \/ i \in (m + 2)..k
    BY <1>1
  <2>2. \A i \in 1..(m + 1) : i \in DOMAIN dir
    BY <1>2, <1>8
  <2>3. \A i \in DOMAIN dir : dir[i] = Slash => i \in 1..(m + 1)
    BY <1>2, <1>9, <2>1
  <2> QED
    BY <1>8, <2>2, <2>3 DEF Slashes
<1>13. \A i \in 1..(m + 1) : path[i] = Slash
  BY <1>2, <1>8
<1>14. \A i \in ((m + 1) + 1)..k : path[i] # Slash
  BY <1>1, <1>2, <1>9
<1> QED
  BY <1>2, <1>11, <1>12, <1>13, <1>14

-----------------------------------------------------------------------------
(***************************************************************************)
(* InitRoot                                                                *)
(***************************************************************************)
(* The file of a CRUD handler: the root of its location, which ends in a   *)
(* slash, and the path it was given.  root is a directory of it, or empty, *)
(* or a path with a host if the file is one.                               *)
Climbing ==
  /\ answer.matched \in DOMAIN handler_factories_
  /\ answer.given \in URI /\ answer.given # <<>> /\ Last(answer.given) # Slash
  /\ file_path_ = GetCompleteFilePath
  /\ \/ root = <<>>
     \/ HasHost(file_path_) /\ root \in URI /\ HasHost(root)
     \/ ~HasHost(file_path_) /\ \E k \in 1..Len(file_path_) : Directory(file_path_, root, k)

CrudInv ==
  /\ pc \notin {"climb", "done"} => root = <<>> \/ (pc = "handle" /\ phase = "down")
  /\ pc = "climb" => Climbing
  /\ RootAboveEntity

(* The root of a location is empty, or ends in a slash. *)
LEMMA GetRootType ==
  ASSUME ParserTypes, NEW i
  PROVE  GetRoot(i) \in URI /\ (GetRoot(i) = <<>> \/ GetRoot(i)[Len(GetRoot(i))] = Slash)
<1> DEFINE inner  == {j \in DOMAIN statements_ : statements_[j].within = i}
           j      == CHOOSE j \in inner : TRUE
           tokens == statements_[j].tokens
           words  == tokens[2]
<1>1. CASE Cardinality(inner) # 1 \/ Len(tokens) < 2 \/ tokens[1] # <<"root">>
  <2>1. GetRoot(i) = <<>>
    BY <1>1 DEF GetRoot
  <2> QED
    BY <2>1 DEF URI
<1>2. CASE ~(Cardinality(inner) # 1 \/ Len(tokens) < 2 \/ tokens[1] # <<"root">>)
  <2>1. inner # {}
    <3>1. Cardinality(inner) = 1
      BY <1>2
    <3> HIDE DEF inner
    <3>2. Cardinality({}) = 0
      BY FS_EmptySet
    <3> QED
      BY <3>1, <3>2
  <2>2. j \in DOMAIN statements_
    BY <2>1
  <2>3. GetRoot(i) = IF words # <<>> /\ Last(words) = Slash THEN words ELSE Append(words, Slash)
    BY <1>2 DEF GetRoot
  <2> HIDE DEF j
  <2>4. tokens \in Seq(Text)
    <3>1. statements_[j] \in Node
      BY <2>2, ElementOfSeq, LenProperties DEF ParserTypes
    <3> QED
      BY <3>1 DEF Node
  <2>5. 2 \in 1..Len(tokens)
    BY <1>2, <2>4, LenProperties
  <2>6. words \in URI
    <3>1. words \in Text
      BY <2>4, <2>5, ElementOfSeq
    <3> QED
      BY <3>1, SeqMonotonic DEF Text, URI
  <2> HIDE DEF words
  <2>7. CASE words # <<>> /\ Last(words) = Slash
    BY <2>3, <2>6, <2>7 DEF Last
  <2>8. CASE ~(words # <<>> /\ Last(words) = Slash)
    <3>1. GetRoot(i) = Append(words, Slash)
      BY <2>3, <2>8
    <3>2. /\ Append(words, Slash) \in URI /\ Len(Append(words, Slash)) = Len(words) + 1
          /\ Append(words, Slash)[Len(words) + 1] = Slash
      BY <2>6, AppendProperties DEF URI
    <3> QED
      BY <3>1, <3>2
  <2> QED
    BY <2>7, <2>8
<1> QED
  BY <1>1, <1>2

(* The complete path is the root and the path given: it does not end in a  *)
(* slash, and where the root ends in one, it has one.                      *)
LEMMA CompleteFilePath ==
  ASSUME ParserTypes,
         answer.given \in URI, answer.given # <<>>, Last(answer.given) # Slash
  PROVE  LET path == GetCompleteFilePath
             r    == GetRoot(handler_factories_[answer.matched].statement)
         IN  /\ path \in URI /\ Len(path) >= 1 /\ path[Len(path)] # Slash
             /\ r \in URI /\ (r # <<>> => r[Len(r)] = Slash)
             /\ Len(r) <= Len(path) /\ \A i \in 1..Len(r) : path[i] = r[i]
<1> DEFINE r == GetRoot(handler_factories_[answer.matched].statement)
           g == answer.given
           C == STRING \cup {Slash, "sleep"}
<1>1. r \in Seq(C) /\ (r = <<>> \/ r[Len(r)] = Slash) /\ GetCompleteFilePath = r \o g
  BY GetRootType DEF URI, GetCompleteFilePath
<1>2. g \in Seq(C) /\ g # <<>> /\ g[Len(g)] # Slash
  BY DEF URI, Last
<1> HIDE DEF r, g, C
<1>3. Len(r) \in Nat /\ Len(g) \in Nat \ {0} /\ (r # <<>> => Len(r) \in Nat \ {0})
  BY <1>1, <1>2, LenProperties, EmptySeq
<1>4. /\ r \o g \in Seq(C) /\ Len(r \o g) = Len(r) + Len(g)
      /\ \A i \in 1..(Len(r) + Len(g)) :
           (r \o g)[i] = IF i <= Len(r) THEN r[i] ELSE g[i - Len(r)]
  BY <1>1, <1>2, ConcatProperties
<1>5. (r \o g)[Len(r) + Len(g)] = g[Len(g)]
  <2>1. /\ Len(r) + Len(g) \in 1..(Len(r) + Len(g)) /\ ~(Len(r) + Len(g) <= Len(r))
        /\ Len(r) + Len(g) - Len(r) = Len(g)
    BY <1>3
  <2> QED
    BY <1>4, <2>1
<1>6. Len(r) <= Len(r) + Len(g) /\ \A i \in 1..Len(r) : (r \o g)[i] = r[i]
  <2>1. \A i \in 1..Len(r) : i \in 1..(Len(r) + Len(g)) /\ i <= Len(r)
    BY <1>3
  <2> QED
    BY <1>3, <1>4, <2>1
<1>8. Len(r) + Len(g) >= 1
  BY <1>3
<1> QED
  BY <1>1, <1>2, <1>4, <1>5, <1>6, <1>8 DEF r, g, C, URI

(* What InitRoot finds is the first directory of the path, which has no    *)
(* host then.  It is above the entity, or is it, when the root of the      *)
(* location has a name.                                                    *)
LEMMA RootContainsEntity ==
  ASSUME ParserTypes, Climbing, ParentPath(root) = Root
  PROVE  /\ Topmost(root)
         /\ Without(GetRoot(handler_factories_[answer.matched].statement), Slash) # {} =>
              \/ Entity(file_path_) = root
              \/ IsPrefix(Append(root, Slash), Entity(file_path_))
<1> DEFINE F == file_path_
           r == GetRoot(handler_factories_[answer.matched].statement)
           C == STRING \cup {Slash, "sleep"}
<1>1. /\ F \in Seq(C) /\ Len(F) >= 1 /\ F[Len(F)] # Slash
      /\ r \in Seq(C) /\ (r # <<>> => r[Len(r)] = Slash)
      /\ Len(r) <= Len(F) /\ \A i \in 1..Len(r) : F[i] = r[i]
  BY CompleteFilePath DEF Climbing, URI
<1>2. Slash \in C /\ Root # <<>> /\ Len(Root) = 1
  BY DEF Root
<1>a. ~(root \in URI /\ HasHost(root))
  <2> SUFFICES ASSUME root \in URI, HasHost(root) PROVE FALSE
    OBVIOUS
  <2>1. ParentPath(root) = <<>> \/ HasHost(ParentPath(root))
    BY ParentOfHost DEF URI
  <2> QED
    BY <1>2, <2>1 DEF HasHost
<1> HIDE DEF C
<1>3. root # <<>>
  <2>1. Slashes(<<>>) = {}
    BY DEF Slashes
  <2>2. ParentPath(<<>>) = <<>>
    BY <2>1 DEF ParentPath
  <2> QED
    BY <1>2, <2>2
<1>b. ~HasHost(F)
  BY <1>3, <1>a DEF Climbing
<1>4. PICK k \in 1..Len(F) : Directory(F, root, k)
  BY <1>3, <1>a DEF Climbing
<1>c. PICK n0 \in 1..(k - 1) :
        /\ \A i \in 1..n0 : F[i] = Slash
        /\ \A i \in (n0 + 1)..k : F[i] # Slash
        /\ Slashes(root) = 1..n0 /\ Len(root) = k
  BY <1>1, <1>2, <1>4, <1>b, FirstDirectory
<1>5. k > 1 /\ F[1] = Slash /\ Len(root) = k /\ Topmost(root)
  BY <1>c DEF Topmost
<1>6. Len(F) \in Nat /\ k \in 0..Len(F) /\ F[k] # Slash /\ root = FirstOf(F, k)
  BY <1>1, <1>4, LenProperties DEF Directory
<1>7. ASSUME Without(r, Slash) # {}
      PROVE  Entity(F) = root \/ IsPrefix(Append(root, Slash), Entity(F))
  <2> DEFINE n == Len(r)
  <2>a. PICK p \in 1..n : r[p] # Slash
    BY <1>1, <1>7, LenProperties DEF Without
  <2>1. n \in 1..Len(F) /\ F[n] = Slash /\ F[p] # Slash /\ p # n
    <3>1. Len(r) \in Nat /\ Len(r) # 0 /\ (r = <<>> => Len(r) = 0)
      BY <1>1, <2>a, LenProperties
    <3>2. n \in 1..n /\ r[n] = Slash
      BY <1>1, <3>1
    <3> QED
      BY <1>1, <1>6, <2>a, <3>1, <3>2
  <2>b. n \in Nat /\ p \in 1..n
    BY <2>1
  <2> HIDE DEF n
  <2>2. n > k /\ k < Len(F)
    <3>1. n \notin (n0 + 1)..k /\ p \notin 1..n0
      BY <1>c, <2>1
    <3> QED
      BY <1>6, <2>1, <2>b, <3>1
  <2>3. F[k + 1] = Slash /\ root \in Seq(C)
    BY <1>1, <1>4, <1>6, <2>2, FirstOfProperties DEF Directory
  <2>4. CASE ~HasId(F)
    <3>1. Entity(F) = F
      BY <2>4 DEF Entity
    <3>2. IsPrefix(Append(root, Slash), F)
      BY <1>1, <1>2, <1>5, <1>6, <2>2, <2>3, EndsAtSlash
    <3> QED
      BY <3>1, <3>2
  <2>5. CASE HasId(F)
    <3>1. Entity(F) = ParentPath(F)
      BY <2>5 DEF Entity
    <3>2. Slashes(F) # {} /\ F # Root
      BY <1>1, <1>2, <1>5, <1>6, <2>2, LenProperties DEF Slashes, Root
    <3>3. PICK m \in 0..(Len(F) - 1) : \E e \in 0..m :
            /\ \A i \in (m + 2)..Len(F) : F[i] # Slash
            /\ \A i \in (e + 1)..m : F[i] = Slash
            /\ ParentPath(F) = IF e = 0 THEN Root ELSE FirstOf(F, e)
      BY <1>1, <1>b, <3>2, ParentPathProperties
    <3>4. PICK e \in 0..m :
            /\ \A i \in (m + 2)..Len(F) : F[i] # Slash
            /\ \A i \in (e + 1)..m : F[i] = Slash
            /\ ParentPath(F) = IF e = 0 THEN Root ELSE FirstOf(F, e)
      BY <3>3
    <3>5. k <= m
      <4>1. n \notin (m + 2)..Len(F)
        BY <2>1, <3>4
      <4> QED
        BY <1>6, <2>1, <2>2, <4>1
    <3>6. e >= k
      <4>1. k \notin (e + 1)..m
        BY <1>6, <3>4
      <4> QED
        BY <1>6, <3>5, <4>1
    <3>7. Entity(F) = FirstOf(F, e) /\ e \in 0..Len(F)
      BY <1>5, <1>6, <3>1, <3>4, <3>6
    <3>8. CASE e = k
      BY <1>6, <3>7, <3>8
    <3>9. CASE e > k
      <4>1. /\ FirstOf(F, e) \in Seq(C) /\ Len(FirstOf(F, e)) = e
            /\ \A i \in 1..e : FirstOf(F, e)[i] = F[i]
        BY <1>1, <3>7, FirstOfProperties
      <4>2. k + 1 \in 1..e /\ k \in 0..e
        BY <1>6, <3>9
      <4>3. FirstOf(F, e)[k + 1] = Slash
        BY <2>3, <4>1, <4>2
      <4>4. FirstOf(FirstOf(F, e), k) = root
        BY <1>1, <1>6, <3>7, <4>2, FirstOfFirstOf
      <4>5. IsPrefix(Append(root, Slash), FirstOf(F, e))
        BY <1>2, <1>5, <2>3, <3>9, <4>1, <4>3, <4>4, EndsAtSlash
      <4> QED
        BY <3>7, <4>5
    <3> QED
      BY <1>6, <3>6, <3>8, <3>9
  <2> QED
    BY <2>4, <2>5
<1> QED
  BY <1>5, <1>7

(* The root of a location does not change with the request. *)
LEMMA RootFrame ==
  ASSUME UNCHANGED <<statements_, handler_factories_, answer>>
  PROVE  /\ GetRoot(handler_factories_[answer.matched].statement)'
              = GetRoot(handler_factories_[answer.matched].statement)
         /\ GetCompleteFilePath' = GetCompleteFilePath
<1>1. \A i : GetRoot(i)' = GetRoot(i)
  BY DEF GetRoot
<1>2. GetRoot(handler_factories_[answer.matched].statement)'
        = GetRoot(handler_factories_[answer.matched].statement)
  BY <1>1
<1> QED
  BY <1>2 DEF GetCompleteFilePath

(* A step that leaves InitRoot alone. *)
LEMMA CrudFrame ==
  ASSUME CrudInv, UNCHANGED <<file_path_, root, RequestRest, statements_, handler_factories_>>,
         \/ pc' = pc /\ UNCHANGED <<phase, result>>
         \/ pc \notin {"climb", "done"} /\ root = <<>> /\ pc' # "climb"
  PROVE  CrudInv'
<1>1. UNCHANGED <<target, uri_base_path, cur_path, answer>>
  BY DEF RequestRest
<1>2. CASE pc' = pc /\ UNCHANGED <<phase, result>>
  <2>1. Climbing => Climbing'
    BY <1>1, RootFrame DEF Climbing, Directory
  <2>2. RootAboveEntity => RootAboveEntity'
    BY <1>1, <1>2, RootFrame DEF RootAboveEntity, Entity, HasId
  <2> QED
    BY <1>2, <2>1, <2>2 DEF CrudInv
<1>3. CASE pc \notin {"climb", "done"} /\ root = <<>> /\ pc' # "climb"
  BY <1>3 DEF CrudInv, RootAboveEntity
<1> QED
  BY <1>2, <1>3

(* The call of a CRUD handler begins to climb. *)
LEMMA CreateCrudInv ==
  ASSUME StartupInv, RouteInv, CrudInv, phase = "serving", CreateCrudHandler
  PROVE  CrudInv'
<1>1. /\ pc = "handle" /\ Kind = <<"CrudHandler">>
      /\ file_path_' = GetCompleteFilePath /\ root' = file_path_'
      /\ UNCHANGED <<target, uri_base_path, cur_path, answer, handler_factories_, statements_>>
      /\ \/ phase' = "down" /\ pc' = "handle"
         \/ pc' = "done" /\ result'.code = 400
         \/ pc' = "climb"
  BY DEF CreateCrudHandler, Throw, Finish, StartupRest, RequestRest, parser, tree
<1>2. /\ answer.matched \in DOMAIN handler_factories_
      /\ answer.given \in URI /\ answer.given # <<>> /\ Last(answer.given) # Slash
  <2>1. AnswerInv /\ RequestTypeOK /\ Serves
    BY <1>1 DEF RouteInv
  <2>2. answer.matched # <<>>
    BY <1>1, <2>1 DEF AnswerInv
  <2>3. answer.matched # Root
    <3>1. handler_factories_[Root].handler = NotFound
      BY <2>1, ServesTable
    <3>2. NotFound # <<"CrudHandler">>
      BY DEF NotFound
    <3> QED
      BY <1>1, <3>1, <3>2 DEF Kind
  <2> QED
    BY <2>1, <2>2, <2>3, SymbolsOfTargets DEF AnswerInv, RequestTypeOK
<1>3. CASE phase' = "down" /\ pc' = "handle"
  BY <1>3 DEF CrudInv, RootAboveEntity
<1>4. CASE pc' = "done" /\ result'.code = 400
  BY <1>4 DEF CrudInv, RootAboveEntity
<1>5. CASE pc' = "climb"
  <2> DEFINE F == GetCompleteFilePath
  <2>1. F \in URI /\ Len(F) >= 1 /\ F[Len(F)] # Slash
    BY <1>2, CompleteFilePath DEF StartupInv, ParserInv
  <2>2. Len(F) \in 1..Len(F) /\ FirstOf(F, Len(F)) = F
    <3>1. Len(F) \in Nat
      BY <2>1, LenProperties DEF URI
    <3>2. Len(F) \in 0..Len(F)
      BY <3>1
    <3> HIDE DEF F
    <3>3. FirstOf(F, Len(F)) = F
      BY <2>1, <3>2, FirstOfFirstOf DEF URI
    <3> QED
      BY <2>1, <3>1, <3>3
  <2>3. Directory(F, F, Len(F))
    BY <2>1, <2>2 DEF Directory
  <2>4. GetCompleteFilePath' = F
    BY <1>1, RootFrame
  <2> HIDE DEF F
  <2>5. file_path_' = F /\ root' = F
    BY <1>1 DEF F
  <2>6. Climbing'
    BY <1>1, <1>2, <2>1, <2>2, <2>3, <2>4, <2>5 DEF Climbing, Directory, HasHost
  <2> QED
    BY <1>5, <2>6 DEF CrudInv, RootAboveEntity
<1> QED
  BY <1>1, <1>3, <1>4, <1>5

(* InitRoot goes on to the parent path. *)
LEMMA ClimbInv ==
  ASSUME StartupInv, CrudInv, Climb
  PROVE  CrudInv'
<1>1. /\ pc = "climb" /\ pc' = "climb" /\ ParentPath(root) # Root /\ root' = ParentPath(root)
      /\ UNCHANGED <<answer, file_path_, handler_factories_, statements_>>
  BY DEF Climb, AtTop, startup, request, parser, tree
<1>2. Climbing
  BY <1>1 DEF CrudInv
<1>3. \/ root' = <<>>
      \/ HasHost(file_path_) /\ root' \in URI /\ HasHost(root')
      \/ ~HasHost(file_path_) /\ \E k \in 1..Len(file_path_) : Directory(file_path_, root', k)
  <2>1. CASE root = <<>>
    <3>1. Slashes(<<>>) = {}
      BY DEF Slashes
    <3> QED
      BY <1>1, <2>1, <3>1 DEF ParentPath
  <2>2. CASE HasHost(file_path_) /\ root \in URI /\ HasHost(root)
    <3>1. ParentPath(root) = <<>> \/ (ParentPath(root) \in URI /\ HasHost(ParentPath(root)))
      BY <2>2, ParentOfHost DEF URI
    <3> QED
      BY <1>1, <2>2, <3>1
  <2>3. CASE ~HasHost(file_path_) /\ \E k \in 1..Len(file_path_) : Directory(file_path_, root, k)
    <3>1. PICK k \in 1..Len(file_path_) : Directory(file_path_, root, k)
      BY <2>3
    <3>2. file_path_ \in URI
      BY <1>2, CompleteFilePath DEF Climbing, StartupInv, ParserInv
    <3> QED
      BY <1>1, <2>3, <3>1, <3>2, ParentDirectory DEF URI
  <2> QED
    BY <1>2, <2>1, <2>2, <2>3 DEF Climbing
<1>4. Climbing'
  BY <1>1, <1>2, <1>3, RootFrame DEF Climbing, Directory
<1> QED
  BY <1>1, <1>4 DEF CrudInv, RootAboveEntity

(* InitRoot has found the root. *)
LEMMA RootFoundInv ==
  ASSUME StartupInv, CrudInv, RootFound
  PROVE  CrudInv'
<1>1. /\ pc = "climb" /\ pc' = "done" /\ ParentPath(root) = Root
      /\ UNCHANGED <<answer, file_path_, root, handler_factories_, statements_>>
  BY DEF RootFound, AtTop, Finish, StaticRest, RequestRest, StartupRest, parser, tree
<1>2. Climbing
  BY <1>1 DEF CrudInv
<1>3. /\ Topmost(root)
      /\ Without(GetRoot(handler_factories_[answer.matched].statement), Slash) # {} =>
           \/ Entity(file_path_) = root
           \/ IsPrefix(Append(root, Slash), Entity(file_path_))
  BY <1>1, <1>2, RootContainsEntity DEF StartupInv, ParserInv
<1>4. RootAboveEntity'
  BY <1>1, <1>3, RootFrame, Zenon DEF RootAboveEntity, Entity, HasId, Topmost
<1> QED
  BY <1>1, <1>4 DEF CrudInv

(* The handlers keep the invariant of InitRoot. *)
LEMMA HandleCrudInv ==
  ASSUME StartupInv, RouteInv, CrudInv, Handle
  PROVE  CrudInv'
<1>1. phase = "serving"
  BY DEF Handle
<1>2. CASE Return
  BY <1>2 DEF Return, CrudInv, RootAboveEntity
<1>3. CASE Respond \/ CreateStaticHandler
  <2>1. /\ pc = "handle" /\ pc' \in {"done", "static_check"}
        /\ UNCHANGED root
    BY <1>3 DEF Respond, EchoResponse, HealthResponse, SleepResponse, ChannelsResponse,
                NotFoundResponse, FixedResponse, Finish, CreateStaticHandler
  <2> QED
    BY <1>1, <2>1 DEF CrudInv, RootAboveEntity
<1>4. CASE Static
  <2>1. /\ pc \in {"static_check", "static_size", "static_open", "static_read"}
        /\ pc' \in {"static_check", "static_size", "static_open", "static_read", "done"}
        /\ UNCHANGED root
    BY <1>4 DEF Static, CheckFile, CheckSize, OpenStream, ReadChunk, Finish, StaticRest
  <2> QED
    BY <2>1 DEF CrudInv, RootAboveEntity
<1> QED
  BY <1>1, <1>2, <1>3, <1>4, CreateCrudInv, ClimbInv, RootFoundInv DEF Handle

(* Every step keeps the invariant of InitRoot. *)
LEMMA CrudNextInv ==
  ASSUME StartupInv, RouteInv, CrudInv, [Next]_vars
  PROVE  CrudInv'
<1>1. CASE UNCHANGED vars
  BY <1>1, CrudFrame DEF vars, startup, parser, tree, request, RequestRest, handler
<1>2. CASE Startup /\ UNCHANGED <<request, handler>>
  <2>1. ~Serves
    BY <1>2 DEF Startup, ParseConfig, Parsed, SetPortNumber, SetPath, ValidatePaths, Serves
  <2>2. pc = "idle" /\ pc' = "idle" /\ root' = root
    BY <1>2, <2>1 DEF RouteInv, request, handler
  <2> QED
    BY <2>2 DEF CrudInv, RootAboveEntity
<1>3. CASE Route /\ UNCHANGED handler
  <2>1. pc = "loop" /\ pc' \in {"loop", "handle", "done"} /\ root' = root
    BY <1>3 DEF Route, MatchLevel, StripLevel, NoMatch, InLoop, handler
  <2> QED
    BY <2>1 DEF CrudInv, RootAboveEntity
<1>4. CASE ChangeFile
  BY <1>4, CrudFrame DEF ChangeFile, startup, parser, tree, request, RequestRest
<1>5. ASSUME NEW uri \in Targets, Refuse(uri) \/ RouteRequest(uri), UNCHANGED handler
      PROVE  CrudInv'
  <2>1. pc = "idle" /\ pc' \in {"done", "handle", "loop"} /\ root' = root
    BY <1>5 DEF Refuse, RouteRequest, handler
  <2> QED
    BY <2>1 DEF CrudInv, RootAboveEntity
<1> QED
  BY <1>1, <1>2, <1>3, <1>4, <1>5, HandleCrudInv DEF Next, Work

-----------------------------------------------------------------------------
HandlerInv == StartupInv /\ RouteInv /\ StaticInv /\ CrudInv

(* The four invariants together are inductive, and hold in every reachable *)
(* state.                                                                  *)
THEOREM HandlerInvariant == Spec => []HandlerInv
<1>1. Init => HandlerInv
  <2> SUFFICES ASSUME Init PROVE HandlerInv
    OBVIOUS
  <2>1. /\ pc = "idle" /\ file = NoFile /\ opened = FALSE /\ body = <<>> /\ result = NoResult
        /\ root = <<>>
    BY DEF Init, RequestInit, HandlerInit
  <2>2. <<>> \in Seq(Nat \X Nat) /\ Len(<<>>) = 0
    BY EmptySeq
  <2>3. \A i \in 1..Len(body) : FALSE
    BY <2>1, <2>2
  <2>4. NoResult \in [code : Codes, status : Codes]
    BY DEF NoResult, Codes
  <2>5. StaticInv
    BY <2>1, <2>2, <2>3, <2>4, FileNumbers DEF StaticInv, BodyInv
  <2>6. CrudInv
    BY <2>1 DEF CrudInv, RootAboveEntity
  <2> QED
    BY <2>5, <2>6, StartupInitInv, RouteInitInv DEF Init, HandlerInv
<1>2. HandlerInv /\ [Next]_vars => HandlerInv'
  BY StaticNextInv, CrudNextInv, RouteNextInv, HandlersLeaveStartup, StartupNextInv, StartupFrame
     DEF HandlerInv
<1> QED
  BY <1>1, <1>2, PTL DEF Spec

(* TypeOK: from the first lexeme of the configuration to the last response *)
(* every variable keeps its type, and the table its handlers.              *)
THEOREM TypeCorrect == Spec => []TypeOK
<1>1. ASSUME HandlerInv PROVE TypeOK
  <2>1. StartupTypeOK
    <3>1. ParserTypeOK
      <4>1. DOMAIN statements_ = 1..Len(statements_)
        BY <1>1, LenProperties DEF HandlerInv, StartupInv, ParserInv, ParserTypes
      <4>2. ASSUME NEW i \in DOMAIN statements_
            PROVE  /\ statements_[i].tokens # <<>> /\ statements_[i].block \in BOOLEAN
                   /\ statements_[i].within \in 0..(i - 1)
        <5>1. statements_[i] \in Node /\ i \in Nat
          BY <1>1, <4>1, ElementOfSeq DEF HandlerInv, StartupInv, ParserInv, ParserTypes
        <5>2. statements_[i].tokens # <<>> /\ statements_[i].within < i
          BY <1>1 DEF HandlerInv, StartupInv, ParserInv, TreeInv
        <5> QED
          BY <5>1, <5>2 DEF Node
      <4> QED
        BY <1>1, <4>2 DEF ParserTypeOK, HandlerInv, StartupInv, ParserInv, ParserTypes
    <3> QED
      BY <1>1, <3>1 DEF StartupTypeOK, HandlerInv, StartupInv, PhaseInv, FactoryTypes
  <2> QED
    BY <1>1, <2>1 DEF TypeOK, HandlerInv, RouteInv, StaticInv, Codes
<1> QED
  BY <1>1, HandlerInvariant, PTL

(* WholeFile: a body holds the bytes of the file in their order, and all   *)
(* of them when the read ends and nobody has rewritten the file, for every *)
(* size of files, buffers and limits, and however often it is rewritten.   *)
THEOREM WholeFileCorrect == Spec => []WholeFile
<1>1. ASSUME HandlerInv PROVE WholeFile
  <2>1. DOMAIN body = 1..Len(body)
    BY <1>1, LenProperties DEF HandlerInv, StaticInv, BodyInv
  <2> QED
    BY <1>1, <2>1 DEF WholeFile, HandlerInv, StaticInv, BodyInv
<1> QED
  BY <1>1, HandlerInvariant, PTL

(* RootAboveEntity: the root that InitRoot finds is the first directory of *)
(* the path, and the directory of the entity is written as this one or as  *)
(* one below it, which it is as long as the path has no "..".              *)
THEOREM RootCorrect == Spec => []RootAboveEntity
<1>1. HandlerInv => RootAboveEntity
  BY DEF HandlerInv, CrudInv
<1> QED
  BY <1>1, HandlerInvariant, PTL
=============================================================================
