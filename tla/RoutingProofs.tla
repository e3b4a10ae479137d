---------------------------- MODULE RoutingProofs ------------------------------
(***************************************************************************)
(* Theorems about RouteRequest (RequestDispatcher), for every set of       *)
(* targets and whatever the table of handler factories.                    *)
(***************************************************************************)
EXTENDS StartupProofs

-----------------------------------------------------------------------------
(***************************************************************************)
(* Sequences that are cut short                                            *)
(***************************************************************************)
FirstOf(s, k) == SubSeq(s, 1, k)

(* The first k elements of a sequence. *)
LEMMA FirstOfProperties ==
  ASSUME NEW S, NEW s \in Seq(S), NEW k \in 0..Len(s)
  PROVE  /\ FirstOf(s, k) \in Seq(S) /\ Len(FirstOf(s, k)) = k
         /\ DOMAIN FirstOf(s, k) = 1..k
         /\ \A i \in 1..k : FirstOf(s, k)[i] = s[i]
<1>1. Len(s) \in Nat /\ \A i \in 1..k : s[i] \in S
  BY LenProperties, ElementOfSeq
<1>2. /\ FirstOf(s, k) \in Seq(S)
      /\ Len(FirstOf(s, k)) = IF 1 <= k THEN k - 1 + 1 ELSE 0
      /\ \A i \in 1..(k - 1 + 1) : FirstOf(s, k)[i] = s[1 + i - 1]
  BY <1>1, SubSeqProperties DEF FirstOf
<1>3. \A i \in 1..k : i \in 1..(k - 1 + 1) /\ 1 + i - 1 = i
  OBVIOUS
<1>4. k \in Nat /\ (IF 1 <= k THEN k - 1 + 1 ELSE 0) = k
  BY <1>1
<1> QED
  BY <1>2, <1>3, <1>4, LenProperties

(* All of it, and less of less. *)
LEMMA FirstOfFirstOf ==
  ASSUME NEW S, NEW s \in Seq(S), NEW k \in 0..Len(s), NEW j \in 0..k
  PROVE  FirstOf(s, Len(s)) = s /\ FirstOf(FirstOf(s, k), j) = FirstOf(s, j)
<1>1. Len(s) \in Nat /\ Len(s) \in 0..Len(s) /\ j \in 0..Len(s)
  BY LenProperties
<1>2. FirstOf(s, Len(s)) = s
  <2>1. /\ FirstOf(s, Len(s)) \in Seq(S) /\ Len(FirstOf(s, Len(s))) = Len(s)
        /\ \A i \in 1..Len(s) : FirstOf(s, Len(s))[i] = s[i]
    BY <1>1, FirstOfProperties
  <2> QED
    BY <2>1, SeqEqual
<1>3. /\ FirstOf(s, k) \in Seq(S) /\ Len(FirstOf(s, k)) = k
      /\ \A i \in 1..k : FirstOf(s, k)[i] = s[i]
  BY FirstOfProperties
<1>4. /\ FirstOf(FirstOf(s, k), j) \in Seq(S) /\ Len(FirstOf(FirstOf(s, k), j)) = j
      /\ \A i \in 1..j : FirstOf(FirstOf(s, k), j)[i] = FirstOf(s, k)[i]
  <2>1. j \in 0..Len(FirstOf(s, k))
    BY <1>3
  <2> QED
    BY <1>3, <2>1, FirstOfProperties
<1>5. /\ FirstOf(s, j) \in Seq(S) /\ Len(FirstOf(s, j)) = j
      /\ \A i \in 1..j : FirstOf(s, j)[i] = s[i]
  BY <1>1, FirstOfProperties
<1>6. \A i \in 1..j : i \in 1..k
  BY <1>1
<1>7. \A i \in 1..j : FirstOf(FirstOf(s, k), j)[i] = FirstOf(s, j)[i]
  BY <1>3, <1>4, <1>5, <1>6
<1>8. FirstOf(FirstOf(s, k), j) = FirstOf(s, j)
  BY <1>4, <1>5, <1>7, SeqEqual
<1> QED
  BY <1>2, <1>8

(* A sequence and a slash begin another one. *)
LEMMA EndsAtSlash ==
  ASSUME NEW S, Slash \in S, NEW p \in Seq(S), NEW s \in Seq(S)
  PROVE  IsPrefix(Append(p, Slash), s)
           <=> Len(p) < Len(s) /\ p = FirstOf(s, Len(p)) /\ s[Len(p) + 1] = Slash
<1> DEFINE n == Len(p)
           q == Append(p, Slash)
<1>1. n \in Nat /\ Len(s) \in Nat
  BY LenProperties
<1>2. q \in Seq(S) /\ Len(q) = n + 1 /\ q[n + 1] = Slash /\ \A i \in 1..n : q[i] = p[i]
  BY AppendProperties
<1> HIDE DEF q
<1>3. FirstOf(q, n + 1) = q
  BY <1>1, <1>2, FirstOfFirstOf
<1>4. IsPrefix(q, s) <=> n + 1 <= Len(s) /\ q = FirstOf(s, n + 1)
  BY <1>2, <1>3 DEF IsPrefix, FirstOf
<1>5. ASSUME n + 1 <= Len(s)
      PROVE  q = FirstOf(s, n + 1) <=> p = FirstOf(s, n) /\ s[n + 1] = Slash
  <2>1. n \in 0..Len(s) /\ n + 1 \in 0..Len(s) /\ n + 1 \in 1..(n + 1) /\ \A i \in 1..n : i \in 1..(n + 1)
    BY <1>1, <1>5
  <2>2. /\ FirstOf(s, n + 1) \in Seq(S) /\ Len(FirstOf(s, n + 1)) = n + 1
        /\ \A i \in 1..(n + 1) : FirstOf(s, n + 1)[i] = s[i]
    BY <2>1, FirstOfProperties
  <2>3. /\ FirstOf(s, n) \in Seq(S) /\ Len(FirstOf(s, n)) = n
        /\ \A i \in 1..n : FirstOf(s, n)[i] = s[i]
    BY <2>1, FirstOfProperties
  <2>4. ASSUME q = FirstOf(s, n + 1)
        PROVE  p = FirstOf(s, n) /\ s[n + 1] = Slash
    <3>1. \A i \in 1..(n + 1) : q[i] = s[i]
      BY <2>2, <2>4
    <3>2. \A i \in 1..n : p[i] = FirstOf(s, n)[i]
      BY <1>2, <2>1, <2>3, <3>1
    <3> QED
      BY <1>2, <2>1, <2>3, <3>1, <3>2, SeqEqual
  <2>5. ASSUME p = FirstOf(s, n), s[n + 1] = Slash
        PROVE  q = FirstOf(s, n + 1)
    <3>1. \A i \in 1..n : p[i] = s[i]
      BY <2>3, <2>5
    <3>2. ASSUME NEW i \in 1..(n + 1) PROVE q[i] = FirstOf(s, n + 1)[i]
      <4>1. i \in 1..n \/ i = n + 1
        BY <1>1
      <4> QED
        BY <1>2, <2>2, <2>5, <3>1, <4>1
    <3> QED
      BY <1>2, <2>2, <3>2, SeqEqual
  <2> QED
    BY <2>4, <2>5
<1>6. n + 1 <= Len(s) <=> n < Len(s)
  BY <1>1
<1> QED
  BY <1>4, <1>5, <1>6 DEF q

(* What TrimRight leaves ends before the slashes at the end. *)
LEMMA TrimRightProperties ==
  ASSUME NEW S, NEW s \in Seq(S)
  PROVE  \E m \in 0..Len(s) :
           /\ TrimRight(s) = FirstOf(s, m)
           /\ m > 0 => s[m] # Slash
           /\ \A i \in (m + 1)..Len(s) : s[i] = Slash
<1> DEFINE K == Without(s, Slash) \cup {0}
<1>1. Len(s) \in Nat /\ DOMAIN s = 1..Len(s)
  BY LenProperties
<1>2. K \in SUBSET (0..Len(s)) /\ K # {}
  BY <1>1 DEF Without
<1>3. PICK m \in K : m = Max(K) /\ \A y \in K : m >= y
  BY <1>1, <1>2, MaxIsGreatest
<1>4. TrimRight(s) = FirstOf(s, m)
  BY <1>3 DEF TrimRight, FirstOf
<1>5. \A y \in 1..Len(s) : y \in K <=> s[y] # Slash
  BY <1>1 DEF Without
<1> HIDE DEF K
<1>6. m \in 0..Len(s) /\ (m > 0 => s[m] # Slash)
  <2>1. m \in 0..Len(s)
    BY <1>2
  <2> QED
    BY <1>1, <1>3, <1>5, <2>1
<1>7. \A i \in (m + 1)..Len(s) : s[i] = Slash
  <2>1. \A i \in (m + 1)..Len(s) : i \in 1..Len(s) /\ ~(m >= i)
    BY <1>1, <1>6
  <2> QED
    BY <1>3, <1>5, <2>1
<1> QED
  BY <1>4, <1>6, <1>7

(* The parent of a path ends before its last slash. *)
LEMMA ParentProperties ==
  ASSUME NEW S, NEW s \in Seq(S)
  PROVE  /\ Slashes(s) = {} => Parent(s) = s
         /\ Slashes(s) # {} =>
              \E m \in 0..(Len(s) - 1) :
                /\ Parent(s) = FirstOf(s, m) /\ s[m + 1] = Slash
                /\ \A i \in (m + 2)..Len(s) : s[i] # Slash
<1> DEFINE K == Slashes(s)
<1>1. Len(s) \in Nat /\ DOMAIN s = 1..Len(s)
  BY LenProperties
<1>2. K \in SUBSET (0..Len(s)) /\ \A y \in 1..Len(s) : y \in K <=> s[y] = Slash
  BY <1>1 DEF Slashes
<1>3. K \in SUBSET (1..Len(s))
  BY <1>1 DEF Slashes
<1>4. Parent(s) = IF K = {} THEN s ELSE FirstOf(s, Max(K) - 1)
  BY DEF Parent, FirstOf
<1> HIDE DEF K
<1>5. ASSUME K # {}
      PROVE  \E m \in 0..(Len(s) - 1) :
                /\ Parent(s) = FirstOf(s, m) /\ s[m + 1] = Slash
                /\ \A i \in (m + 2)..Len(s) : s[i] # Slash
  <2>1. PICK m \in K : m = Max(K) /\ \A y \in K : m >= y
    BY <1>1, <1>2, <1>5, MaxIsGreatest
  <2>2. m \in 1..Len(s)
    BY <1>3
  <2>3. m - 1 \in 0..(Len(s) - 1) /\ m - 1 + 1 = m
    BY <1>1, <2>2
  <2>4. \A i \in (m - 1 + 2)..Len(s) : i \in 1..Len(s) /\ ~(m >= i)
    BY <1>1, <2>2
  <2>5. Parent(s) = FirstOf(s, m - 1) /\ s[m - 1 + 1] = Slash
    BY <1>2, <1>4, <1>5, <2>1, <2>2, <2>3
  <2>6. \A i \in (m - 1 + 2)..Len(s) : s[i] # Slash
    BY <1>2, <2>1, <2>4
  <2> QED
    BY <2>3, <2>5, <2>6
<1> QED
  BY <1>4, <1>5 DEF K

(* What is before the query is all of it up to the first question mark.    *)
LEMMA BeforeQueryProperties ==
  ASSUME NEW S, NEW s \in Seq(S)
  PROVE  \E m \in 0..Len(s) :
           /\ BeforeQuery(s) = FirstOf(s, m)
           /\ \A i \in 1..m : s[i] # Query
           /\ m < Len(s) => s[m + 1] = Query
<1> DEFINE Q == {i \in DOMAIN s : s[i] = Query}
           K == Q \cup {Len(s) + 1}
<1>1. Len(s) \in Nat /\ DOMAIN s = 1..Len(s)
  BY LenProperties
<1>2. K \in SUBSET Nat /\ K # {} /\ K \in SUBSET (1..(Len(s) + 1))
  BY <1>1
<1>3. PICK m \in K : m = Min(K) /\ \A y \in K : m <= y
  BY <1>2, MinIsLeast, ZenonT(60)
<1>4. BeforeQuery(s) = FirstOf(s, m - 1)
  BY <1>3 DEF BeforeQuery, FirstOf
<1>5. \A y \in 1..Len(s) : y \in K <=> s[y] = Query
  BY <1>1
<1> HIDE DEF K
<1>6. m \in 1..(Len(s) + 1)
  BY <1>2
<1>7. m - 1 \in 0..Len(s) /\ m - 1 + 1 = m /\ (m - 1 < Len(s) => m \in 1..Len(s))
  BY <1>1, <1>6
<1>8. m - 1 < Len(s) => s[m - 1 + 1] = Query
  BY <1>3, <1>5, <1>7
<1>9. \A i \in 1..(m - 1) : s[i] # Query
  <2>1. \A i \in 1..(m - 1) : i \in 1..Len(s) /\ ~(m <= i)
    BY <1>1, <1>6
  <2> QED
    BY <1>3, <1>5, <2>1
<1> QED
  BY <1>4, <1>7, <1>8, <1>9

(* The base path is the target up to the query, without the slashes at the *)
(* end, but "/" when nothing else is left.                                 *)
LEMMA BasePathProperties ==
  ASSUME NEW S, Slash \in S, NEW s \in Seq(S)
  PROVE  LET base   == ExtractUriBasePath(s)
             before == {i \in DOMAIN s : \A j \in 1..i : s[j] # Query}
             names  == {i \in before : s[i] # Slash}
         IN  /\ base \in Seq(S) /\ Len(base) >= 1
             /\ base = Root \/ base[Len(base)] # Slash
             /\ IF names = {} THEN base = Root
                ELSE /\ base = FirstOf(s, Len(base)) /\ Len(base) \in names
                     /\ \A i \in before : i > Len(base) => s[i] = Slash
<1> DEFINE base   == ExtractUriBasePath(s)
           before == {i \in DOMAIN s : \A j \in 1..i : s[j] # Query}
           names  == {i \in before : s[i] # Slash}
           t      == BeforeQuery(s)
<1>1. Len(s) \in Nat /\ DOMAIN s = 1..Len(s)
  BY LenProperties
<1>2. PICK m \in 0..Len(s) :
        /\ t = FirstOf(s, m)
        /\ \A i \in 1..m : s[i] # Query
        /\ m < Len(s) => s[m + 1] = Query
  BY BeforeQueryProperties
<1> HIDE DEF t
<1>3. before = 1..m
  <2>1. ASSUME NEW i \in 1..Len(s)
        PROVE  (\A j \in 1..i : s[j] # Query) <=> i \in 1..m
    <3>1. CASE i \in 1..m
      <4>1. \A j \in 1..i : j \in 1..m
        BY <1>1, <3>1
      <4> QED
        BY <1>2, <3>1, <4>1
    <3>2. CASE i \notin 1..m
      <4>1. m < Len(s) /\ m + 1 \in 1..i
        BY <1>1, <3>2
      <4> QED
        BY <1>2, <3>2, <4>1
    <3> QED
      BY <3>1, <3>2
  <2>2. \A i \in 1..m : i \in 1..Len(s)
    BY <1>1
  <2> QED
    BY <1>1, <2>1, <2>2
<1>4. t \in Seq(S) /\ Len(t) = m /\ \A i \in 1..m : t[i] = s[i]
  BY <1>2, FirstOfProperties
<1>5. PICK e \in 0..m :
        /\ TrimRight(t) = FirstOf(t, e)
        /\ e > 0 => t[e] # Slash
        /\ \A i \in (e + 1)..m : t[i] = Slash
  BY <1>4, TrimRightProperties
<1>6. TrimRight(t) = FirstOf(s, e) /\ e \in 0..Len(s) /\ m \in Nat
  BY <1>1, <1>2, <1>5, FirstOfFirstOf
<1>7. /\ FirstOf(s, e) \in Seq(S) /\ Len(FirstOf(s, e)) = e
      /\ \A i \in 1..e : FirstOf(s, e)[i] = s[i]
  BY <1>6, FirstOfProperties
<1>8. base = IF TrimRight(t) = <<>> THEN Root ELSE TrimRight(t)
  BY DEF ExtractUriBasePath, t
<1>9. \A i \in (e + 1)..m : s[i] = Slash
  <2>1. \A i \in (e + 1)..m : i \in 1..m
    BY <1>6
  <2> QED
    BY <1>4, <1>5, <2>1
<1> HIDE DEF base, before, names
<1>10. names = {i \in 1..m : s[i] # Slash}
  BY <1>3 DEF names
<1>11. CASE e = 0
  <2>1. TrimRight(t) = <<>>
    BY <1>6, <1>7, <1>11, EmptySeq
  <2>2. base = Root /\ Root \in Seq(S) /\ Len(Root) = 1
    BY <1>8, <2>1 DEF Root
  <2>3. names = {}
    BY <1>9, <1>10, <1>11
  <2> QED
    BY <2>2, <2>3 DEF base, before, names
<1>12. CASE e > 0
  <2>1. base = FirstOf(s, e)
    BY <1>6, <1>7, <1>8, <1>12, EmptySeq
  <2>2. e \in 1..e /\ e \in 1..m
    BY <1>6, <1>12
  <2>3. s[e] # Slash /\ base[e] # Slash
    BY <1>4, <1>5, <1>7, <1>12, <2>1, <2>2
  <2>4. \A i \in 1..m : i > e => i \in (e + 1)..m
    BY <1>6
  <2>5. \A i \in before : i > e => s[i] = Slash
    BY <1>3, <1>9, <2>4
  <2> QED
    BY <1>7, <1>10, <1>12, <2>1, <2>2, <2>3, <2>5 DEF base, before, names
<1> QED
  BY <1>6, <1>11, <1>12

(* A path cut at a slash, the slash, and the rest are the path.  The rest  *)
(* ends as the path does.                                                  *)
LEMMA SplitAtSlash ==
  ASSUME NEW S, Slash \in S, NEW s \in Seq(S), NEW k \in 0..(Len(s) - 1), s[k + 1] = Slash
  PROVE  LET rest == Substr(s, Len(FirstOf(s, k)) + 1)
         IN  /\ rest \in Seq(S)
             /\ Append(FirstOf(s, k), Slash) \o rest = s
             /\ s[Len(s)] # Slash => rest # <<>> /\ Last(rest) # Slash
<1> DEFINE p    == FirstOf(s, k)
           rest == SubSeq(s, k + 2, Len(s))
           q    == Append(p, Slash)
<1>1. Len(s) \in Nat /\ k \in 0..Len(s)
  BY LenProperties
<1>2. p \in Seq(S) /\ Len(p) = k /\ \A i \in 1..k : p[i] = s[i]
  BY <1>1, FirstOfProperties
<1>3. Substr(s, Len(p) + 1) = rest
  BY <1>1, <1>2 DEF Substr
<1>4. \A i \in (k + 2)..Len(s) : s[i] \in S
  <2>1. \A i \in (k + 2)..Len(s) : i \in 1..Len(s)
    BY <1>1
  <2> QED
    BY <2>1, ElementOfSeq
<1>5. /\ rest \in Seq(S)
      /\ Len(rest) = IF k + 2 <= Len(s) THEN Len(s) - (k + 2) + 1 ELSE 0
      /\ \A i \in 1..(Len(s) - (k + 2) + 1) : rest[i] = s[k + 2 + i - 1]
  BY <1>1, <1>4, SubSeqProperties
<1> HIDE DEF p, rest
<1>6. Len(rest) = Len(s) - (k + 1)
  BY <1>1, <1>5
<1>7. \A i \in 1..Len(rest) : rest[i] = s[k + 1 + i]
  <2>1. \A i \in 1..Len(rest) : i \in 1..(Len(s) - (k + 2) + 1) /\ k + 2 + i - 1 = k + 1 + i
    BY <1>1, <1>6
  <2> QED
    BY <1>5, <2>1
<1>8. q \in Seq(S) /\ Len(q) = k + 1 /\ q[k + 1] = Slash /\ \A i \in 1..k : q[i] = p[i]
  BY <1>2, AppendProperties
<1> HIDE DEF q
<1>9. /\ q \o rest \in Seq(S) /\ Len(q \o rest) = Len(q) + Len(rest)
      /\ \A i \in 1..(Len(q) + Len(rest)) :
           (q \o rest)[i] = IF i <= Len(q) THEN q[i] ELSE rest[i - Len(q)]
  BY <1>5, <1>8, ConcatProperties
<1>10. Len(q) + Len(rest) = Len(s)
  BY <1>1, <1>6, <1>8
<1>11. ASSUME NEW i \in 1..Len(s)
       PROVE  (IF i <= Len(q) THEN q[i] ELSE rest[i - Len(q)]) = s[i]
  <2>1. CASE i \in 1..k
    BY <1>2, <1>8, <2>1
  <2>2. CASE i = k + 1
    BY <1>1, <1>8, <2>2
  <2>3. CASE i > k + 1
    <3>1. i - (k + 1) \in 1..Len(rest) /\ k + 1 + (i - (k + 1)) = i
      BY <1>1, <1>6, <2>3
    <3> QED
      BY <1>1, <1>7, <1>8, <2>3, <3>1
  <2> QED
    BY <1>1, <2>1, <2>2, <2>3
<1>12. q \o rest = s
  <2>1. \A i \in 1..Len(s) : (q \o rest)[i] = s[i]
    BY <1>9, <1>10, <1>11
  <2> QED
    BY <1>9, <1>10, <2>1, SeqEqual
<1>13. ASSUME s[Len(s)] # Slash PROVE rest # <<>> /\ Last(rest) # Slash
  <2>1. k + 1 < Len(s)
    BY <1>1, <1>13
  <2>2. Len(rest) \in 1..Len(rest) /\ k + 1 + Len(rest) = Len(s)
    BY <1>1, <1>6, <2>1
  <2> QED
    BY <1>7, <1>13, <2>2, EmptySeq DEF Last
<1> QED
  BY <1>3, <1>5, <1>12, <1>13 DEF p, q

-----------------------------------------------------------------------------
(***************************************************************************)
(* The table, and the paths that match a base path                         *)
(***************************************************************************)
(* While the process serves, each path in the table begins with a slash,   *)
(* and the handler at "/" is NotFoundHandler.                              *)
LEMMA ServesTable ==
  ASSUME StartupInv, Serves
  PROVE  /\ DOMAIN handler_factories_ \subseteq URI
         /\ Root \in DOMAIN handler_factories_ /\ handler_factories_[Root].handler = NotFound
         /\ \A p \in DOMAIN handler_factories_ : Len(p) >= 1 /\ p[1] = Slash
<1>1. /\ Acceptable /\ Root \in DOMAIN handler_factories_
      /\ handler_factories_[Root] = [handler |-> NotFound, statement |-> 0]
      /\ Registered(Len(statements_) + 1, Named)
      /\ Len(statements_) \in Nat /\ DOMAIN statements_ = 1..Len(statements_)
  BY LenProperties DEF StartupInv, TableInv, ParserInv, ParserTypes
<1>2. ASSUME NEW p \in DOMAIN handler_factories_, p # Root
      PROVE  Len(p) > 1 /\ p[1] = Slash
  <2>1. p \in DOMAIN Named
    BY <1>2 DEF Named
  <2>2. PICK i \in Registering(Len(statements_) + 1) : RegisteredPath(i) = p
    BY <1>1, <2>1 DEF Registered
  <2>3. i \in DOMAIN statements_ /\ Registers(i)
    BY <1>1 DEF Registering
  <2> QED
    BY <1>1, <2>2, <2>3 DEF Acceptable
<1>3. Len(Root) = 1 /\ Root[1] = Slash
  BY DEF Root
<1>4. ASSUME NEW p \in DOMAIN handler_factories_
      PROVE  p \in URI /\ Len(p) >= 1 /\ p[1] = Slash
  <2>1. p \in URI /\ Len(p) \in Nat
    BY LenProperties DEF StartupInv, FactoryTypes, URI
  <2> QED
    BY <1>2, <1>3, <2>1
<1> QED
  BY <1>1, <1>4

(* The conclusions of LongestMatch and Recomposed, of an answer that is    *)
(* not given yet.                                                          *)
Longest(base, matched) ==
  LET Matching == {p \in DOMAIN handler_factories_ :
                     p = base \/ IsPrefix(Append(p, Slash), base)}
  IN  IF Matching = {} THEN matched = <<>>
      ELSE /\ matched \in Matching
           /\ \A p \in Matching : Len(p) <= Len(matched)

Recomposes(uri, base, matched, given) ==
  LET before == {i \in DOMAIN uri : \A j \in 1 .. i : uri[j] # Query}
      names  == {i \in before : uri[i] # Slash}
  IN  /\ \/ matched = <<>> /\ given = <<>>
         \/ matched = base /\ given = matched
         \/ Append(matched, Slash) \o given = base
      /\ IF names = {} THEN base = Root
         ELSE /\ IsPrefix(base, uri)
              /\ Len(base) \in names
              /\ \A i \in before : i > Len(base) => uri[i] = Slash

(* The levels above k have been looked up in vain. *)
Tried(base, k) ==
  \A j \in (k + 1)..(Len(base) - 1) :
    base[j + 1] = Slash => FirstOf(base, j) \notin DOMAIN handler_factories_

(* Where the loop of RouteRequest is. *)
LoopAt(base, cur) ==
  /\ base \notin DOMAIN handler_factories_
  /\ \/ cur = base /\ Slashes(base) = {}
     \/ \E k \in 0..(Len(base) - 1) :
          cur = FirstOf(base, k) /\ base[k + 1] = Slash /\ Tried(base, k)

(* A registered path that the base path continues is one of its levels. *)
LEMMA MatchingLevel ==
  ASSUME StartupInv, Serves, NEW base \in URI, NEW p \in DOMAIN handler_factories_
  PROVE  IsPrefix(Append(p, Slash), base)
           <=> /\ Len(p) \in 1..(Len(base) - 1) /\ p = FirstOf(base, Len(p))
               /\ base[Len(p) + 1] = Slash
<1>1. p \in URI /\ Len(p) \in Nat \ {0} /\ Len(base) \in Nat
  <2>1. p \in URI /\ Len(p) >= 1
    BY ServesTable
  <2> QED
    BY <2>1, LenProperties DEF URI
<1>2. IsPrefix(Append(p, Slash), base)
        <=> Len(p) < Len(base) /\ p = FirstOf(base, Len(p)) /\ base[Len(p) + 1] = Slash
  BY <1>1, EndsAtSlash DEF URI
<1>3. Len(p) < Len(base) <=> Len(p) \in 1..(Len(base) - 1)
  BY <1>1
<1> QED
  BY <1>2, <1>3

(* A base path that is registered is the longest match. *)
LEMMA ExactLongest ==
  ASSUME StartupInv, Serves, NEW base \in URI, base \in DOMAIN handler_factories_
  PROVE  Longest(base, base)
<1>1. Len(base) \in Nat
  BY LenProperties DEF URI
<1>2. ASSUME NEW p \in DOMAIN handler_factories_, p = base \/ IsPrefix(Append(p, Slash), base)
      PROVE  Len(p) <= Len(base)
  <2>1. CASE p = base
    BY <1>1, <2>1
  <2>2. CASE IsPrefix(Append(p, Slash), base)
    <3>1. Len(p) \in 1..(Len(base) - 1)
      BY <2>2, MatchingLevel
    <3> QED
      BY <1>1, <3>1
  <2> QED
    BY <1>2, <2>1, <2>2
<1> QED
  BY <1>2 DEF Longest

(* The first level found in the table is the longest match. *)
LEMMA LevelLongest ==
  ASSUME StartupInv, Serves, NEW base \in URI, NEW cur, LoopAt(base, cur),
         Slashes(cur) # {}, cur \in DOMAIN handler_factories_
  PROVE  Longest(base, cur)
<1>1. Len(base) \in Nat
  BY LenProperties DEF URI
<1>2. PICK k \in 0..(Len(base) - 1) :
        cur = FirstOf(base, k) /\ base[k + 1] = Slash /\ Tried(base, k)
  BY DEF LoopAt
<1>3. Len(cur) = k
  BY <1>1, <1>2, FirstOfProperties DEF URI
<1>4. IsPrefix(Append(cur, Slash), base)
  <2>1. Len(cur) >= 1
    BY ServesTable
  <2>2. Len(cur) \in 1..(Len(base) - 1)
    BY <1>1, <1>3, <2>1
  <2> QED
    BY <1>2, <1>3, <2>2, MatchingLevel
<1>5. ASSUME NEW p \in DOMAIN handler_factories_, p = base \/ IsPrefix(Append(p, Slash), base)
      PROVE  Len(p) <= Len(cur)
  <2>1. /\ Len(p) \in 1..(Len(base) - 1) /\ p = FirstOf(base, Len(p))
        /\ base[Len(p) + 1] = Slash
    BY <1>5, MatchingLevel DEF LoopAt
  <2>2. Len(p) \notin (k + 1)..(Len(base) - 1)
    BY <1>2, <2>1 DEF Tried
  <2> QED
    BY <1>1, <1>3, <2>1, <2>2
<1> QED
  BY <1>4, <1>5 DEF Longest

(* When no slash is left, nothing matches. *)
LEMMA NoneLongest ==
  ASSUME StartupInv, Serves, NEW base \in URI, NEW cur, LoopAt(base, cur), Slashes(cur) = {}
  PROVE  Longest(base, <<>>)
<1>1. Len(base) \in Nat /\ DOMAIN base = 1..Len(base)
  BY LenProperties DEF URI
<1>2. SUFFICES ASSUME NEW p \in DOMAIN handler_factories_,
                      p = base \/ IsPrefix(Append(p, Slash), base)
               PROVE  FALSE
  BY DEF Longest
<1>3. /\ Len(p) \in 1..(Len(base) - 1) /\ p = FirstOf(base, Len(p))
      /\ base[Len(p) + 1] = Slash
  BY <1>2, MatchingLevel DEF LoopAt
<1>4. Len(p) + 1 \in 1..Len(base) /\ 1 \in 1..Len(p)
  BY <1>1, <1>3
<1>5. Slashes(base) # {}
  BY <1>1, <1>3, <1>4 DEF Slashes
<1>6. PICK k \in 0..(Len(base) - 1) :
        cur = FirstOf(base, k) /\ base[k + 1] = Slash /\ Tried(base, k)
  BY <1>5 DEF LoopAt
<1>7. /\ DOMAIN cur = 1..k /\ \A i \in 1..k : cur[i] = base[i]
      /\ \A i \in 1..k : cur[i] # Slash
  <2>1. DOMAIN cur = 1..k /\ \A i \in 1..k : cur[i] = base[i]
    BY <1>1, <1>6, FirstOfProperties DEF URI
  <2> QED
    BY <2>1 DEF Slashes
<1>8. Len(p) <= k
  <2>1. Len(p) \notin (k + 1)..(Len(base) - 1)
    BY <1>3, <1>6 DEF Tried
  <2> QED
    BY <1>1, <1>3, <2>1
<1>9. p[1] = Slash /\ 1 \in 1..k
  <2>1. p[1] = Slash
    BY ServesTable
  <2> QED
    BY <1>3, <1>8, <2>1
<1>10. p[1] = base[1]
  <2>1. \A j \in 0..Len(base) : \A i \in 1..j : FirstOf(base, j)[i] = base[i]
    BY FirstOfProperties DEF URI
  <2>2. Len(p) \in 0..Len(base)
    BY <1>1, <1>3
  <2>3. FirstOf(base, Len(p))[1] = base[1]
    BY <1>4, <2>1, <2>2
  <2> QED
    BY <1>3, <2>3
<1> QED
  BY <1>7, <1>9, <1>10

(* The loop begins at the level above the base path. *)
LEMMA LoopBegins ==
  ASSUME NEW base \in URI, base \notin DOMAIN handler_factories_
  PROVE  LoopAt(base, Parent(base))
<1>1. CASE Slashes(base) = {}
  BY <1>1, ParentProperties DEF LoopAt, URI
<1>2. CASE Slashes(base) # {}
  <2>1. PICK m \in 0..(Len(base) - 1) :
          /\ Parent(base) = FirstOf(base, m) /\ base[m + 1] = Slash
          /\ \A i \in (m + 2)..Len(base) : base[i] # Slash
    BY <1>2, ParentProperties DEF URI
  <2>2. \A j \in (m + 1)..(Len(base) - 1) : j + 1 \in (m + 2)..Len(base)
    BY LenProperties DEF URI
  <2>3. Tried(base, m)
    BY <2>1, <2>2 DEF Tried
  <2> QED
    BY <2>1, <2>3 DEF LoopAt
<1> QED
  BY <1>1, <1>2

(* It goes on to the level above, if the one it is at is not registered. *)
LEMMA LoopContinues ==
  ASSUME NEW base \in URI, NEW cur, LoopAt(base, cur), Slashes(cur) # {},
         cur \notin DOMAIN handler_factories_
  PROVE  LoopAt(base, Parent(cur))
<1>1. Len(base) \in Nat /\ base \in Seq(STRING \cup {Slash, "sleep"})
  BY LenProperties DEF URI
<1>2. PICK k \in 0..(Len(base) - 1) :
        cur = FirstOf(base, k) /\ base[k + 1] = Slash /\ Tried(base, k)
  BY DEF LoopAt
<1>3. /\ k \in 0..Len(base) /\ cur \in Seq(STRING \cup {Slash, "sleep"}) /\ Len(cur) = k
      /\ \A i \in 1..k : cur[i] = base[i]
  BY <1>1, <1>2, FirstOfProperties
<1>4. PICK m \in 0..(k - 1) :
        /\ Parent(cur) = FirstOf(cur, m) /\ cur[m + 1] = Slash
        /\ \A i \in (m + 2)..k : cur[i] # Slash
  BY <1>3, ParentProperties
<1>5. m \in 0..k /\ m + 1 \in 1..k /\ m \in 0..(Len(base) - 1)
  BY <1>1, <1>3
<1>6. FirstOf(cur, m) = FirstOf(base, m)
  BY <1>1, <1>2, <1>3, <1>5, FirstOfFirstOf
<1>7. base[m + 1] = Slash
  BY <1>3, <1>4, <1>5
<1>8. ASSUME NEW j \in (m + 1)..(Len(base) - 1), base[j + 1] = Slash
      PROVE  FirstOf(base, j) \notin DOMAIN handler_factories_
  <2>1. CASE j > k
    <3>1. j \in (k + 1)..(Len(base) - 1)
      BY <1>1, <1>3, <2>1
    <3> QED
      BY <1>2, <1>8, <3>1 DEF Tried
  <2>2. CASE j = k
    BY <1>2, <2>2
  <2>3. CASE j < k
    <3>1. j + 1 \in (m + 2)..k /\ j + 1 \in 1..k
      BY <1>1, <1>3, <1>5, <2>3
    <3> QED
      BY <1>3, <1>4, <1>8, <3>1
  <2> QED
    BY <1>1, <1>3, <1>5, <2>1, <2>2, <2>3
<1>9. Tried(base, m)
  BY <1>8 DEF Tried
<1> QED
  BY <1>4, <1>5, <1>6, <1>7, <1>9 DEF LoopAt

(* A target is a sequence of the symbols of the targets. *)
LEMMA SymbolsOfTargets ==
  /\ Slash \in Symbols
  /\ \A uri \in Targets : uri \in Seq(Symbols)
  /\ \A s \in Seq(Symbols) : s \in URI
<1>1. ASSUME NEW uri \in Targets
      PROVE  uri \in Seq(STRING) /\ uri \in Seq(ToSet(uri)) /\ ToSet(uri) \subseteq Symbols
  <2>1. uri \in Seq(STRING) /\ Len(uri) \in Nat /\ DOMAIN uri = 1..Len(uri)
    BY TargetAssumption, LenProperties
  <2>2. uri \in [1..Len(uri) -> STRING]
    BY <2>1, LenProperties
  <2>3. uri \in [1..Len(uri) -> ToSet(uri)]
    BY <2>1, <2>2 DEF ToSet
  <2>4. uri \in Seq(ToSet(uri))
    BY <2>1, <2>3, SeqDef
  <2> QED
    BY <2>1, <2>4 DEF Symbols
<1>2. \A uri \in Targets : uri \in Seq(Symbols)
  BY <1>1, SeqMonotonic
<1>3. Symbols \subseteq STRING \cup {Slash, "sleep"}
  <2>1. \A uri \in Targets : ToSet(uri) \subseteq STRING
    BY <1>1, ElementOfSeq, LenProperties DEF ToSet
  <2>2. ASSUME NEW x \in Symbols, x # Slash PROVE x \in STRING
    <3>1. PICK uri \in Targets : x \in ToSet(uri)
      BY <2>2 DEF Symbols
    <3> QED
      BY <2>1, <3>1
  <2> QED
    BY <2>2
<1>4. \A s \in Seq(Symbols) : s \in URI
  BY <1>3, SeqMonotonic DEF URI
<1>5. Slash \in Symbols
  BY DEF Symbols
<1> QED
  BY <1>2, <1>4, <1>5

(* The base path is what the target is without its query and its slashes   *)
(* at the end.                                                             *)
LEMMA BasePathRecomposes ==
  ASSUME NEW uri \in Targets, NEW matched, NEW given,
         \/ matched = <<>> /\ given = <<>>
         \/ matched = ExtractUriBasePath(uri) /\ given = matched
         \/ Append(matched, Slash) \o given = ExtractUriBasePath(uri)
  PROVE  Recomposes(uri, ExtractUriBasePath(uri), matched, given)
<1> DEFINE base   == ExtractUriBasePath(uri)
           before == {i \in DOMAIN uri : \A j \in 1..i : uri[j] # Query}
           names  == {i \in before : uri[i] # Slash}
<1>1. /\ base \in Seq(Symbols)
      /\ IF names = {} THEN base = Root
         ELSE /\ base = FirstOf(uri, Len(base)) /\ Len(base) \in names
              /\ \A i \in before : i > Len(base) => uri[i] = Slash
  BY SymbolsOfTargets, BasePathProperties
<1>2. /\ uri \in Seq(Symbols) /\ Len(uri) \in Nat /\ DOMAIN uri = 1..Len(uri) /\ Len(base) \in Nat
      /\ FirstOf(base, Len(base)) = base
  BY <1>1, SymbolsOfTargets, LenProperties, FirstOfFirstOf
<1>3. names # {} => IsPrefix(base, uri)
  <2> SUFFICES ASSUME names # {} PROVE IsPrefix(base, uri)
    OBVIOUS
  <2>1. Len(base) <= Len(uri)
    BY <1>1, <1>2
  <2> QED
    BY <1>1, <1>2, <2>1 DEF IsPrefix, FirstOf
<1> QED
  BY <1>1, <1>3 DEF Recomposes

-----------------------------------------------------------------------------
(***************************************************************************)
(* The invariant of RouteRequest                                           *)
(***************************************************************************)
BasePath == target \in Targets /\ uri_base_path = ExtractUriBasePath(target)

LoopInv == BasePath /\ LoopAt(uri_base_path, cur_path) /\ answer = BadRequest

(* What the handlers rely on: the path they are given is not empty and     *)
(* does not end in a slash, unless NotFoundHandler has it.                 *)
AnswerInv ==
  /\ BasePath /\ LongestMatch /\ Recomposed
  /\ IF answer.matched = <<>> THEN pc = "done"
     ELSE answer.matched = Root \/ (answer.given # <<>> /\ Last(answer.given) # Slash)

RouteInv ==
  /\ RequestTypeOK /\ pc \in Places
  /\ IF pc = "idle" THEN RequestInit ELSE Serves /\ target \in Targets
  /\ pc = "loop" => LoopInv
  /\ pc \notin {"idle", "loop"} =>
       IF uri_base_path = <<>> THEN pc = "done" /\ answer = BadRequest ELSE AnswerInv

(* The handlers leave the request alone until it is done. *)
LEMMA RequestFrame ==
  ASSUME RouteInv, UNCHANGED <<RequestRest, handler_factories_>>, Serves => Serves',
         \/ pc' = pc
         \/ pc \notin {"idle", "loop", "done"} /\ pc' \in Places \ {"idle", "loop"}
  PROVE  RouteInv'
<1>1. UNCHANGED <<target, uri_base_path, cur_path, answer>>
  BY DEF RequestRest
<1>2. RequestTypeOK'
  BY <1>1 DEF RouteInv, RequestTypeOK
<1>3. CASE pc' = pc
  <2>1. LoopInv => LoopInv'
    BY <1>1 DEF LoopInv, BasePath, LoopAt, Tried
  <2>2. AnswerInv => AnswerInv'
    BY <1>1, <1>3 DEF AnswerInv, BasePath, LongestMatch, Recomposed, Routed
  <2>3. RequestInit => RequestInit'
    BY <1>1, <1>3 DEF RequestInit
  <2> QED
    BY <1>1, <1>2, <1>3, <2>1, <2>2, <2>3 DEF RouteInv
<1>4. CASE pc \notin {"idle", "loop", "done"} /\ pc' \in Places \ {"idle", "loop"}
  <2>1. AnswerInv /\ uri_base_path # <<>> /\ answer.matched # <<>>
    BY <1>4 DEF RouteInv, AnswerInv
  <2>2. AnswerInv'
    BY <1>1, <1>4, <2>1 DEF AnswerInv, BasePath, LongestMatch, Recomposed, Routed
  <2> QED
    BY <1>1, <1>2, <1>4, <2>1, <2>2 DEF RouteInv
<1> QED
  BY <1>3, <1>4

(* An answer, as LongestMatch and Recomposed have it. *)
LEMMA AnswerInvNext ==
  ASSUME UNCHANGED handler_factories_, BasePath', pc' \in {"handle", "done"},
         Longest(uri_base_path', answer'.matched),
         Recomposes(target', uri_base_path', answer'.matched, answer'.given),
         IF answer'.matched = <<>> THEN pc' = "done"
         ELSE answer'.matched = Root \/ (answer'.given # <<>> /\ Last(answer'.given) # Slash)
  PROVE  AnswerInv'
<1>1. LongestMatch'
  BY DEF LongestMatch, Longest
<1>2. Recomposed'
  BY DEF Recomposed, Recomposes
<1> QED
  BY <1>1, <1>2 DEF AnswerInv

(* Nothing is asked at the start. *)
LEMMA RouteInitInv == Init => RouteInv
<1>1. <<>> \in Seq(Symbols)
  OBVIOUS
<1> QED
  BY <1>1 DEF Init, RequestInit, RouteInv, RequestTypeOK, BadRequest, Places

(* The start has no request. *)
LEMMA StartupRouteInv ==
  ASSUME StartupInv, RouteInv, Startup, UNCHANGED request
  PROVE  RouteInv'
<1>1. ~Serves
  BY DEF Startup, ParseConfig, Parsed, SetPortNumber, SetPath, ValidatePaths, Serves
<1>2. pc = "idle" /\ RequestInit
  BY <1>1 DEF RouteInv
<1>3. UNCHANGED <<pc, target, uri_base_path, cur_path, answer>>
  BY DEF request
<1>4. pc' = "idle" /\ RequestInit'
  BY <1>2, <1>3 DEF RequestInit
<1>5. RequestTypeOK'
  BY <1>2, <1>3 DEF RouteInv, RequestInit, RequestTypeOK, BadRequest
<1> QED
  BY <1>4, <1>5 DEF RouteInv, Places

(* A refused request. *)
LEMMA RefuseInv ==
  ASSUME RouteInv, NEW uri \in Targets, Refuse(uri)
  PROVE  RouteInv'
<1>1. /\ pc = "idle" /\ RequestInit /\ Serves' /\ UNCHANGED <<uri_base_path, cur_path>>
      /\ target' = uri /\ pc' = "done" /\ answer' = BadRequest
  BY DEF RouteInv, Refuse, startup, Serves
<1>2. RequestTypeOK'
  <2>1. <<>> \in Seq(Symbols)
    OBVIOUS
  <2> QED
    BY <1>1, <2>1 DEF RouteInv, RequestTypeOK, BadRequest
<1> QED
  BY <1>1, <1>2 DEF RouteInv, Places, RequestInit

(* RouteRequest looks the base path up, and goes into the loop. *)
LEMMA RouteRequestInv ==
  ASSUME StartupInv, RouteInv, NEW uri \in Targets, RouteRequest(uri)
  PROVE  RouteInv'
<1> DEFINE base == ExtractUriBasePath(uri)
<1>1. /\ pc = "idle" /\ RequestInit /\ Serves /\ Serves' /\ UNCHANGED handler_factories_
      /\ target' = uri /\ uri_base_path' = base
  BY DEF RouteInv, RouteRequest, startup, Serves
<1>2. /\ base \in Seq(Symbols) /\ base \in URI /\ Len(base) >= 1
      /\ base = Root \/ base[Len(base)] # Slash
  BY SymbolsOfTargets, BasePathProperties
<1>3. BasePath' /\ base # <<>> /\ <<>> \in Seq(Symbols)
  BY <1>1, <1>2, EmptySeq DEF BasePath
<1> HIDE DEF base
<1>4. CASE /\ base \in DOMAIN handler_factories_
           /\ answer' = [matched |-> base, given |-> base]
           /\ pc' = "handle" /\ UNCHANGED cur_path
  <2>1. Longest(base, base)
    BY <1>1, <1>2, <1>4, ExactLongest
  <2>2. Recomposes(uri, base, base, base)
    BY BasePathRecomposes DEF base
  <2>3. AnswerInv'
    BY <1>1, <1>2, <1>3, <1>4, <2>1, <2>2, AnswerInvNext DEF Last
  <2>4. RequestTypeOK'
    BY <1>1, <1>2, <1>4 DEF RouteInv, RequestTypeOK
  <2> QED
    BY <1>1, <1>3, <1>4, <2>3, <2>4 DEF RouteInv, Places
<1>5. CASE /\ base \notin DOMAIN handler_factories_
           /\ cur_path' = Parent(base)
           /\ pc' = "loop" /\ UNCHANGED answer
  <2>1. LoopAt(base, Parent(base))
    BY <1>2, <1>5, LoopBegins
  <2>2. LoopInv'
    BY <1>1, <1>3, <1>5, <2>1 DEF LoopInv, LoopAt, Tried, RequestInit
  <2>3. Parent(base) \in Seq(Symbols)
    <3>1. CASE Slashes(base) = {}
      BY <1>2, <3>1, ParentProperties
    <3>2. CASE Slashes(base) # {}
      <4>1. PICK m \in 0..(Len(base) - 1) : Parent(base) = FirstOf(base, m)
        BY <1>2, <3>2, ParentProperties
      <4>2. m \in 0..Len(base)
        BY <1>2, LenProperties
      <4> QED
        BY <1>2, <4>1, <4>2, FirstOfProperties
    <3> QED
      BY <3>1, <3>2
  <2>4. RequestTypeOK'
    BY <1>1, <1>2, <1>5, <2>3 DEF RouteInv, RequestTypeOK
  <2> QED
    BY <1>1, <1>5, <2>2, <2>4 DEF RouteInv, Places
<1> QED
  BY <1>1, <1>4, <1>5 DEF RouteRequest, Answered

(* What holds in the loop. *)
LEMMA InLoopFacts ==
  ASSUME RouteInv, pc = "loop"
  PROVE  /\ Serves /\ target \in Targets /\ uri_base_path = ExtractUriBasePath(target)
         /\ LoopAt(uri_base_path, cur_path) /\ answer = BadRequest
         /\ uri_base_path \in Seq(Symbols) /\ uri_base_path \in URI /\ Len(uri_base_path) >= 1
         /\ uri_base_path = Root \/ uri_base_path[Len(uri_base_path)] # Slash
         /\ cur_path \in Seq(Symbols)
<1>1. Serves /\ LoopInv /\ RequestTypeOK
  BY DEF RouteInv
<1> QED
  BY <1>1, SymbolsOfTargets, BasePathProperties DEF LoopInv, BasePath, RequestTypeOK

(* The level is in the table. *)
LEMMA MatchLevelInv ==
  ASSUME StartupInv, RouteInv, MatchLevel
  PROVE  RouteInv'
<1> DEFINE base == uri_base_path
           rest == Substr(base, Len(cur_path) + 1)
<1>1. /\ pc = "loop" /\ Slashes(cur_path) # {} /\ cur_path \in DOMAIN handler_factories_
      /\ pc' = "handle" /\ answer' = [matched |-> cur_path, given |-> rest]
      /\ UNCHANGED <<target, uri_base_path, cur_path, handler_factories_, phase>>
  BY DEF MatchLevel, InLoop, Answered, startup
<1>2. /\ Serves /\ Serves' /\ target \in Targets /\ base = ExtractUriBasePath(target)
      /\ LoopAt(base, cur_path)
      /\ base \in Seq(Symbols) /\ base \in URI /\ Len(base) >= 1
      /\ base = Root \/ base[Len(base)] # Slash
  BY <1>1, InLoopFacts DEF Serves
<1>3. base # Root /\ base[Len(base)] # Slash
  <2>1. Root \in DOMAIN handler_factories_
    BY <1>2, ServesTable
  <2> QED
    BY <1>2, <2>1 DEF LoopAt
<1> HIDE DEF base, rest
<1>4. PICK k \in 0..(Len(base) - 1) : cur_path = FirstOf(base, k) /\ base[k + 1] = Slash
  <2>1. Slashes(base) # {} \/ cur_path # base
    BY <1>1
  <2> QED
    BY <1>2, <2>1 DEF LoopAt
<1>5. /\ rest \in Seq(Symbols) /\ Append(cur_path, Slash) \o rest = base
      /\ rest # <<>> /\ Last(rest) # Slash
  BY <1>2, <1>3, <1>4, SplitAtSlash, SymbolsOfTargets DEF rest
<1>6. Longest(base, cur_path)
  BY <1>1, <1>2, LevelLongest
<1>7. Recomposes(target, base, cur_path, rest)
  BY <1>2, <1>5, BasePathRecomposes
<1>8. cur_path # <<>> /\ base # <<>>
  <2>1. Len(cur_path) >= 1
    BY <1>1, <1>2, ServesTable
  <2> QED
    BY <1>2, <2>1, EmptySeq
<1>9. BasePath' /\ uri_base_path' = base /\ target' = target
  BY <1>1, <1>2 DEF BasePath, base
<1>10. AnswerInv'
  BY <1>1, <1>5, <1>6, <1>7, <1>8, <1>9, AnswerInvNext
<1>11. RequestTypeOK'
  BY <1>1, <1>5 DEF RouteInv, RequestTypeOK
<1> QED
  BY <1>1, <1>2, <1>8, <1>9, <1>10, <1>11 DEF RouteInv, Places

(* The level is not in the table: the one above. *)
LEMMA StripLevelInv ==
  ASSUME StartupInv, RouteInv, StripLevel
  PROVE  RouteInv'
<1>1. /\ pc = "loop" /\ Slashes(cur_path) # {} /\ cur_path \notin DOMAIN handler_factories_
      /\ cur_path' = Parent(cur_path)
      /\ UNCHANGED <<pc, target, uri_base_path, answer, handler_factories_, phase>>
  BY DEF StripLevel, InLoop, startup
<1>2. /\ Serves /\ target \in Targets /\ uri_base_path = ExtractUriBasePath(target)
      /\ LoopAt(uri_base_path, cur_path) /\ answer = BadRequest
      /\ uri_base_path \in URI /\ cur_path \in Seq(Symbols)
  BY <1>1, InLoopFacts
<1>3. LoopAt(uri_base_path, Parent(cur_path))
  BY <1>1, <1>2, LoopContinues
<1>4. LoopInv'
  BY <1>1, <1>2, <1>3 DEF LoopInv, BasePath, LoopAt, Tried
<1>5. Parent(cur_path) \in Seq(Symbols)
  <2>1. PICK m \in 0..(Len(cur_path) - 1) : Parent(cur_path) = FirstOf(cur_path, m)
    BY <1>1, <1>2, ParentProperties
  <2>2. m \in 0..Len(cur_path)
    BY <1>2, LenProperties
  <2> QED
    BY <1>2, <2>1, <2>2, FirstOfProperties
<1>6. RequestTypeOK'
  BY <1>1, <1>5 DEF RouteInv, RequestTypeOK
<1> QED
  BY <1>1, <1>2, <1>4, <1>6 DEF RouteInv, Serves

(* No level is left. *)
LEMMA NoMatchInv ==
  ASSUME StartupInv, RouteInv, NoMatch
  PROVE  RouteInv'
<1>1. /\ pc = "loop" /\ Slashes(cur_path) = {} /\ answer' = BadRequest /\ pc' = "done"
      /\ UNCHANGED <<target, uri_base_path, cur_path, handler_factories_, phase>>
  BY DEF NoMatch, startup
<1>2. /\ Serves /\ target \in Targets /\ uri_base_path = ExtractUriBasePath(target)
      /\ LoopAt(uri_base_path, cur_path) /\ uri_base_path \in URI /\ Len(uri_base_path) >= 1
  BY <1>1, InLoopFacts
<1>3. Longest(uri_base_path, <<>>) /\ Recomposes(target, uri_base_path, <<>>, <<>>)
  BY <1>1, <1>2, NoneLongest, BasePathRecomposes
<1>4. AnswerInv'
  BY <1>1, <1>2, <1>3, AnswerInvNext DEF BadRequest, BasePath
<1>5. RequestTypeOK'
  <2>1. <<>> \in Seq(Symbols)
    OBVIOUS
  <2> QED
    BY <1>1, <2>1 DEF RouteInv, RequestTypeOK, BadRequest
<1>6. uri_base_path # <<>>
  BY <1>2, EmptySeq
<1> QED
  BY <1>1, <1>2, <1>4, <1>5, <1>6 DEF RouteInv, Places, Serves

(* A handler, and the end of the call. *)
LEMMA HandleRouteInv ==
  ASSUME RouteInv, Handle
  PROVE  RouteInv'
<1>1. CASE Return
  <2>1. pc' = "idle" /\ RequestInit'
    BY <1>1 DEF Return, RequestInit
  <2>2. RequestTypeOK'
    <3>1. <<>> \in Seq(Symbols)
      OBVIOUS
    <3> QED
      BY <2>1, <3>1 DEF RequestInit, RequestTypeOK, BadRequest
  <2> QED
    BY <2>1, <2>2 DEF RouteInv, Places
<1>2. CASE Respond
  <2>1. /\ UNCHANGED <<RequestRest, handler_factories_, phase>>
        /\ pc = "handle" /\ pc' = "done"
    BY <1>2 DEF Respond, EchoResponse, HealthResponse, SleepResponse, ChannelsResponse,
                NotFoundResponse, FixedResponse, Finish, startup
  <2> QED
    BY <2>1, RequestFrame DEF Serves, Places
<1>3. CASE CreateCrudHandler \/ RootFound
  <2>1. /\ UNCHANGED <<RequestRest, handler_factories_>> /\ Serves'
        /\ pc \in {"handle", "climb"} /\ pc' \in {"handle", "done", "climb"}
    BY <1>3 DEF Handle, CreateCrudHandler, RootFound, Finish, Throw, Serves, StaticRest, StartupRest
  <2> QED
    BY <2>1, RequestFrame DEF Places
<1>4. CASE Climb
  <2>1. UNCHANGED <<RequestRest, handler_factories_, phase, pc>>
    BY <1>4 DEF Climb, RequestRest, request, startup
  <2> QED
    BY <2>1, RequestFrame DEF Serves
<1>5. CASE CreateStaticHandler
  <2>1. /\ UNCHANGED <<RequestRest, handler_factories_, phase>>
        /\ pc = "handle" /\ pc' = "static_check"
    BY <1>5 DEF CreateStaticHandler, startup
  <2> QED
    BY <2>1, RequestFrame DEF Serves, Places
<1>6. CASE Static
  <2>1. /\ UNCHANGED <<RequestRest, handler_factories_>> /\ Serves'
        /\ pc \in {"static_check", "static_size", "static_open", "static_read"}
        /\ pc' \in {"static_check", "static_size", "static_open", "static_read", "done"}
    BY <1>6 DEF Handle, Static, CheckFile, CheckSize, OpenStream, ReadChunk, Finish, Throw,
                Serves, StaticRest, StartupRest
  <2> QED
    BY <2>1, RequestFrame DEF Places
<1> QED
  BY <1>1, <1>2, <1>3, <1>4, <1>5, <1>6 DEF Handle

(* Every step keeps the invariant. *)
LEMMA RouteNextInv ==
  ASSUME StartupInv, RouteInv, [Next]_vars
  PROVE  RouteInv'
<1>1. CASE UNCHANGED vars
  BY <1>1, RequestFrame DEF vars, startup, request, RequestRest, Serves
<1>2. CASE Work
  BY <1>2, StartupRouteInv, MatchLevelInv, StripLevelInv, NoMatchInv, HandleRouteInv DEF Work, Route
<1>3. CASE ChangeFile
  BY <1>3, RequestFrame DEF ChangeFile, startup, request, RequestRest, Serves
<1> QED
  BY <1>1, <1>2, <1>3, RefuseInv, RouteRequestInv DEF Next

(* The invariants of the start and of RouteRequest hold in every reachable *)
(* state.                                                                  *)
THEOREM RouteInvariant == Spec => [](StartupInv /\ RouteInv)
<1>1. Init => StartupInv /\ RouteInv
  BY StartupInitInv, RouteInitInv DEF Init
<1>2. StartupInv /\ RouteInv /\ [Next]_vars => (StartupInv /\ RouteInv)'
  BY RouteNextInv, HandlersLeaveStartup, StartupNextInv, StartupFrame
<1> QED
  BY <1>1, <1>2, PTL DEF Spec

(* LongestMatch: the handler that RouteRequest finds, level by level from  *)
(* the end, is the one of the longest registered path that matches.        *)
THEOREM LongestMatchCorrect == Spec => []LongestMatch
<1>1. RouteInv => LongestMatch
  BY DEF RouteInv, AnswerInv, LongestMatch, Routed
<1> QED
  BY <1>1, RouteInvariant, PTL

(* Recomposed: nothing of the target is lost or invented on the way to the *)
(* handler, and the substr of the loop never throws.                       *)
THEOREM RecomposedCorrect == Spec => []Recomposed
<1>1. RouteInv => Recomposed
  BY DEF RouteInv, AnswerInv, Recomposed, Routed
<1> QED
  BY <1>1, RouteInvariant, PTL
=============================================================================
