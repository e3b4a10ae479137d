---------------------------- MODULE StartupProofs -----------------------------
(***************************************************************************)
(* Theorems about the start of the process (ConfigParser, ServingConfig),  *)
(* for every set of files, words and numbers.  They are theorems of the    *)
(* specification of RequestHandlers, which the runs check: the handlers    *)
(* leave all of the start alone, except that an exception ends it.         *)
(***************************************************************************)
EXTENDS RequestHandlers, FiniteSetTheorems, SequenceTheorems,
        WellFoundedInduction, TLAPS

Text     == Seq(STRING)
URI      == Seq(STRING \cup {Slash, "sleep"})   \* to the provers a literal is no string
Node     == [tokens : Seq(Text), within : Nat, block : BOOLEAN]
Lexemes  == [type : {"Normal", "QuotedString", "Space", "Break", "Comment", "StartBlock",
                     "EndBlock", "StatementEnd", "Error"}, text : Text]

-----------------------------------------------------------------------------
(* A set of naturals has a least element, and Min returns it. *)
LEMMA MinIsLeast ==
  ASSUME NEW S \in SUBSET Nat, S # {}
  PROVE  Min(S) \in S /\ \A y \in S : Min(S) <= y
<1>1. \E x \in S : \A y \in S : ~(<<y, x>> \in OpToRel(<, Nat))
  BY NatLessThanWellFounded, WFMin
<1>2. \A x, y \in Nat : y < x => <<y, x>> \in OpToRel(<, Nat)
  BY DEF OpToRel
<1>3. PICK x \in S : \A y \in S : ~(y < x)
  BY <1>1, <1>2
<1>4. \A y \in S : x <= y
  BY <1>3
<1> QED
  BY <1>4 DEF Min

(* A bounded set of naturals has a greatest one, and Max returns it. *)
LEMMA MaxIsGreatest ==
  ASSUME NEW n \in Nat, NEW S \in SUBSET (0..n), S # {}
  PROVE  Max(S) \in S /\ \A y \in S : Max(S) >= y
<1> DEFINE T == {n - x : x \in S}
<1>1. T \in SUBSET Nat /\ T # {}
  OBVIOUS
<1>2. Min(T) \in T /\ \A y \in T : Min(T) <= y
  BY <1>1, MinIsLeast
<1>3. PICK x \in S : Min(T) = n - x
  BY <1>2
<1>4. \A y \in S : n - x <= n - y
  BY <1>2, <1>3
<1>5. \A y \in S : x >= y
  BY <1>4
<1> QED
  BY <1>5 DEF Max

(* Among the first n naturals there is a k-th member of a set, for every k *)
(* up to their number.                                                     *)
LEMMA NthExists ==
  ASSUME NEW n \in Nat, NEW kept \in SUBSET (1..n), NEW k \in 1..Cardinality(kept)
  PROVE  \E i \in kept : Cardinality({j \in kept : j <= i}) = k
<1> DEFINE Upto(i) == {j \in kept : j <= i}
           Size(i) == Cardinality(Upto(i))
           S == {i \in 0..n : Size(i) >= k}
<1>1. IsFiniteSet(kept) /\ Cardinality(kept) \in Nat
  <2>1. IsFiniteSet(1..n)
    BY FS_Interval
  <2> QED
    BY <2>1, FS_Subset, FS_CardinalityType
<1>2. ASSUME NEW i \in 0..n PROVE IsFiniteSet(Upto(i)) /\ Size(i) \in Nat
  <2>1. Upto(i) \in SUBSET kept
    OBVIOUS
  <2> HIDE DEF Upto
  <2> QED
    BY <1>1, <2>1, FS_Subset, FS_CardinalityType
<1>3. Size(n) = Cardinality(kept) /\ Size(0) = 0
  <2>1. Upto(n) = kept
    <3>1. \A j \in kept : j <= n
      OBVIOUS
    <3> QED
      BY <3>1
  <2>2. Upto(0) = {}
    <3>1. \A j \in kept : ~(j <= 0)
      OBVIOUS
    <3> QED
      BY <3>1
  <2> HIDE DEF Upto
  <2> QED
    BY <2>1, <2>2, FS_EmptySet
<1>4. ASSUME NEW i \in 1..n
      PROVE  Size(i) = IF i \in kept THEN Size(i - 1) + 1 ELSE Size(i - 1)
  <2>1. i - 1 \in 0..n
    OBVIOUS
  <2>2. CASE i \in kept
    <3>1. Upto(i) = Upto(i - 1) \cup {i}
      <4>1. \A j \in kept : j <= i <=> j <= i - 1 \/ j = i
        OBVIOUS
      <4> QED
        BY <2>2, <4>1
    <3>2. i \notin Upto(i - 1)
      OBVIOUS
    <3> HIDE DEF Upto
    <3> QED
      BY <1>2, <2>1, <2>2, <3>1, <3>2, FS_AddElement
  <2>3. CASE i \notin kept
    <3>1. \A j \in kept : j <= i <=> j <= i - 1
      BY <2>3
    <3>2. Upto(i) = Upto(i - 1)
      BY <3>1
    <3> QED
      BY <2>3, <3>2
  <2> QED
    BY <2>2, <2>3
<1> HIDE DEF Size
<1>5. S \in SUBSET Nat /\ S # {}
  BY <1>1, <1>3
<1>6. PICK m \in S : \A y \in S : m <= y
  BY <1>5, MinIsLeast
<1>7. m \in 1..n /\ Size(m) >= k /\ m - 1 \in 0..n
  BY <1>3, <1>6
<1>8. ~(Size(m - 1) >= k)
  BY <1>6, <1>7
<1>9. m \in kept /\ Size(m) = k
  <2>1. k \in Nat /\ Size(m - 1) \in Nat /\ Size(m) \in Nat
    <3>1. k \in Nat
      BY <1>1
    <3>2. m \in 0..n
      BY <1>7
    <3>3. \A i \in 0..n : Size(i) \in Nat
      BY <1>2
    <3> QED
      BY <1>7, <3>1, <3>2, <3>3
  <2>2. Size(m) = IF m \in kept THEN Size(m - 1) + 1 ELSE Size(m - 1)
    BY <1>4, <1>7
  <2> QED
    BY <1>7, <1>8, <2>1, <2>2
<1> QED
  BY <1>9 DEF Size

(* Taking the escapes out of a word leaves a word. *)
LEMMA ProcessEscType ==
  ASSUME NEW token \in Text
  PROVE  ProcessEsc(token) \in Text
<1> DEFINE escaped[i \in DOMAIN token] == i > 1 /\ token[i - 1] = Backslash /\ ~escaped[i - 1]
           kept   == {i \in DOMAIN token : token[i] = Backslash => escaped[i]}
           Nth(k) == CHOOSE i \in kept : Cardinality({j \in kept : j <= i}) = k
<1>1. kept \in SUBSET (1..Len(token)) /\ Len(token) \in Nat
  BY LenProperties DEF Text
<1> HIDE DEF kept
<1>2. Cardinality(kept) \in Nat
  <2>1. IsFiniteSet(1..Len(token))
    BY <1>1, FS_Interval
  <2> QED
    BY <1>1, <2>1, FS_Subset, FS_CardinalityType
<1>3. ProcessEsc(token) = [k \in 1..Cardinality(kept) |-> token[Nth(k)]]
  BY DEF ProcessEsc, kept
<1>4. ASSUME NEW k \in 1..Cardinality(kept) PROVE token[Nth(k)] \in STRING
  <2>1. Nth(k) \in kept
    BY <1>1, NthExists
  <2> QED
    BY <1>1, <2>1, ElementOfSeq DEF Text
<1> HIDE DEF Nth
<1>5. [k \in 1..Cardinality(kept) |-> token[Nth(k)]] \in Seq(STRING)
  BY <1>2, <1>4, IsASeq
<1> QED
  BY <1>3, <1>5 DEF Text

(* The short that a number is converted to. *)
LEMMA ShortOf ==
  ASSUME NEW x \in Nat
  PROVE  x % ShortRange \in 0..(ShortRange - 1)
<1>1. ShortRange \in Nat \ {0}
  BY DEF ShortRange
<1>2. \A n \in Nat \ {0} : x % n \in 0..(n - 1)
  OBVIOUS
<1> QED
  BY <1>1, <1>2

-----------------------------------------------------------------------------
(***************************************************************************)
(* The parser                                                              *)
(***************************************************************************)
ParserTypes ==
  /\ config_file \in Files /\ position \in 1..(Len(config_file) + 1)
  /\ statements_ \in Seq(Node)
  /\ config_stack \in Seq(0..Len(statements_)) /\ bracket_balance \in Int
  /\ last_token_type \in Words \cup {"Start", "StartBlock", "EndBlock", "StatementEnd"}
  /\ parsed \in {"no", "true", "false", "undefined"}

(* A statement has a token, and stands in one that began before it. *)
TreeInv ==
  \A i \in DOMAIN statements_ : statements_[i].tokens # <<>> /\ statements_[i].within < i

(* The blocks that are open are statements, and a word stands in one.  *)
StackInv ==
  /\ \A i \in 2..Len(config_stack) : config_stack[i] \in DOMAIN statements_
  /\ last_token_type \in Words => statements_ # <<>>

ParserInv == ParserTypes /\ TreeInv /\ StackInv /\ StackIsPath

(* The tokens of a file. *)
LEMMA TokenType ==
  ASSUME ParserTypes
  PROVE  /\ Token \in [type : {"Normal", "QuotedString", "Space", "Break", "Comment", "StartBlock",
                               "EndBlock", "StatementEnd", "Error", "EOF"}, text : Text]
         /\ Token.type # "EOF" => AtToken + 1 \in position..(Len(config_file) + 1)
<1>1. config_file \in Seq(Lexemes) /\ position \in Nat
  BY FilesAssumption DEF ParserTypes, Lexemes, Text
<1>2. <<>> \in Text
  BY DEF Text
<1>3. CASE AtEOF
  BY <1>2, <1>3 DEF Token, Lexeme
<1>4. CASE ~AtEOF
  <2>1. Pending \in SUBSET (position..Len(config_file)) /\ Pending # {}
    BY <1>4 DEF AtEOF, Pending
  <2>2. Pending \in SUBSET Nat
    BY <1>1, <2>1
  <2>3. AtToken = Min(Pending)
    BY DEF AtToken, Min
  <2>4. AtToken \in position..Len(config_file)
    BY <2>1, <2>2, <2>3, MinIsLeast
  <2>5. config_file[AtToken] \in Lexemes
    <3>1. AtToken \in 1..Len(config_file)
      BY <1>1, <2>4, LenProperties DEF ParserTypes
    <3> QED
      BY <1>1, <3>1, ElementOfSeq
  <2> QED
    BY <1>1, <1>4, <2>4, <2>5, ProcessEscType DEF Token, Lexeme, Lexemes, Quoted
<1> QED
  BY <1>3, <1>4

(* Nothing is parsed at the start. *)
LEMMA ParserInitInv == ParserInit => ParserInv
<1> SUFFICES ASSUME ParserInit PROVE ParserInv
  OBVIOUS
<1>1. \A f \in Files : 1 \in 1..(Len(f) + 1)
  BY FilesAssumption, LenProperties
<1>2. ParserTypes
  BY <1>1 DEF ParserInit, ParserTypes
<1> QED
  BY <1>2 DEF ParserInit, ParserInv, TreeInv, StackInv, StackIsPath, Words

(* What a token read leaves behind, whatever its type. *)
LEMMA ReadTypes ==
  ASSUME ParserTypes, NEW type, type # "EOF", Read(type)
  PROVE  config_file' \in Files /\ position' \in 1..(Len(config_file') + 1)
<1>1. position' \in position..(Len(config_file) + 1) /\ config_file' = config_file
  BY TokenType DEF Read
<1>2. position \in 1..(Len(config_file) + 1) /\ Len(config_file) \in Nat
  BY FilesAssumption, LenProperties DEF ParserTypes
<1> QED
  BY <1>1, <1>2 DEF ParserTypes

(* A token that leaves the tree alone, and no word behind. *)
LEMMA QuietToken ==
  ASSUME ParserInv, UNCHANGED tree,
         config_file' \in Files, position' \in 1..(Len(config_file') + 1),
         last_token_type' \in {last_token_type, "StatementEnd"},
         parsed' \in {"no", "true", "false", "undefined"}
  PROVE  ParserInv'
<1>1. ParserTypes'
  BY DEF ParserInv, ParserTypes, tree
<1>2. TreeInv' /\ StackInv' /\ StackIsPath'
  BY DEF ParserInv, TreeInv, StackInv, StackIsPath, tree, Words
<1> QED
  BY <1>1, <1>2 DEF ParserInv

(* A word goes on with the last statement, or begins one in the block that *)
(* is open.                                                                *)
LEMMA WordInv ==
  ASSUME ParserInv, Word
  PROVE  ParserInv'
<1>1. /\ config_file' \in Files /\ position' \in 1..(Len(config_file') + 1)
      /\ last_token_type' \in Words /\ Token.text \in Text
      /\ config_stack' = config_stack /\ bracket_balance' = bracket_balance
      /\ parsed' = parsed /\ config_stack # <<>>
  <2>1. PICK type \in Words : Accept(type)
    BY DEF Word
  <2>2. Token.type = type
    BY <2>1 DEF Accept, Read
  <2> QED
    BY <2>1, <2>2, ReadTypes, TokenType DEF Word, Accept, Undefined, ParserInv, Words
<1>2. /\ statements_ \in Seq(Node) /\ Len(statements_) \in Nat
      /\ DOMAIN statements_ = 1..Len(statements_)
      /\ config_stack \in Seq(0..Len(statements_)) /\ Len(config_stack) \in Nat \ {0}
  BY <1>1, LenProperties, EmptySeq DEF ParserInv, ParserTypes
<1>3. Last(config_stack) \in 0..Len(statements_)
  BY <1>2, ElementOfSeq DEF Last
<1>4. CASE last_token_type \in Words
  <2> DEFINE n == Len(statements_)
             new == Append(statements_[n].tokens, Token.text)
  <2>1. n \in 1..n /\ statements_[n] \in Node
    BY <1>2, <1>4, EmptySeq, ElementOfSeq DEF ParserInv, StackInv
  <2>2. new \in Seq(Text) /\ new # <<>>
    BY <1>1, <2>1 DEF Node
  <2>3. statements_' = [statements_ EXCEPT ![n].tokens = new]
    BY <1>4 DEF Word
  <2> HIDE DEF new
  <2>4. statements_' = [statements_ EXCEPT ![n] = [@ EXCEPT !.tokens = new]]
    BY <2>3
  <2>5. [statements_[n] EXCEPT !.tokens = new] \in Node
    BY <2>1, <2>2 DEF Node
  <2>6. statements_' \in Seq(Node) /\ Len(statements_') = n
    BY <1>2, <2>1, <2>4, <2>5, ExceptSeq
  <2>7. /\ \A i \in 1..n : /\ statements_'[i].within = statements_[i].within
                           /\ statements_'[i].block = statements_[i].block
                           /\ statements_'[i].tokens # <<>>
    BY <1>2, <2>1, <2>2, <2>4 DEF ParserInv, TreeInv, Node
  <2>8. ParserTypes'
    BY <1>1, <2>6 DEF ParserInv, ParserTypes
  <2>9. DOMAIN statements_' = 1..n
    BY <2>6, LenProperties
  <2>10. TreeInv'
    BY <1>2, <2>7, <2>9 DEF ParserInv, TreeInv
  <2>11. StackInv'
    BY <1>1, <1>2, <1>4, <2>1, <2>6, <2>9 DEF ParserInv, StackInv
  <2>12. StackIsPath'
    BY <1>1, <1>2, <1>4, <2>1, <2>6, <2>7 DEF ParserInv, StackInv, StackIsPath, Last
  <2> QED
    BY <2>8, <2>10, <2>11, <2>12 DEF ParserInv
<1>5. CASE last_token_type \notin Words
  <2> DEFINE n == Len(statements_)
             new == [tokens |-> <<Token.text>>, within |-> Last(config_stack), block |-> FALSE]
  <2>1. new \in Node /\ new.tokens # <<>>
    BY <1>1, <1>2, <1>3 DEF Node
  <2>2. statements_' = Append(statements_, new)
    BY <1>5 DEF Word
  <2>3. /\ statements_' \in Seq(Node) /\ Len(statements_') = n + 1
        /\ \A i \in 1..n : statements_'[i] = statements_[i]
        /\ statements_'[n + 1] = new
    BY <1>2, <2>1, <2>2, AppendProperties
  <2>4. new.within = Last(config_stack)
    OBVIOUS
  <2> HIDE DEF new
  <2>5. config_stack' \in Seq(0..Len(statements_'))
    BY <1>1, <1>2, <2>3, SeqMonotonic
  <2>6. ParserTypes'
    BY <1>1, <2>3, <2>5 DEF ParserInv, ParserTypes
  <2>7. DOMAIN statements_' = 1..(n + 1)
    BY <2>3, LenProperties
  <2>8. TreeInv'
    BY <1>2, <1>3, <2>1, <2>3, <2>4, <2>7 DEF ParserInv, TreeInv
  <2>9. StackInv'
    BY <1>1, <1>2, <2>3, <2>7 DEF ParserInv, StackInv
  <2>10. StackIsPath'
    BY <1>1, <1>2, <2>3, <2>4, <2>7, SMTT(60) DEF ParserInv, StackInv, StackIsPath, Last
  <2> QED
    BY <2>6, <2>8, <2>9, <2>10 DEF ParserInv
<1> QED
  BY <1>4, <1>5

(* The last statement gets a block, which is open now. *)
LEMMA StartBlockInv ==
  ASSUME ParserInv, StartBlock
  PROVE  ParserInv'
<1> DEFINE n == Len(statements_)
<1>1. /\ config_file' \in Files /\ position' \in 1..(Len(config_file') + 1)
      /\ last_token_type' = "StartBlock" /\ last_token_type \in Words
      /\ config_stack' = Append(config_stack, n) /\ bracket_balance' = bracket_balance + 1
      /\ statements_' = [statements_ EXCEPT ![n] = [@ EXCEPT !.block = TRUE]]
      /\ parsed' = parsed
  BY ReadTypes DEF ParserInv, StartBlock, Accept, Read, Legal, Words
<1>2. /\ statements_ \in Seq(Node) /\ n \in Nat \ {0} /\ n \in 1..n
      /\ DOMAIN statements_ = 1..n
      /\ config_stack \in Seq(0..n) /\ Len(config_stack) \in Nat
  BY <1>1, LenProperties, EmptySeq DEF ParserInv, ParserTypes, StackInv
<1>3. statements_[n] \in Node /\ [statements_[n] EXCEPT !.block = TRUE] \in Node
  <2>1. statements_[n] \in Node
    BY <1>2, ElementOfSeq
  <2> QED
    BY <2>1 DEF Node
<1>4. statements_' \in Seq(Node) /\ Len(statements_') = n /\ DOMAIN statements_' = 1..n
  BY <1>1, <1>2, <1>3, ExceptSeq, LenProperties
<1>5. \A i \in 1..n : /\ statements_'[i].within = statements_[i].within
                      /\ statements_[i].block => statements_'[i].block
                      /\ statements_'[i].tokens = statements_[i].tokens
                      /\ statements_'[n].block
  BY <1>1, <1>2, <1>3 DEF Node
<1>6. /\ config_stack' \in Seq(0..n) /\ Len(config_stack') = Len(config_stack) + 1
      /\ \A i \in 1..Len(config_stack) : config_stack'[i] = config_stack[i]
      /\ config_stack'[Len(config_stack) + 1] = n
  BY <1>1, <1>2, AppendProperties
<1>7. ParserTypes'
  BY <1>1, <1>4, <1>6 DEF ParserInv, ParserTypes
<1>8. TreeInv'
  BY <1>2, <1>4, <1>5 DEF ParserInv, TreeInv
<1>9. StackInv'
  BY <1>1, <1>2, <1>4, <1>6 DEF ParserInv, StackInv, Words
<1>10. config_stack # <<>> /\ statements_[n].within = config_stack[Len(config_stack)]
  BY <1>1 DEF ParserInv, StackIsPath, Last
<1>11. Len(config_stack) # 0 /\ config_stack[1] = 0
  BY <1>2, <1>10, EmptySeq DEF ParserInv, StackIsPath
<1>12. StackIsPath'
  <2>1. Len(config_stack') = bracket_balance' + 1
    BY <1>1, <1>2, <1>6 DEF ParserInv, ParserTypes, StackIsPath
  <2>2. config_stack'[1] = 0
    <3>1. 1 \in 1..Len(config_stack)
      BY <1>2, <1>11
    <3> QED
      BY <1>6, <1>11, <3>1
  <2>3. ASSUME NEW i \in 2..Len(config_stack')
        PROVE  LET s == statements_'[config_stack'[i]]
               IN  s.block /\ s.within = config_stack'[i - 1]
    <3>1. CASE i = Len(config_stack) + 1
      <4>1. config_stack'[i] = n /\ i - 1 = Len(config_stack) /\ i - 1 \in 1..Len(config_stack)
        BY <1>2, <1>6, <1>11, <3>1
      <4>2. config_stack'[i - 1] = statements_[n].within
        BY <1>6, <1>10, <4>1
      <4> QED
        BY <1>2, <1>5, <4>1, <4>2
    <3>2. CASE i # Len(config_stack) + 1
      <4>1. i \in 2..Len(config_stack) /\ i - 1 \in 1..Len(config_stack)
        BY <1>2, <1>6, <2>3, <3>2
      <4>2. config_stack[i] \in 1..n
        BY <1>2, <4>1 DEF ParserInv, StackInv
      <4>3. /\ statements_[config_stack[i]].block
            /\ statements_[config_stack[i]].within = config_stack[i - 1]
        BY <4>1 DEF ParserInv, StackIsPath
      <4>4. config_stack'[i] = config_stack[i] /\ config_stack'[i - 1] = config_stack[i - 1]
        <5>1. i \in 1..Len(config_stack)
          BY <1>2, <4>1
        <5> QED
          BY <1>6, <4>1, <5>1, Zenon
      <4> QED
        BY <1>5, <4>2, <4>3, <4>4
    <3> QED
      BY <3>1, <3>2
  <2> QED
    BY <1>1, <2>1, <2>2, <2>3 DEF StackIsPath, Words
<1> QED
  BY <1>7, <1>8, <1>9, <1>12 DEF ParserInv

(* The block that is open last ends. *)
LEMMA EndBlockInv ==
  ASSUME ParserInv, EndBlock
  PROVE  ParserInv'
<1> DEFINE m == Len(config_stack)
<1>1. /\ config_file' \in Files /\ position' \in 1..(Len(config_file') + 1)
      /\ last_token_type' = "EndBlock" /\ config_stack # <<>>
      /\ config_stack' = Front(config_stack) /\ bracket_balance' = bracket_balance - 1
      /\ statements_' = statements_ /\ parsed' = parsed
  BY ReadTypes DEF ParserInv, EndBlock, Accept, Read, Undefined
<1>2. config_stack \in Seq(0..Len(statements_)) /\ m \in Nat \ {0}
  BY <1>1, EmptySeq DEF ParserInv, ParserTypes
<1>3. /\ config_stack' \in Seq(0..Len(statements_)) /\ Len(config_stack') = m - 1
      /\ \A i \in 1..(m - 1) : config_stack'[i] = config_stack[i]
  <2>1. \A i \in 1..(m - 1) : config_stack[i] \in 0..Len(statements_)
    BY <1>2, ElementOfSeq
  <2>2. config_stack' = SubSeq(config_stack, 1, m - 1)
    BY <1>1 DEF Front
  <2> HIDE DEF m
  <2> QED
    BY <1>2, <2>1, <2>2, SubSeqProperties
<1>4. ParserTypes' /\ TreeInv'
  BY <1>1, <1>3 DEF ParserInv, ParserTypes, TreeInv
<1>a. \A i \in 2..(m - 1) : i \in 2..m /\ config_stack'[i] = config_stack[i]
                            /\ config_stack'[i - 1] = config_stack[i - 1]
  <2>1. \A i \in 2..(m - 1) : i \in 2..m /\ i \in 1..(m - 1) /\ i - 1 \in 1..(m - 1)
    BY <1>2
  <2> QED
    BY <1>3, <2>1
<1>5. StackInv'
  BY <1>1, <1>3, <1>a DEF ParserInv, StackInv, Words
<1>6. StackIsPath'
  <2>1. Len(config_stack') = bracket_balance' + 1
    BY <1>1, <1>2, <1>3 DEF ParserInv, ParserTypes, StackIsPath
  <2>2. config_stack' # <<>> => config_stack'[1] = 0
    <3>1. config_stack' # <<>> => 1 \in 1..(m - 1)
      BY <1>2, <1>3, EmptySeq
    <3> QED
      BY <1>1, <1>3, <3>1 DEF ParserInv, StackIsPath
  <2> QED
    BY <1>1, <1>3, <1>a, <2>1, <2>2, SMTT(60) DEF ParserInv, StackIsPath, Words
<1> QED
  BY <1>4, <1>5, <1>6 DEF ParserInv

(* Every step of the parser keeps its invariant. *)
LEMMA ParseInv ==
  ASSUME ParserInv, Parse
  PROVE  ParserInv'
<1>1. CASE SkipComment
  BY <1>1, QuietToken, ReadTypes DEF SkipComment, ParserInv, ParserTypes
<1>2. CASE StatementEnd
  BY <1>2, QuietToken, ReadTypes DEF StatementEnd, Accept, ParserInv, ParserTypes
<1>3. CASE EndParse
  BY <1>3, QuietToken DEF EndParse, ParserInv, ParserTypes
<1> QED
  BY <1>1, <1>2, <1>3, WordInv, StartBlockInv, EndBlockInv DEF Parse

-----------------------------------------------------------------------------
(***************************************************************************)
(* Parse returns true for the valid files.  The state of Parse is related  *)
(* to the part of the file that has been read: c stands for the file, n    *)
(* for the lexemes of it that have been read.                              *)
(***************************************************************************)
(* A space separates the i-th lexeme from a word before it. *)
Spaced(c, i) ==
  \A h \in 1..(i - 1) :
    c[h].type \in Words /\ (\A k \in (h + 1)..(i - 1) : ~IsToken(c[k])) =>
      \E k \in (h + 1)..(i - 1) :
        c[k].type = "Space" /\ \A l \in k..(i - 1) : c[l].type # "Comment"

(* What Parse asks of a token, in the words of Valid. *)
Fits(c, i) ==
  /\ c[i].type # "Error"
  /\ c[i].type \in {"StatementEnd", "StartBlock"} => AfterWord(c, i)
  /\ c[i].type = "EndBlock" => ~AfterWord(c, i)
  /\ c[i].type \in Words => Spaced(c, i)

ReadTo(c, n, balance, last) ==
  /\ n \in 0..Len(c) /\ (n > 0 => c[n].type \notin Blanks)
  /\ \A i \in 1..n : Fits(c, i)
  /\ balance = Depth(c, n)
  /\ balance >= 0 => \A i \in 1..n : Depth(c, i) >= 0
  /\ last \in Words <=> AfterWord(c, n + 1)
  /\ last = "Start" => balance = 0

ReadInv ==
  parsed = "no" =>
    ReadTo(Complete(config_file), position - 1, bracket_balance, last_token_type)

(* The files that are valid and have spaces between words, token by token. *)
LEMMA ValidFile ==
  ASSUME NEW c \in Seq(Lexemes)
  PROVE  Valid(c) /\ SpacesBetweenWords(c) <=>
           /\ \A i \in 1..Len(c) : Fits(c, i) /\ Depth(c, i) >= 0
           /\ Depth(c, Len(c)) = 0 /\ ~AfterWord(c, Len(c) + 1)
<1>1. DOMAIN c = 1..Len(c) /\ Len(c) \in Nat
  BY LenProperties
<1>2. SpacesBetweenWords(c) <=> \A i \in 1..Len(c) : c[i].type \in Words => Spaced(c, i)
  <2>1. ASSUME SpacesBetweenWords(c), NEW i \in 1..Len(c), c[i].type \in Words
        PROVE  Spaced(c, i)
    <3>1. ASSUME NEW h \in 1..(i - 1), c[h].type \in Words,
                 \A k \in (h + 1)..(i - 1) : ~IsToken(c[k])
          PROVE  \E k \in (h + 1)..(i - 1) :
                   c[k].type = "Space" /\ \A l \in k..(i - 1) : c[l].type # "Comment"
      <4>1. h \in DOMAIN c /\ i \in DOMAIN c /\ h < i
        BY <1>1
      <4> QED
        BY <2>1, <3>1, <4>1 DEF SpacesBetweenWords
    <3> QED
      BY <3>1 DEF Spaced
  <2>2. ASSUME \A i \in 1..Len(c) : c[i].type \in Words => Spaced(c, i),
               NEW h \in DOMAIN c, NEW i \in DOMAIN c, h < i,
               c[h].type \in Words, c[i].type \in Words,
               \A k \in (h + 1)..(i - 1) : ~IsToken(c[k])
        PROVE  \E k \in (h + 1)..(i - 1) :
                 c[k].type = "Space" /\ \A l \in k..(i - 1) : c[l].type # "Comment"
    <3>1. Spaced(c, i) /\ h \in 1..(i - 1)
      BY <1>1, <2>2
    <3> QED
      BY <2>2, <3>1 DEF Spaced
  <2> QED
    BY <2>1, <2>2 DEF SpacesBetweenWords
<1>3. ASSUME \A i \in 1..Len(c) : c[i].type \in Words => Spaced(c, i),
             NEW i \in 1..(Len(c) - 1), c[i].type \in Words, c[i + 1].type \in Words
      PROVE  FALSE
  <2>1. Spaced(c, i + 1) /\ i \in 1..((i + 1) - 1) /\ (i + 1)..((i + 1) - 1) = {}
    BY <1>1, <1>3
  <2> QED
    BY <1>3, <2>1 DEF Spaced
<1> QED
  BY <1>1, <1>2, <1>3 DEF Valid, Fits

(* Blanks and comments change nothing about the token before. *)
LEMMA AfterWordFrame ==
  ASSUME NEW c, NEW m \in Nat, NEW t \in Nat, m < t,
         \A k \in (m + 1)..(t - 1) : ~IsToken(c[k])
  PROVE  AfterWord(c, t) <=> AfterWord(c, m + 1)
<1>1. ASSUME NEW j \in 1..(t - 1), c[j].type \in Words, \A k \in (j + 1)..(t - 1) : ~IsToken(c[k])
      PROVE  AfterWord(c, m + 1)
  <2>1. IsToken(c[j])
    BY <1>1 DEF IsToken, Words, Blanks
  <2>2. j \in 1..((m + 1) - 1)
    BY <1>1, <2>1
  <2>3. \A k \in (j + 1)..((m + 1) - 1) : k \in (j + 1)..(t - 1)
    BY <1>1
  <2> QED
    BY <1>1, <2>2, <2>3 DEF AfterWord
<1>2. ASSUME NEW j \in 1..((m + 1) - 1), c[j].type \in Words,
             \A k \in (j + 1)..((m + 1) - 1) : ~IsToken(c[k])
      PROVE  AfterWord(c, t)
  <2>1. j \in 1..(t - 1)
    BY <1>2
  <2>2. \A k \in (j + 1)..(t - 1) : k \in (j + 1)..((m + 1) - 1) \/ k \in (m + 1)..(t - 1)
    BY <1>2
  <2> QED
    BY <1>2, <2>1, <2>2 DEF AfterWord
<1> QED
  BY <1>1, <1>2 DEF AfterWord

(* After a token, it is the token before. *)
LEMMA AfterWordToken ==
  ASSUME NEW c, NEW t \in Nat \ {0}, IsToken(c[t])
  PROVE  AfterWord(c, t + 1) <=> c[t].type \in Words
<1>1. t \in 1..((t + 1) - 1) /\ (t + 1)..((t + 1) - 1) = {}
  OBVIOUS
<1>2. ASSUME NEW j \in 1..((t + 1) - 1), c[j].type \in Words,
             \A k \in (j + 1)..((t + 1) - 1) : ~IsToken(c[k])
      PROVE  c[t].type \in Words
  <2>1. j = t \/ t \in (j + 1)..((t + 1) - 1)
    BY <1>2
  <2> QED
    BY <1>2, <2>1
<1> QED
  BY <1>1, <1>2 DEF AfterWord

(* How many of the first k lexemes have a type. *)
Number(c, type, k) == Cardinality({i \in 1..k : c[i].type = type})

(* Their number changes at a lexeme of the type only. *)
LEMMA NumberNext ==
  ASSUME NEW c, NEW type, NEW m \in Nat, NEW t \in Nat, m < t,
         \A k \in (m + 1)..(t - 1) : c[k].type # type
  PROVE  /\ Number(c, type, m) \in Nat
         /\ \A k \in m..(t - 1) : Number(c, type, k) = Number(c, type, m)
         /\ Number(c, type, t) = IF c[t].type = type THEN Number(c, type, m) + 1
                                                     ELSE Number(c, type, m)
<1> DEFINE S(k) == {i \in 1..k : c[i].type = type}
<1>1. IsFiniteSet(S(m)) /\ Cardinality(S(m)) \in Nat
  <2>1. S(m) \in SUBSET (1..m) /\ IsFiniteSet(1..m)
    BY FS_Interval
  <2> HIDE DEF S
  <2> QED
    BY <2>1, FS_Subset, FS_CardinalityType
<1>2. \A k \in m..(t - 1) : S(k) = S(m)
  <2>1. ASSUME NEW k \in m..(t - 1), NEW i
        PROVE  i \in S(k) <=> i \in S(m)
    <3>1. i \in 1..k <=> i \in 1..m \/ i \in (m + 1)..k
      OBVIOUS
    <3>2. i \in (m + 1)..k => i \in (m + 1)..(t - 1)
      OBVIOUS
    <3> QED
      BY <3>1, <3>2
  <2> HIDE DEF S
  <2>2. \A k \in m..(t - 1) : S(k) \subseteq S(m) /\ S(m) \subseteq S(k)
    BY <2>1
  <2> QED
    BY <2>2
<1>3. S(t) = IF c[t].type = type THEN S(m) \cup {t} ELSE S(m)
  <2>1. S(t - 1) = S(m)
    BY <1>2
  <2>2. \A i : i \in 1..t <=> i \in 1..(t - 1) \/ i = t
    OBVIOUS
  <2>3. S(t) = IF c[t].type = type THEN S(t - 1) \cup {t} ELSE S(t - 1)
    BY <2>2
  <2> HIDE DEF S
  <2> QED
    BY <2>1, <2>3
<1>4. t \notin S(m)
  OBVIOUS
<1> HIDE DEF S
<1>5. Cardinality(S(t)) = IF c[t].type = type THEN Cardinality(S(m)) + 1 ELSE Cardinality(S(m))
  BY <1>1, <1>3, <1>4, FS_AddElement
<1>6. \A k \in m..(t - 1) : Cardinality(S(k)) = Cardinality(S(m))
  BY <1>2
<1> QED
  BY <1>1, <1>5, <1>6 DEF S, Number

(* The depth after a token. *)
LEMMA DepthNext ==
  ASSUME NEW c, NEW m \in Nat, NEW t \in Nat, m < t,
         \A k \in (m + 1)..(t - 1) : ~IsToken(c[k])
  PROVE  /\ Depth(c, m) \in Int
         /\ \A k \in m..(t - 1) : Depth(c, k) = Depth(c, m)
         /\ c[t].type = "StartBlock" => Depth(c, t) = Depth(c, m) + 1
         /\ c[t].type = "EndBlock" => Depth(c, t) = Depth(c, m) - 1
         /\ c[t].type \notin {"StartBlock", "EndBlock"} => Depth(c, t) = Depth(c, m)
<1> DEFINE Opened(k) == Number(c, "StartBlock", k)
           Closed(k) == Number(c, "EndBlock", k)
<1>1. \A k \in (m + 1)..(t - 1) : c[k].type # "StartBlock" /\ c[k].type # "EndBlock"
  BY DEF IsToken, Blanks
<1>2. /\ Opened(m) \in Nat /\ \A k \in m..(t - 1) : Opened(k) = Opened(m)
      /\ Opened(t) = IF c[t].type = "StartBlock" THEN Opened(m) + 1 ELSE Opened(m)
  BY <1>1, NumberNext
<1>3. /\ Closed(m) \in Nat /\ \A k \in m..(t - 1) : Closed(k) = Closed(m)
      /\ Closed(t) = IF c[t].type = "EndBlock" THEN Closed(m) + 1 ELSE Closed(m)
  BY <1>1, NumberNext
<1>4. \A k : Depth(c, k) = Opened(k) - Closed(k)
  BY DEF Depth, Number
<1> HIDE DEF Opened, Closed
<1> QED
  BY <1>2, <1>3, <1>4

(* Complete leaves out the last lexeme, or none. *)
LEMMA CompleteType ==
  ASSUME ParserTypes, NEW c, c = Complete(config_file)
  PROVE  LET n == Len(config_file)
         IN  /\ config_file \in Seq(Lexemes) /\ n \in Nat /\ DOMAIN config_file = 1..n
             /\ position \in 1..(n + 1) /\ \A i \in 1..n : config_file[i] \in Lexemes
             /\ c \in Seq(Lexemes) /\ Len(c) \in {n - 1, n} \cap Nat
             /\ Len(c) = (IF n > 0 /\ config_file[n].type = "Normal" THEN n - 1 ELSE n)
             /\ \A i \in 1..Len(c) : c[i] = config_file[i]
<1> DEFINE f == config_file
           n == Len(config_file)
<1>1. /\ f \in Seq(Lexemes) /\ n \in Nat /\ DOMAIN f = 1..n
      /\ position \in 1..(n + 1) /\ \A i \in 1..n : f[i] \in Lexemes
  <2>1. f \in Seq(Lexemes)
    BY FilesAssumption DEF ParserTypes, Lexemes, Text
  <2> QED
    BY <2>1, LenProperties, ElementOfSeq DEF ParserTypes
<1>2. /\ c \in Seq(Lexemes) /\ Len(c) \in {n - 1, n} \cap Nat
      /\ Len(c) = (IF n > 0 /\ f[n].type = "Normal" THEN n - 1 ELSE n)
      /\ \A i \in 1..Len(c) : c[i] = f[i]
  <2>1. f # <<>> <=> n > 0
    BY <1>1, EmptySeq
  <2>2. CASE f # <<>> /\ Last(f).type = "Normal"
    <3>1. c = SubSeq(f, 1, n - 1)
      BY <2>2 DEF Complete, Front
    <3>2. n - 1 \in 0..n /\ n - 1 \in Nat
      BY <1>1, <2>1, <2>2
    <3>3. c \in Seq(Lexemes) /\ Len(c) = n - 1 /\ \A i \in 1..(n - 1) : c[i] = f[i]
      BY <1>1, <3>1, <3>2, SubSeqProperties
    <3> QED
      BY <2>1, <2>2, <3>2, <3>3 DEF Last
  <2>3. CASE ~(f # <<>> /\ Last(f).type = "Normal")
    <3>1. c = f
      BY <2>3 DEF Complete
    <3> QED
      BY <1>1, <2>1, <2>3, <3>1 DEF Last
  <2> QED
    BY <2>2, <2>3
<1> QED
  BY <1>1, <1>2

(* The token that ParseToken returns, as a lexeme of the complete file:    *)
(* the first that is no blank.                                             *)
LEMMA TokenRead ==
  ASSUME ParserTypes, NEW c, c = Complete(config_file), position - 1 <= Len(c)
  PROVE  /\ c \in Seq(Lexemes)
         /\ Token.type # "EOF" =>
              /\ AtToken \in position..Len(c) /\ Token.type = c[AtToken].type
              /\ c[AtToken].type \notin Blanks
              /\ \A k \in position..(AtToken - 1) : c[k].type \in Blanks
              /\ seenWhitespace <=> \E k \in position..(AtToken - 1) : c[k].type = "Space"
         /\ Token.type = "EOF" => \A k \in position..Len(c) : c[k].type \in Blanks
<1> DEFINE f == config_file
           n == Len(config_file)
<1>1. /\ f \in Seq(Lexemes) /\ n \in Nat /\ DOMAIN f = 1..n
      /\ position \in 1..(n + 1) /\ \A i \in 1..n : f[i] \in Lexemes
  BY CompleteType
<1>2. /\ c \in Seq(Lexemes) /\ Len(c) \in {n - 1, n} \cap Nat
      /\ Len(c) = (IF n > 0 /\ f[n].type = "Normal" THEN n - 1 ELSE n)
      /\ \A i \in 1..Len(c) : c[i] = f[i]
  BY CompleteType
<1> HIDE DEF f, n
<1>3. /\ Pending \in SUBSET (position..n)
      /\ \A k \in position..n : k \in Pending <=> f[k].type \notin Blanks
  BY DEF Pending, f, n
<1>4. ASSUME Pending # {}
      PROVE  AtToken \in Pending /\ \A k \in Pending : AtToken <= k
  <2>1. Pending \in SUBSET Nat
    BY <1>1, <1>3
  <2> QED
    BY <1>4, <2>1, MinIsLeast DEF AtToken, Min
<1>5. AtEOF <=> Pending = {} \/ (AtToken = n /\ f[n].type = "Normal")
  BY DEF AtEOF, f, n
<1>6. CASE AtEOF
  <2>1. Token.type = "EOF"
    BY <1>6 DEF Token, Lexeme
  <2>2. \A k \in position..Len(c) : c[k].type \in Blanks
    <3>1. ASSUME NEW k \in position..Len(c), c[k].type \notin Blanks
          PROVE  FALSE
      <4>1. k \in Pending
        BY <1>1, <1>2, <1>3, <3>1
      <4>2. AtToken = n /\ f[n].type = "Normal" /\ n <= k
        BY <1>4, <1>5, <1>6, <4>1
      <4>3. Len(c) = n - 1 \/ n = 0
        BY <1>1, <1>2, <4>2
      <4> QED
        BY <1>1, <1>2, <3>1, <4>2, <4>3
    <3> QED
      BY <3>1
  <2> QED
    BY <1>2, <2>1, <2>2
<1>7. CASE ~AtEOF
  <2>1. /\ AtToken \in position..n /\ f[AtToken].type \notin Blanks
        /\ \A k \in Pending : AtToken <= k
    BY <1>3, <1>4, <1>5, <1>7
  <2>2. AtToken \in position..Len(c)
    BY <1>1, <1>2, <1>5, <1>7, <2>1
  <2>3. AtToken \in 1..Len(c) /\ c[AtToken] = f[AtToken]
    BY <1>1, <1>2, <2>2
  <2>4. \A k \in position..(AtToken - 1) : c[k] = f[k] /\ c[k].type \in Blanks
    <3>1. \A k \in position..(AtToken - 1) : k \in 1..Len(c) /\ k \in position..n /\ k \notin Pending
      BY <1>1, <1>2, <2>1, <2>2
    <3> QED
      BY <1>2, <1>3, <3>1
  <2>5. Token.type = f[AtToken].type /\ Token.type # "EOF"
    <3>1. f[AtToken].type # "EOF"
      BY <1>1, <2>1 DEF Lexemes
    <3>2. Token.type = f[AtToken].type
      BY <1>7 DEF Token, Quoted, Lexeme, f
    <3> QED
      BY <3>1, <3>2
  <2>6. seenWhitespace <=> \E k \in position..(AtToken - 1) : c[k].type = "Space"
    BY <2>4 DEF seenWhitespace, f
  <2> QED
    BY <1>2, <2>2, <2>3, <2>1, <2>4, <2>5, <2>6
<1> QED
  BY <1>6, <1>7

(* Nothing has been read at the start. *)
LEMMA ReadInitInv ==
  ASSUME ParserTypes, ParserInit
  PROVE  ReadInv
<1> DEFINE c == Complete(config_file)
<1>1. c \in Seq(Lexemes) /\ Len(c) \in Nat
  BY CompleteType
<1>2. position - 1 = 0 /\ last_token_type = "Start" /\ bracket_balance = 0
  BY DEF ParserInit
<1>3. Depth(c, 0) = 0
  <2>1. \A type : {i \in 1..0 : c[i].type = type} = {}
    OBVIOUS
  <2> QED
    BY <2>1, FS_EmptySet DEF Depth
<1>4. ~AfterWord(c, 0 + 1)
  BY DEF AfterWord
<1> HIDE DEF c
<1>5. ReadTo(c, 0, 0, "Start")
  BY <1>1, <1>3, <1>4 DEF ReadTo, Words
<1> QED
  BY <1>2, <1>5 DEF ReadInv, c

(* A lexeme is read: what stands before it stays as it was, and the blanks *)
(* that were skipped are nothing to Valid.                                 *)
LEMMA SkippedBlanks ==
  ASSUME NEW c \in Seq(Lexemes), NEW n \in Nat, NEW balance, NEW last,
         ReadTo(c, n, balance, last), NEW t \in (n + 1)..Len(c),
         \A k \in (n + 1)..(t - 1) : c[k].type \in Blanks
  PROVE  /\ t \in Nat /\ n < t /\ \A k \in (n + 1)..(t - 1) : ~IsToken(c[k])
         /\ \A i \in 1..(t - 1) : Fits(c, i)
         /\ AfterWord(c, t) <=> last \in Words
         /\ balance >= 0 => \A i \in 1..(t - 1) : Depth(c, i) >= 0
<1>1. t \in Nat /\ n < t /\ \A k \in (n + 1)..(t - 1) : ~IsToken(c[k])
  BY LenProperties DEF IsToken
<1>2. \A i \in 1..(t - 1) : i \in 1..n \/ i \in (n + 1)..(t - 1)
  BY <1>1
<1>3. \A i \in (n + 1)..(t - 1) : Fits(c, i)
  BY DEF Fits, Blanks, Words
<1>4. AfterWord(c, t) <=> last \in Words
  BY <1>1, AfterWordFrame DEF ReadTo
<1>5. \A i \in (n + 1)..(t - 1) : Depth(c, i) = balance
  <2>1. \A i \in n..(t - 1) : Depth(c, i) = Depth(c, n)
    BY <1>1, DepthNext
  <2> QED
    BY <2>1 DEF ReadTo
<1> QED
  BY <1>1, <1>2, <1>3, <1>4, <1>5 DEF ReadTo

(* A comment is skipped like a blank. *)
LEMMA ReadToComment ==
  ASSUME NEW c \in Seq(Lexemes), NEW n \in Nat, NEW balance, NEW last,
         ReadTo(c, n, balance, last), NEW t \in (n + 1)..Len(c), c[t].type = "Comment",
         \A k \in (n + 1)..(t - 1) : c[k].type \in Blanks
  PROVE  ReadTo(c, t, balance, last)
<1>1. /\ t \in Nat /\ n < t /\ \A k \in (n + 1)..(t - 1) : ~IsToken(c[k])
      /\ \A i \in 1..(t - 1) : Fits(c, i)
      /\ balance >= 0 => \A i \in 1..(t - 1) : Depth(c, i) >= 0
  BY SkippedBlanks
<1>2. Fits(c, t) /\ ~IsToken(c[t]) /\ c[t].type \notin Blanks
  BY DEF Fits, Words, IsToken, Blanks
<1>3. \A k \in (n + 1)..((t + 1) - 1) : ~IsToken(c[k])
  BY <1>1, <1>2
<1>4. AfterWord(c, t + 1) <=> last \in Words
  BY <1>1, <1>3, AfterWordFrame DEF ReadTo
<1>5. Depth(c, t) = balance
  BY <1>1, DepthNext DEF ReadTo
<1>6. \A i \in 1..t : i \in 1..(t - 1) \/ i = t
  BY <1>1
<1>7. t \in 0..Len(c)
  BY <1>1, LenProperties
<1> QED
  BY <1>1, <1>2, <1>4, <1>5, <1>6, <1>7 DEF ReadTo

(* What a token does to the depth. *)
Change(type) == IF type = "StartBlock" THEN 1 ELSE IF type = "EndBlock" THEN -1 ELSE 0

(* A token that may follow the one before it, in the words of Parse: a     *)
(* word after a word has a space among the blanks before it, and nothing   *)
(* but the end of the file follows when a closing brace too many has been. *)
LEMMA ReadToToken ==
  ASSUME NEW c \in Seq(Lexemes), NEW n \in Nat, NEW balance, NEW last,
         ReadTo(c, n, balance, last), NEW t \in (n + 1)..Len(c),
         \A k \in (n + 1)..(t - 1) : c[k].type \in Blanks,
         IsToken(c[t]), c[t].type # "Error", c[t].type # "Start", balance >= 0,
         c[t].type \in Words /\ last \in Words =>
           \E k \in (n + 1)..(t - 1) : c[k].type = "Space",
         c[t].type \in {"StatementEnd", "StartBlock"} => last \in Words,
         c[t].type = "EndBlock" => last \notin Words
  PROVE  ReadTo(c, t, balance + Change(c[t].type), c[t].type)
<1>1. /\ t \in Nat /\ n < t /\ \A k \in (n + 1)..(t - 1) : ~IsToken(c[k])
      /\ \A i \in 1..(t - 1) : Fits(c, i) /\ Depth(c, i) >= 0
      /\ AfterWord(c, t) <=> last \in Words
  BY SkippedBlanks
<1>2. c[t].type \in Words => Spaced(c, t)
  <2> SUFFICES ASSUME c[t].type \in Words, NEW h \in 1..(t - 1), c[h].type \in Words,
                      \A k \in (h + 1)..(t - 1) : ~IsToken(c[k])
               PROVE  \E k \in (h + 1)..(t - 1) :
                        c[k].type = "Space" /\ \A l \in k..(t - 1) : c[l].type # "Comment"
    BY DEF Spaced
  <2>1. last \in Words
    BY <1>1 DEF AfterWord
  <2>2. PICK k \in (n + 1)..(t - 1) : c[k].type = "Space"
    BY <2>1
  <2>3. h \in 1..n
    <3>1. IsToken(c[h])
      BY DEF IsToken, Words, Blanks
    <3> QED
      BY <1>1, <3>1
  <2>4. k \in (h + 1)..(t - 1) /\ \A l \in k..(t - 1) : l \in (n + 1)..(t - 1)
    BY <1>1, <2>2, <2>3
  <2>5. \A l \in k..(t - 1) : c[l].type # "Comment"
    BY <2>4 DEF Blanks
  <2> QED
    BY <2>2, <2>4, <2>5
<1>3. Fits(c, t) /\ c[t].type \notin Blanks
  BY <1>1, <1>2 DEF Fits, IsToken
<1>4. AfterWord(c, t + 1) <=> c[t].type \in Words
  BY <1>1, AfterWordToken
<1>5. balance = Depth(c, n) /\ Depth(c, t) = balance + Change(c[t].type) /\ balance \in Int
  BY <1>1, DepthNext DEF ReadTo, Change
<1>6. \A i \in 1..t : i \in 1..(t - 1) \/ i = t
  BY <1>1
<1>7. t \in 0..Len(c)
  BY <1>1, LenProperties
<1> QED
  BY <1>1, <1>3, <1>4, <1>5, <1>6, <1>7 DEF ReadTo

(* Where Parse is in the complete file, and what the token is there. *)
LEMMA ReadingAt ==
  ASSUME ParserInv, ReadInv, parsed = "no", NEW c, c = Complete(config_file)
  PROVE  LET n == position - 1
         IN  /\ c \in Seq(Lexemes) /\ Len(c) \in Nat /\ n \in Nat /\ n <= Len(c)
             /\ ReadTo(c, n, bracket_balance, last_token_type)
             /\ Token.type # "EOF" =>
                  /\ AtToken \in (n + 1)..Len(c) /\ Token.type = c[AtToken].type
                  /\ c[AtToken].type \notin Blanks
                  /\ \A k \in (n + 1)..(AtToken - 1) : c[k].type \in Blanks
                  /\ seenWhitespace <=> \E k \in (n + 1)..(AtToken - 1) : c[k].type = "Space"
             /\ Token.type = "EOF" => \A k \in (n + 1)..Len(c) : c[k].type \in Blanks
<1> DEFINE n == position - 1
<1>1. c \in Seq(Lexemes) /\ Len(c) \in Nat /\ position \in Nat
  BY CompleteType DEF ParserInv
<1>2. ReadTo(c, n, bracket_balance, last_token_type)
  BY DEF ReadInv
<1>3. n \in 0..Len(c) /\ position = n + 1
  BY <1>1, <1>2 DEF ReadTo
<1>4. position - 1 <= Len(c)
  BY <1>1, <1>3
<1>5. /\ Token.type # "EOF" =>
           /\ AtToken \in position..Len(c) /\ Token.type = c[AtToken].type
           /\ c[AtToken].type \notin Blanks
           /\ \A k \in position..(AtToken - 1) : c[k].type \in Blanks
           /\ seenWhitespace <=> \E k \in position..(AtToken - 1) : c[k].type = "Space"
      /\ Token.type = "EOF" => \A k \in position..Len(c) : c[k].type \in Blanks
  BY <1>4, TokenRead DEF ParserInv
<1>6. n \in Nat /\ n <= Len(c)
  BY <1>1, <1>3
<1> HIDE DEF n
<1> QED
  BY <1>1, <1>2, <1>3, <1>5, <1>6 DEF n

(* Nothing but the end of the file may follow a closing brace too many. *)
LEMMA OpenBlocks ==
  ASSUME ParserInv, Legal, ~Undefined, Token.type # "EOF", Token.type # "Comment"
  PROVE  bracket_balance >= 0
<1>1. config_stack \in Seq(0..Len(statements_)) /\ Len(config_stack) = bracket_balance + 1
  BY DEF ParserInv, ParserTypes, StackIsPath
<1>2. config_stack # <<>>
  <2>1. Token.type \in {"StatementEnd", "StartBlock"} => last_token_type \in Words
    BY DEF Legal, Words
  <2>2. last_token_type \in Words => config_stack # <<>>
    BY DEF ParserInv, StackIsPath
  <2>3. Token.type \in Words \cup {"StatementEnd", "StartBlock", "EndBlock", "EOF"}
    BY DEF Legal
  <2> QED
    BY <2>1, <2>2, <2>3 DEF Undefined
<1>3. Len(config_stack) \in Nat \ {0}
  BY <1>1, <1>2, LenProperties, EmptySeq
<1> QED
  BY <1>1, <1>3 DEF ParserInv, ParserTypes

(* A token that Parse accepts. *)
LEMMA AcceptRead ==
  ASSUME ParserInv, ReadInv, NEW type, Accept(type),
         type \in Words \cup {"StatementEnd", "StartBlock", "EndBlock"},
         bracket_balance' = bracket_balance + Change(type)
  PROVE  ReadInv'
<1> DEFINE c == Complete(config_file)
           n == position - 1
           t == AtToken
<1>1. /\ parsed = "no" /\ Token.type = type /\ Legal /\ ~Undefined
      /\ position' = t + 1 /\ config_file' = config_file /\ last_token_type' = type
      /\ type \notin {"EOF", "Comment"}
  BY DEF Accept, Read, Words
<1>2. /\ c \in Seq(Lexemes) /\ n \in Nat /\ t \in (n + 1)..Len(c) /\ Len(c) \in Nat
      /\ ReadTo(c, n, bracket_balance, last_token_type)
      /\ c[t].type = type /\ \A k \in (n + 1)..(t - 1) : c[k].type \in Blanks
      /\ seenWhitespace <=> \E k \in (n + 1)..(t - 1) : c[k].type = "Space"
  BY <1>1, ReadingAt
<1>3. bracket_balance >= 0
  BY <1>1, OpenBlocks
<1>4. /\ type \in Words /\ last_token_type \in Words => seenWhitespace
      /\ type \in {"StatementEnd", "StartBlock"} => last_token_type \in Words
      /\ type = "EndBlock" => last_token_type \notin Words
  BY <1>1 DEF Legal, Words
<1>5. IsToken(c[t]) /\ type # "Error" /\ type # "Start"
  BY <1>2 DEF IsToken, Words, Blanks
<1>6. c' = c
  BY <1>1
<1> HIDE DEF c, n, t
<1>7. ReadTo(c, t, bracket_balance + Change(type), type)
  BY <1>2, <1>3, <1>4, <1>5, ReadToToken
<1>8. ReadTo(c', position' - 1, bracket_balance', last_token_type')
  <2>1. position' - 1 = t
    BY <1>1, <1>2
  <2> QED
    BY <1>1, <1>6, <1>7, <2>1
<1> QED
  BY <1>8 DEF ReadInv, c

(* What has been read stays true in every step. *)
LEMMA ReadNextInv ==
  ASSUME ParserInv, ReadInv, Parse \/ UNCHANGED parser
  PROVE  ReadInv'
<1>1. CASE SkipComment
  <2> DEFINE c == Complete(config_file)
             n == position - 1
             t == AtToken
  <2>1. /\ parsed = "no" /\ Token.type = "Comment" /\ position' = t + 1
        /\ config_file' = config_file /\ UNCHANGED <<last_token_type, bracket_balance>>
    BY <1>1 DEF SkipComment, Read, tree
  <2>2. /\ c \in Seq(Lexemes) /\ n \in Nat /\ t \in (n + 1)..Len(c) /\ Len(c) \in Nat
        /\ ReadTo(c, n, bracket_balance, last_token_type)
        /\ c[t].type = "Comment" /\ \A k \in (n + 1)..(t - 1) : c[k].type \in Blanks
    BY <2>1, ReadingAt
  <2>3. c' = c
    BY <2>1
  <2> HIDE DEF c, n, t
  <2>4. ReadTo(c, t, bracket_balance, last_token_type)
    BY <2>2, ReadToComment
  <2>5. position' - 1 = t
    BY <2>1, <2>2
  <2> QED
    BY <2>1, <2>3, <2>4, <2>5 DEF ReadInv, c
<1>2. CASE Word
  BY <1>2, AcceptRead DEF Word, Change, Words, ParserInv, ParserTypes
<1>3. CASE StatementEnd
  BY <1>3, AcceptRead DEF StatementEnd, Change, tree, ParserInv, ParserTypes
<1>4. CASE StartBlock
  BY <1>4, AcceptRead DEF StartBlock, Change
<1>5. CASE EndBlock
  <2>1. bracket_balance' = bracket_balance + Change("EndBlock")
    BY <1>5 DEF EndBlock, Change, ParserInv, ParserTypes
  <2> QED
    BY <1>5, <2>1, AcceptRead DEF EndBlock
<1>6. CASE EndParse
  BY <1>6 DEF EndParse, ReadInv
<1>7. CASE UNCHANGED parser
  BY <1>7 DEF ReadInv, parser, tree
<1> QED
  BY <1>1, <1>2, <1>3, <1>4, <1>5, <1>6, <1>7 DEF Parse

(* Only blanks are left: the file is valid when the last token may end it. *)
LEMMA BlanksToEnd ==
  ASSUME NEW c \in Seq(Lexemes), NEW n \in Nat, NEW balance, NEW last,
         ReadTo(c, n, balance, last), \A k \in (n + 1)..Len(c) : c[k].type \in Blanks
  PROVE  Valid(c) /\ SpacesBetweenWords(c) <=> last \notin Words /\ balance = 0
<1>1. Len(c) \in Nat /\ n <= Len(c) /\ balance = Depth(c, n)
  BY LenProperties DEF ReadTo
<1>2. \A k \in (n + 1)..((Len(c) + 1) - 1) : ~IsToken(c[k])
  BY <1>1 DEF IsToken
<1>3. AfterWord(c, Len(c) + 1) <=> last \in Words
  BY <1>1, <1>2, AfterWordFrame DEF ReadTo
<1>4. \A k \in n..Len(c) : Depth(c, k) = balance
  <2>1. \A k \in n..((Len(c) + 1) - 1) : Depth(c, k) = Depth(c, n)
    BY <1>1, <1>2, DepthNext, SMTT(60)
  <2> QED
    BY <1>1, <2>1
<1>5. \A i \in 1..Len(c) : i \in 1..n \/ i \in (n + 1)..Len(c)
  BY <1>1
<1>6. \A i \in (n + 1)..Len(c) : Fits(c, i)
  BY DEF Fits, Blanks, Words
<1>7. balance = 0 => \A i \in 1..Len(c) : Depth(c, i) >= 0
  <2>1. ASSUME balance = 0, NEW i \in 1..Len(c) PROVE Depth(c, i) >= 0
    <3>1. i \in 1..n => Depth(c, i) >= 0
      BY <2>1 DEF ReadTo
    <3>2. i \in n..Len(c) => Depth(c, i) = 0
      BY <1>4, <2>1
    <3> QED
      BY <1>1, <3>1, <3>2
  <2> QED
    BY <2>1
<1>8. Depth(c, Len(c)) = balance /\ \A i \in 1..Len(c) : Fits(c, i)
  BY <1>1, <1>4, <1>5, <1>6 DEF ReadTo
<1> QED
  BY <1>3, <1>7, <1>8, ValidFile

(* A token that may not follow the one before it is one that Valid, or     *)
(* SpacesBetweenWords, does not allow there either.                        *)
LEMMA Misplaced ==
  ASSUME NEW c \in Seq(Lexemes), NEW n \in Nat, NEW balance, NEW last,
         ReadTo(c, n, balance, last), NEW t \in (n + 1)..Len(c),
         \A k \in (n + 1)..(t - 1) : c[k].type \in Blanks,
         \/ c[t].type \in Words /\ last \in Words
              /\ \A k \in (n + 1)..(t - 1) : c[k].type # "Space"
         \/ c[t].type \in {"StatementEnd", "StartBlock"} /\ last \notin Words
         \/ c[t].type = "EndBlock" /\ last \in Words \cup {"Start"}
         \/ c[t].type = "Error"
  PROVE  ~(Valid(c) /\ SpacesBetweenWords(c))
<1>1. /\ t \in Nat /\ n < t /\ \A k \in (n + 1)..(t - 1) : ~IsToken(c[k])
      /\ AfterWord(c, t) <=> last \in Words
  BY SkippedBlanks
<1>2. t \in 1..Len(c)
  BY <1>1, LenProperties
<1>3. SUFFICES ASSUME Fits(c, t), Depth(c, t) >= 0
               PROVE  FALSE
  BY <1>2, ValidFile
<1>4. CASE /\ c[t].type \in Words /\ last \in Words
           /\ \A k \in (n + 1)..(t - 1) : c[k].type # "Space"
  <2>1. PICK h \in 1..(t - 1) :
          c[h].type \in Words /\ \A k \in (h + 1)..(t - 1) : ~IsToken(c[k])
    BY <1>1, <1>4 DEF AfterWord
  <2>2. PICK k \in (h + 1)..(t - 1) :
          c[k].type = "Space" /\ \A l \in k..(t - 1) : c[l].type # "Comment"
    BY <1>3, <1>4, <2>1 DEF Fits, Spaced
  <2>3. k \in 1..n
    <3>1. k \notin (n + 1)..(t - 1)
      BY <1>4, <2>2
    <3> QED
      BY <1>1, <2>2, <3>1
  <2>4. k < n /\ c[n].type \notin Blanks
    BY <2>2, <2>3 DEF ReadTo, Blanks
  <2>5. n \in (h + 1)..(t - 1) /\ n \in k..(t - 1)
    BY <1>1, <2>1, <2>2, <2>4
  <2>6. ~IsToken(c[n]) /\ c[n].type # "Comment"
    BY <2>1, <2>2, <2>5
  <2> QED
    BY <2>4, <2>6 DEF IsToken
<1>5. CASE c[t].type = "EndBlock" /\ last = "Start"
  <2>1. balance = 0 /\ balance = Depth(c, n)
    BY <1>5 DEF ReadTo
  <2>2. Depth(c, t) = Depth(c, n) - 1
    BY <1>1, <1>5, DepthNext
  <2> QED
    BY <1>3, <2>1, <2>2
<1> QED
  BY <1>1, <1>3, <1>4, <1>5 DEF Fits

(* A closing brace too many is one in Valid, too. *)
LEMMA TooManyClosed ==
  ASSUME NEW c \in Seq(Lexemes), NEW n \in Nat, NEW balance, NEW last,
         ReadTo(c, n, balance, last), balance = -1
  PROVE  ~Valid(c)
<1>1. n \in 0..Len(c) /\ Len(c) \in Nat /\ DOMAIN c = 1..Len(c) /\ Depth(c, n) = -1
  BY LenProperties DEF ReadTo
<1>2. n # 0
  <2>1. \A type : {i \in 1..0 : c[i].type = type} = {}
    OBVIOUS
  <2>2. Depth(c, 0) = 0
    BY <2>1, FS_EmptySet DEF Depth
  <2> QED
    BY <1>1, <2>2
<1> QED
  BY <1>1, <1>2 DEF Valid

(* What Parse returns. *)
LEMMA EndParseResult ==
  ASSUME ParserInv, ReadInv, EndParse
  PROVE  LET valid == Valid(Complete(config_file))
         IN  /\ parsed' = "true" <=> valid /\ SpacesBetweenWords(Complete(config_file))
             /\ parsed' = "undefined" => ~valid
<1> DEFINE c == Complete(config_file)
           n == position - 1
           t == AtToken
<1>1. /\ parsed = "no" /\ Token.type # "Comment"
      /\ \/ ~Legal /\ parsed' = "false"
         \/ Legal /\ Undefined /\ parsed' = "undefined"
         \/ Legal /\ Token.type = "EOF" /\ parsed' = "true"
  BY DEF EndParse
<1>2. /\ c \in Seq(Lexemes) /\ n \in Nat /\ ReadTo(c, n, bracket_balance, last_token_type)
      /\ Token.type # "EOF" =>
           /\ t \in (n + 1)..Len(c) /\ Token.type = c[t].type /\ c[t].type \notin Blanks
           /\ \A k \in (n + 1)..(t - 1) : c[k].type \in Blanks
           /\ seenWhitespace <=> \E k \in (n + 1)..(t - 1) : c[k].type = "Space"
      /\ Token.type = "EOF" => \A k \in (n + 1)..Len(c) : c[k].type \in Blanks
  BY <1>1, ReadingAt
<1> HIDE DEF c, n, t
<1>3. CASE Token.type = "EOF"
  <2>1. Valid(c) /\ SpacesBetweenWords(c) <=> last_token_type \notin Words /\ bracket_balance = 0
    BY <1>2, <1>3, BlanksToEnd
  <2>2. Legal <=> last_token_type \notin Words /\ bracket_balance = 0
    BY <1>3 DEF Legal, LegalEnd, Words
  <2>3. ~Undefined
    BY <1>3 DEF Undefined, Words
  <2> QED
    BY <1>1, <1>3, <2>1, <2>2, <2>3 DEF c
<1>4. CASE Token.type # "EOF" /\ ~Legal
  <2>1. \/ /\ c[t].type \in Words /\ last_token_type \in Words
           /\ \A k \in (n + 1)..(t - 1) : c[k].type # "Space"
        \/ c[t].type \in {"StatementEnd", "StartBlock"} /\ last_token_type \notin Words
        \/ c[t].type = "EndBlock" /\ last_token_type \in Words \cup {"Start"}
        \/ c[t].type = "Error"
    <3>1. c[t].type \in {"Normal", "QuotedString", "StatementEnd", "StartBlock", "EndBlock", "Error"}
      <4>1. c[t] \in Lexemes
        BY <1>2, <1>4, LenProperties, ElementOfSeq
      <4> QED
        BY <1>1, <1>2, <1>4, <4>1 DEF Lexemes, Blanks
    <3> QED
      BY <1>2, <1>4, <3>1 DEF Legal, Words
  <2>2. ~(Valid(c) /\ SpacesBetweenWords(c))
    BY <1>2, <1>4, <2>1, Misplaced
  <2> QED
    BY <1>1, <1>4, <2>2 DEF c
<1>5. CASE Token.type # "EOF" /\ Legal
  <2>1. bracket_balance = -1
    <3>1. Len(config_stack) = bracket_balance + 1 /\ Len(config_stack) = 0 /\ bracket_balance \in Int
      BY <1>1, <1>5, EmptySeq DEF Undefined, ParserInv, ParserTypes, StackIsPath
    <3> QED
      BY <3>1
  <2>2. ~Valid(c)
    BY <1>2, <2>1, TooManyClosed
  <2> QED
    BY <1>1, <1>5, <2>2 DEF c
<1> QED
  BY <1>3, <1>4, <1>5

-----------------------------------------------------------------------------
(***************************************************************************)
(* The port and the paths                                                  *)
(***************************************************************************)
Serves == phase \in {"serving", "down"}

PhaseInv ==
  /\ phase \in {"parse", "port", "paths", "serving", "refused", "thrown", "down"}
  /\ phase = "parse" \/ parsed \in {"true", "false"}
  /\ phase \in {"port", "paths", "thrown"} \/ Serves => parsed = "true"
  /\ next \in 1..(Len(statements_) + 1)
  /\ phase \in {"parse", "port"} => next = 1 /\ handler_factories_ = <<>>
  /\ Serves => next = Len(statements_) + 1
  /\ port_ \in Nat /\ listening \in 0..(ShortRange - 1)

(* The port is the first that the configuration names, and fits an int.    *)
PortInv ==
  /\ phase = "paths" \/ Serves =>
       \E i \in DOMAIN statements_ :
         /\ FirstPort(i) /\ NumberOf[statements_[i].tokens[2]] <= MaxInt
         /\ port_ = NumberOf[statements_[i].tokens[2]]
  /\ Serves => listening = port_ % ShortRange

(* What is in the table of factories. *)
FactoryTypes ==
  \A p \in DOMAIN handler_factories_ :
    /\ p \in URI
    /\ handler_factories_[p].handler \in Factory \cup {Test, NotFound}
    /\ handler_factories_[p].statement \in 0..(next - 1)

(* The statements before the n-th that register a factory. *)
Registering(n) == {i \in 1..(n - 1) : Registers(i)}

(* What the statements before the n-th have registered: the paths, where   *)
(* the factory at a path is the one of the last statement that registers   *)
(* it, and is a TestHandler if it replaces another.                        *)
Registered(n, factories) ==
  /\ DOMAIN factories = {RegisteredPath(i) : i \in Registering(n)}
  /\ \A p \in DOMAIN factories :
       LET f == factories[p]
       IN  /\ f.statement \in Registering(n) /\ f.handler = Handler(f.statement)
           /\ RegisteredPath(f.statement) = p
           /\ \A i \in Registering(n) : RegisteredPath(i) = p =>
                f.statement >= i /\ (f.statement > i => f.handler = Test)

(* No location up to there has found its path taken. *)
NoDuplicate(n) ==
  \A i \in Registering(n) : \A j \in (i + 1)..(n - 1) :
    IsLocation(j) => Path(j) # RegisteredPath(i)

Named == [p \in DOMAIN handler_factories_ \ {Root} |-> handler_factories_[p]]

(* While the process serves, a NotFoundHandler is at "/" in addition.      *)
TableInv ==
  /\ phase = "paths" => Registered(next, handler_factories_) /\ NoDuplicate(next)
  /\ Serves =>
       /\ Acceptable
       /\ Root \in DOMAIN handler_factories_
       /\ handler_factories_[Root] = [handler |-> NotFound, statement |-> 0]
       /\ Registered(Len(statements_) + 1, Named)
  /\ phase \in {"refused", "thrown"} => parsed = "false" \/ ~Acceptable

StartupInv == ParserInv /\ PhaseInv /\ PortInv /\ FactoryTypes /\ TableInv

(* What the statements say does not change when they do not. *)
LEMMA TreeFrame ==
  ASSUME UNCHANGED statements_
  PROVE  /\ Acceptable' <=> Acceptable
         /\ \A i : /\ Registers(i)' <=> Registers(i)
                   /\ IsLocation(i)' <=> IsLocation(i)
                   /\ FirstPort(i)' <=> FirstPort(i)
                   /\ RegisteredPath(i)' = RegisteredPath(i)
                   /\ Handler(i)' = Handler(i) /\ Path(i)' = Path(i)
<1>1. \A i : /\ IsLocation(i)' <=> IsLocation(i)
             /\ IsPort(i)' <=> IsPort(i)
             /\ Handler(i)' = Handler(i) /\ Path(i)' = Path(i)
  BY DEF IsLocation, IsPort, IsA, InServer, Handler, Path
<1>2. \A i : /\ Registers(i)' <=> Registers(i)
             /\ RegisteredPath(i)' = RegisteredPath(i)
             /\ FirstPort(i)' <=> FirstPort(i)
  BY <1>1 DEF Registers, RegisteredPath, FirstPort
<1>3. Acceptable' <=> Acceptable
  BY <1>1, <1>2 DEF Acceptable
<1> QED
  BY <1>1, <1>2, <1>3

(* A step that leaves the parser alone. *)
LEMMA ParserFrame ==
  ASSUME ParserInv, UNCHANGED parser
  PROVE  ParserInv'
BY DEF ParserInv, ParserTypes, TreeInv, StackInv, StackIsPath, parser, tree

(* A step that leaves the start alone, or ends it after it has succeeded. *)
LEMMA StartupFrame ==
  ASSUME StartupInv, UNCHANGED StartupRest,
         phase' = phase \/ (phase = "serving" /\ phase' = "down")
  PROVE  StartupInv'
<1>1. ParserInv'
  BY ParserFrame DEF StartupInv, StartupRest
<1>2. /\ UNCHANGED <<statements_, parsed, next, port_, listening, handler_factories_>>
      /\ Serves' <=> Serves
      /\ phase' = phase \/ Serves
  BY DEF StartupRest, parser, tree, Serves
<1>3. PhaseInv'
  BY <1>2 DEF StartupInv, StartupRest, PhaseInv, Serves
<1>4. PortInv'
  BY <1>2, TreeFrame DEF StartupInv, StartupRest, PortInv, Serves
<1>5. TableInv'
  <2>1. \A n : Registering(n)' = Registering(n) /\ (NoDuplicate(n)' <=> NoDuplicate(n))
    BY <1>2, TreeFrame DEF Registering, NoDuplicate
  <2>2. Named' = Named
    BY <1>2 DEF Named
  <2>3. /\ Registered(next, handler_factories_) => Registered(next, handler_factories_)'
        /\ NoDuplicate(next) => NoDuplicate(next)'
    BY <1>2, <2>1, TreeFrame DEF Registered, NoDuplicate
  <2>4. Registered(Len(statements_) + 1, Named) => Registered(Len(statements_) + 1, Named)'
    BY <1>2, <2>1, <2>2, TreeFrame DEF Registered
  <2> QED
    BY <1>2, <2>3, <2>4, TreeFrame DEF StartupInv, TableInv, Serves
<1>6. FactoryTypes'
  BY <1>2 DEF StartupInv, FactoryTypes
<1> QED
  BY <1>1, <1>3, <1>4, <1>5, <1>6 DEF StartupInv

(* At the start there is nothing. *)
LEMMA StartupInitInv == StartupInit => StartupInv
<1> SUFFICES ASSUME StartupInit PROVE StartupInv
  OBVIOUS
<1>1. ParserInv
  BY ParserInitInv DEF StartupInit
<1>2. PhaseInv
  BY <1>1, LenProperties DEF StartupInit, PhaseInv, Serves, ShortRange, ParserInv, ParserTypes
<1> QED
  BY <1>1, <1>2 DEF StartupInit, StartupInv, PortInv, FactoryTypes, TableInv, Serves

(* The parser reads on. *)
LEMMA ParseConfigInv ==
  ASSUME StartupInv, ParseConfig
  PROVE  StartupInv'
<1>1. ParserInv'
  BY ParseInv DEF StartupInv, ParseConfig
<1>2. phase' = "parse" /\ UNCHANGED <<next, port_, listening, handler_factories_>>
  BY DEF ParseConfig
<1>3. Len(statements_') \in Nat
  BY <1>1, LenProperties DEF ParserInv, ParserTypes
<1> QED
  BY <1>1, <1>2, <1>3
     DEF ParseConfig, StartupInv, PhaseInv, PortInv, FactoryTypes, TableInv, Serves

(* The end of the parser. *)
LEMMA ParsedInv ==
  ASSUME StartupInv, Parsed
  PROVE  StartupInv'
<1>1. ParserInv' /\ UNCHANGED <<statements_, parsed, next, port_, listening, handler_factories_>>
  BY ParserFrame DEF StartupInv, Parsed, parser, tree
<1>2. phase' \in {"port", "refused"} /\ (phase' = "refused" => parsed = "false")
  BY DEF Parsed
<1>3. PhaseInv'
  BY <1>1, <1>2 DEF Parsed, StartupInv, PhaseInv, Serves
<1> QED
  BY <1>1, <1>2, <1>3 DEF StartupInv, PortInv, FactoryTypes, TableInv, Serves

(* There is at most one first port. *)
LEMMA OneFirstPort ==
  ASSUME ParserTypes, NEW i \in DOMAIN statements_, NEW j \in DOMAIN statements_,
         FirstPort(i), FirstPort(j)
  PROVE  i = j
<1>1. i \in Nat \ {0} /\ j \in Nat \ {0}
  BY LenProperties DEF ParserTypes
<1>2. ~(i < j)
  BY <1>1 DEF FirstPort
<1>3. ~(j < i)
  BY <1>1 DEF FirstPort
<1> QED
  BY <1>1, <1>2, <1>3

(* The port is that of the first statement that names one. *)
LEMMA SetPortNumberInv ==
  ASSUME StartupInv, SetPortNumber
  PROVE  StartupInv'
<1> DEFINE ports == {i \in DOMAIN statements_ : IsPort(i)}
           port  == NumberOf[statements_[Min(ports)].tokens[2]]
<1>1. ParserInv' /\ UNCHANGED <<statements_, parsed, next, listening, handler_factories_>>
  BY ParserFrame DEF StartupInv, SetPortNumber, parser, tree
<1>2. /\ phase = "port" /\ parsed = "true" /\ next = 1 /\ handler_factories_ = <<>>
      /\ DOMAIN statements_ = 1..Len(statements_) /\ Len(statements_) \in Nat
  BY LenProperties DEF StartupInv, PhaseInv, SetPortNumber, ParserInv, ParserTypes
<1>3. ASSUME ports # {}
      PROVE  /\ Min(ports) \in DOMAIN statements_ /\ FirstPort(Min(ports))
             /\ port \in Nat
  <2>1. ports \in SUBSET Nat
    BY <1>2
  <2>2. Min(ports) \in ports /\ \A y \in ports : Min(ports) <= y
    BY <1>3, <2>1, MinIsLeast
  <2> HIDE DEF ports
  <2>3. Min(ports) \in 1..Len(statements_) /\ IsPort(Min(ports))
    BY <1>2, <2>2 DEF ports
  <2>4. \A j \in 1..(Min(ports) - 1) : ~IsPort(j)
    <3>1. \A j \in 1..(Min(ports) - 1) : j \in DOMAIN statements_ /\ ~(Min(ports) <= j)
      BY <1>2, <2>3
    <3> QED
      BY <2>2, <3>1 DEF ports
  <2>5. port \in Nat
    BY <2>3, PortAssumption DEF IsPort
  <2> QED
    BY <1>2, <2>3, <2>4, <2>5 DEF FirstPort
<1>4. ASSUME ports = {} \/ ~(port <= MaxInt)
      PROVE  ~Acceptable
  <2> SUFFICES ASSUME NEW i \in DOMAIN statements_, FirstPort(i),
                      NumberOf[statements_[i].tokens[2]] <= MaxInt
               PROVE  FALSE
    BY DEF Acceptable
  <2>1. i \in ports
    BY DEF FirstPort
  <2>2. i = Min(ports)
    BY <1>3, <2>1, OneFirstPort DEF StartupInv, ParserInv
  <2> QED
    BY <1>4, <2>1, <2>2
<1>5. CASE /\ \/ ports = {} /\ phase' = "refused"
              \/ ~(port <= MaxInt) /\ phase' = "thrown"
           /\ port_' = port_
  <2>1. ~Acceptable'
    BY <1>1, <1>4, <1>5, TreeFrame
  <2>2. phase' \in {"refused", "thrown"}
    BY <1>5
  <2>3. PhaseInv'
    BY <1>1, <1>2, <1>5, <2>2 DEF StartupInv, PhaseInv, Serves
  <2> QED
    BY <1>1, <2>1, <2>2, <2>3 DEF StartupInv, PortInv, FactoryTypes, TableInv, Serves
<1>6. CASE ports # {} /\ port <= MaxInt /\ phase' = "paths" /\ port_' = port
  <2>1. PhaseInv'
    BY <1>1, <1>2, <1>3, <1>6 DEF StartupInv, PhaseInv, Serves
  <2>2. PICK i \in DOMAIN statements_ :
          /\ FirstPort(i) /\ NumberOf[statements_[i].tokens[2]] <= MaxInt
          /\ port_' = NumberOf[statements_[i].tokens[2]]
    BY <1>3, <1>6
  <2>3. PortInv'
    <3>1. FirstPort(i)' /\ statements_' = statements_ /\ ~Serves'
      BY <1>1, <1>6, <2>2, TreeFrame DEF Serves
    <3> QED
      BY <2>2, <3>1 DEF PortInv
  <2>5. Registered(next, handler_factories_)' /\ NoDuplicate(next)'
    <3>1. Registering(next)' = {} /\ DOMAIN handler_factories_' = {}
      BY <1>1, <1>2, TreeFrame DEF Registering
    <3> QED
      BY <3>1 DEF Registered, NoDuplicate
  <2>6. TableInv'
    BY <1>6, <2>5 DEF TableInv, Serves
  <2> QED
    BY <1>1, <2>1, <2>3, <2>6 DEF StartupInv, FactoryTypes
<1>7. SetPortNumber => \/ ports = {} /\ phase' = "refused" /\ port_' = port_
                       \/ ports # {} /\ port > MaxInt /\ phase' = "thrown" /\ port_' = port_
                       \/ ports # {} /\ port <= MaxInt /\ phase' = "paths" /\ port_' = port
  BY DEF SetPortNumber
<1> QED
  BY <1>3, <1>5, <1>6, <1>7, PortAssumption

(* One statement more. *)
LEMMA RegisteringNext ==
  ASSUME NEW n \in Nat \ {0}
  PROVE  /\ Registers(n) => Registering(n + 1) = Registering(n) \cup {n}
         /\ ~Registers(n) => Registering(n + 1) = Registering(n)
         /\ \A i \in Registering(n) : i \in Nat \ {0} /\ i < n
<1>1. 1..((n + 1) - 1) = (1..(n - 1)) \cup {n}
  OBVIOUS
<1> QED
  BY <1>1 DEF Registering

(* A location whose path is free does not repeat one. *)
LEMMA NoDuplicateNext ==
  ASSUME NEW n \in Nat \ {0}, NEW factories, Registered(n, factories), NoDuplicate(n),
         IsLocation(n) => Path(n) \notin DOMAIN factories
  PROVE  NoDuplicate(n + 1)
<1> SUFFICES ASSUME NEW i \in Registering(n + 1), NEW j \in (i + 1)..((n + 1) - 1), IsLocation(j)
             PROVE  Path(j) # RegisteredPath(i)
  BY DEF NoDuplicate
<1>1. i \in Registering(n) /\ i \in Nat \ {0} /\ j \in Nat
  BY RegisteringNext DEF Registering
<1>2. CASE j = n
  BY <1>1, <1>2 DEF Registered
<1>3. CASE j # n
  <2>1. j \in (i + 1)..(n - 1)
    BY <1>1, <1>3
  <2> QED
    BY <1>1, <2>1 DEF NoDuplicate
<1> QED
  BY <1>2, <1>3

(* The table after one more registration. *)
LEMMA RegisteredNext ==
  ASSUME NEW n \in Nat \ {0}, NEW factories, Registered(n, factories), Registers(n),
         Path(n) \notin DOMAIN factories
  PROVE  Registered(n + 1, With(factories, RegisteredPath(n),
                                [handler |-> Handler(n), statement |-> n]))
<1> DEFINE path == RegisteredPath(n)
           new  == [handler |-> Handler(n), statement |-> n]
           all  == With(factories, path, new)
<1>1. /\ DOMAIN all = DOMAIN factories \cup {path}
      /\ all[path] = new
      /\ \A p \in DOMAIN factories : p # path => all[p] = factories[p]
  BY DEF With
<1>2. /\ Registering(n + 1) = Registering(n) \cup {n}
      /\ \A i \in Registering(n) : i \in Nat \ {0} /\ i < n
  BY RegisteringNext
<1>3. DOMAIN all = {RegisteredPath(i) : i \in Registering(n + 1)}
  <2> HIDE DEF all
  <2> QED
    BY <1>1, <1>2 DEF Registered
<1>4. path \in DOMAIN factories => Handler(n) = Test
  BY DEF RegisteredPath
<1>5. ASSUME NEW p \in DOMAIN all
      PROVE  LET f == all[p]
             IN  /\ f.statement \in Registering(n + 1) /\ f.handler = Handler(f.statement)
                 /\ RegisteredPath(f.statement) = p
                 /\ \A i \in Registering(n + 1) : RegisteredPath(i) = p =>
                      f.statement >= i /\ (f.statement > i => f.handler = Test)
  <2>1. CASE p = path
    <3>1. all[p].statement = n /\ all[p].handler = Handler(n)
      BY <1>1, <2>1
    <3> HIDE DEF all
    <3>2. ASSUME NEW i \in Registering(n + 1), RegisteredPath(i) = p
          PROVE  n >= i /\ (n > i => Handler(n) = Test)
      <4>1. i = n \/ i \in Registering(n)
        BY <1>2
      <4>2. CASE i = n
        BY <4>2
      <4>3. CASE i \in Registering(n)
        <5>1. path \in DOMAIN factories
          BY <2>1, <3>2, <4>3 DEF Registered
        <5> QED
          BY <1>2, <1>4, <4>3, <5>1
      <4> QED
        BY <4>1, <4>2, <4>3
    <3> QED
      BY <1>2, <2>1, <3>1, <3>2
  <2>2. CASE p # path
    <3>1. p \in DOMAIN factories /\ all[p] = factories[p]
      BY <1>1, <2>2
    <3> HIDE DEF all
    <3>2. \A i \in Registering(n + 1) : RegisteredPath(i) = p => i \in Registering(n)
      BY <1>2, <2>2
    <3> QED
      BY <1>2, <3>1, <3>2 DEF Registered
  <2> QED
    BY <2>1, <2>2
<1> QED
  BY <1>3, <1>5 DEF Registered

(* A statement that registers a factory has a path and a handler. *)
LEMMA RegistersTypes ==
  ASSUME ParserTypes, NEW i \in DOMAIN statements_, Registers(i)
  PROVE  /\ Path(i) \in Text /\ RegisteredPath(i) \in URI
         /\ Handler(i) \in Factory \cup {Test}
<1>1. statements_[i].tokens \in Seq(Text) /\ Len(statements_[i].tokens) >= 3
  <2>1. statements_[i] \in Node
    BY ElementOfSeq, LenProperties DEF ParserTypes
  <2> QED
    BY <2>1 DEF Node, Registers, IsLocation, IsA
<1>2. Path(i) \in Text
  <2>1. 2 \in 1..Len(statements_[i].tokens)
    BY <1>1, LenProperties
  <2> QED
    BY <1>1, <2>1, ElementOfSeq DEF Path
<1>3. Path(i) \in URI
  BY <1>2, SeqMonotonic DEF Text, URI
<1>4. Path(i) \o <<Slash, "sleep">> \in URI
  <2>1. <<Slash, "sleep">> \in URI
    BY DEF URI
  <2> QED
    BY <1>3, <2>1, ConcatProperties DEF URI
<1> QED
  BY <1>2, <1>3, <1>4 DEF Registers, RegisteredPath

(* A location is refused, passed over, or registered. *)
LEMMA SetPathInv ==
  ASSUME StartupInv, SetPath
  PROVE  StartupInv'
<1>1. ParserInv' /\ UNCHANGED <<statements_, parsed, port_, listening>>
  BY ParserFrame DEF StartupInv, SetPath, parser, tree
<1>2. /\ phase = "paths" /\ parsed = "true" /\ next \in DOMAIN statements_
      /\ next \in Nat \ {0} /\ next + 1 \in 1..(Len(statements_) + 1)
      /\ Registered(next, handler_factories_) /\ NoDuplicate(next)
      /\ DOMAIN statements_ = 1..Len(statements_) /\ Len(statements_) \in Nat
  BY LenProperties DEF StartupInv, PhaseInv, SetPath, TableInv, ParserInv, ParserTypes
<1>3. CASE IsDuplicate(next) /\ phase' = "refused" /\ UNCHANGED <<next, handler_factories_>>
  <2>1. ~Acceptable
    <3>1. PICK i \in Registering(next) : RegisteredPath(i) = Path(next)
      BY <1>2, <1>3 DEF IsDuplicate, Registered
    <3>2. i \in DOMAIN statements_ /\ Registers(i) /\ next \in (i + 1)..Len(statements_)
      BY <1>2, <3>1 DEF Registering
    <3> QED
      BY <1>3, <3>1, <3>2 DEF IsDuplicate, Acceptable
  <2>2. ~Acceptable'
    BY <1>1, <2>1, TreeFrame
  <2>3. PhaseInv'
    BY <1>1, <1>2, <1>3 DEF StartupInv, PhaseInv, Serves
  <2> QED
    BY <1>1, <1>3, <2>2, <2>3 DEF StartupInv, PortInv, FactoryTypes, TableInv, Serves
<1>4. ASSUME ~IsDuplicate(next), next' = next + 1, phase' = phase,
             Registered(next + 1, handler_factories_'), FactoryTypes'
      PROVE  StartupInv'
  <2>1. PhaseInv'
    BY <1>1, <1>2, <1>4 DEF StartupInv, PhaseInv, Serves
  <2>2. PortInv'
    <3>1. PICK i \in DOMAIN statements_ :
            /\ FirstPort(i) /\ NumberOf[statements_[i].tokens[2]] <= MaxInt
            /\ port_ = NumberOf[statements_[i].tokens[2]]
      BY <1>2 DEF StartupInv, PortInv
    <3>2. FirstPort(i)' /\ ~Serves'
      BY <1>1, <1>2, <1>4, <3>1, TreeFrame DEF Serves
    <3> QED
      BY <1>1, <3>1, <3>2 DEF PortInv
  <2>3. NoDuplicate(next + 1)
    BY <1>2, <1>4, NoDuplicateNext DEF IsDuplicate
  <2>4. \A n : Registering(n)' = Registering(n) /\ (NoDuplicate(n)' <=> NoDuplicate(n))
    BY <1>1, TreeFrame DEF Registering, NoDuplicate
  <2>5. Registered(next, handler_factories_)' /\ NoDuplicate(next)'
    BY <1>1, <1>4, <2>3, <2>4, TreeFrame DEF Registered, NoDuplicate
  <2>6. TableInv'
    BY <1>2, <1>4, <2>5 DEF TableInv, Serves
  <2> QED
    BY <1>1, <1>4, <2>1, <2>2, <2>6 DEF StartupInv
<1>5. CASE ~IsDuplicate(next) /\ ~Registers(next) /\ next' = next + 1
           /\ UNCHANGED <<phase, handler_factories_>>
  <2>1. Registered(next + 1, handler_factories_')
    BY <1>2, <1>5, RegisteringNext DEF Registered
  <2>2. FactoryTypes'
    BY <1>2, <1>5 DEF StartupInv, FactoryTypes
  <2> QED
    BY <1>4, <1>5, <2>1, <2>2
<1>6. CASE /\ ~IsDuplicate(next) /\ Registers(next) /\ next' = next + 1 /\ phase' = phase
           /\ handler_factories_' = With(handler_factories_, RegisteredPath(next),
                                         [handler |-> Handler(next), statement |-> next])
  <2>1. Registered(next + 1, handler_factories_')
    <3>1. Path(next) \notin DOMAIN handler_factories_
      BY <1>6 DEF IsDuplicate, Registers
    <3> QED
      BY <1>2, <1>6, <3>1, RegisteredNext
  <2>2. FactoryTypes'
    <3>1. RegisteredPath(next) \in URI /\ Handler(next) \in Factory \cup {Test}
      BY <1>2, <1>6, RegistersTypes DEF StartupInv, ParserInv
    <3>2. ASSUME NEW p \in DOMAIN handler_factories_'
          PROVE  /\ p \in URI
                 /\ handler_factories_'[p].handler \in Factory \cup {Test, NotFound}
                 /\ handler_factories_'[p].statement \in 0..next
      <4>1. CASE p = RegisteredPath(next)
        <5>1. handler_factories_'[p] = [handler |-> Handler(next), statement |-> next]
          BY <1>6, <4>1 DEF With
        <5> QED
          BY <1>2, <3>1, <4>1, <5>1
      <4>2. CASE p # RegisteredPath(next)
        <5>1. p \in DOMAIN handler_factories_ /\ handler_factories_'[p] = handler_factories_[p]
          BY <1>6, <4>2 DEF With
        <5> QED
          BY <1>2, <5>1 DEF StartupInv, FactoryTypes
      <4> QED
        BY <4>1, <4>2
    <3>3. next' - 1 = next
      BY <1>2, <1>6
    <3> QED
      BY <3>2, <3>3 DEF FactoryTypes
  <2> QED
    BY <1>4, <1>6, <2>1, <2>2
<1> QED
  BY <1>3, <1>5, <1>6 DEF SetPath

(* The end of SetPaths: a path that is no URI, or the server starts. *)
LEMMA ValidatePathsInv ==
  ASSUME StartupInv, ValidatePaths
  PROVE  StartupInv'
<1> DEFINE notFound == [handler |-> NotFound, statement |-> 0]
<1>1. ParserInv' /\ UNCHANGED <<statements_, parsed, port_, next>>
  BY ParserFrame DEF StartupInv, ValidatePaths, parser, tree
<1>2. /\ phase = "paths" /\ parsed = "true"
      /\ Len(statements_) \in Nat /\ next = Len(statements_) + 1
      /\ Registered(next, handler_factories_) /\ NoDuplicate(next)
      /\ DOMAIN statements_ = 1..Len(statements_)
  BY LenProperties DEF StartupInv, PhaseInv, ValidatePaths, TableInv, ParserInv, ParserTypes
<1>3. /\ handler_factories_' = With(handler_factories_, Root, notFound)
      /\ DOMAIN handler_factories_' = DOMAIN handler_factories_ \cup {Root}
      /\ handler_factories_'[Root] = notFound
      /\ \A p \in DOMAIN handler_factories_ : p # Root => handler_factories_'[p] = handler_factories_[p]
  BY DEF ValidatePaths, With
<1>4. FactoryTypes'
  <2>1. Root \in URI
    BY DEF Root, URI
  <2>2. 0 \in 0..(next' - 1)
    BY <1>1, <1>2
  <2>3. \A p \in DOMAIN handler_factories_' :
          p = Root \/ (p \in DOMAIN handler_factories_ /\ handler_factories_'[p] = handler_factories_[p])
    BY <1>3
  <2> QED
    BY <1>1, <1>3, <2>1, <2>2, <2>3 DEF StartupInv, FactoryTypes
<1>5. \A i \in DOMAIN statements_ : Registers(i) => RegisteredPath(i) \in DOMAIN handler_factories_
  <2>1. \A i \in DOMAIN statements_ : Registers(i) => i \in Registering(next)
    BY <1>2 DEF Registering
  <2> QED
    BY <1>2, <2>1 DEF Registered
<1>6. CASE /\ \E p \in DOMAIN handler_factories_ : ~IsValidURI(p)
           /\ phase' = "refused" /\ UNCHANGED listening
  <2>1. PICK i \in Registering(next) : ~IsValidURI(RegisteredPath(i))
    BY <1>2, <1>6 DEF Registered
  <2>2. i \in DOMAIN statements_ /\ Registers(i)
    BY <1>2 DEF Registering
  <2>3. ~Acceptable
    BY <2>1, <2>2 DEF Acceptable, IsValidURI
  <2>4. ~Acceptable'
    BY <1>1, <2>3, TreeFrame
  <2>5. PhaseInv'
    BY <1>1, <1>2, <1>6 DEF StartupInv, PhaseInv, Serves
  <2> QED
    BY <1>1, <1>4, <1>6, <2>4, <2>5 DEF StartupInv, PortInv, TableInv, Serves
<1>7. CASE /\ \A p \in DOMAIN handler_factories_ : IsValidURI(p)
           /\ phase' = "serving" /\ listening' = ListenPort
  <2>1. PICK i \in DOMAIN statements_ :
          /\ FirstPort(i) /\ NumberOf[statements_[i].tokens[2]] <= MaxInt
          /\ port_ = NumberOf[statements_[i].tokens[2]]
    BY <1>2 DEF StartupInv, PortInv
  <2>2. Acceptable
    <3>1. ASSUME NEW j \in DOMAIN statements_, Registers(j)
          PROVE  /\ IsValidURI(RegisteredPath(j))
                 /\ \A k \in (j + 1)..Len(statements_) : IsLocation(k) => Path(k) # RegisteredPath(j)
      <4>1. j \in Registering(next) /\ next - 1 = Len(statements_)
        BY <1>2, <3>1 DEF Registering
      <4> QED
        BY <1>2, <1>5, <1>7, <3>1, <4>1 DEF NoDuplicate
    <3> QED
      BY <2>1, <3>1 DEF Acceptable, IsValidURI
  <2>3. PhaseInv'
    <3>1. port_ \in Nat
      BY DEF StartupInv, PhaseInv
    <3>2. port_ % ShortRange \in 0..(ShortRange - 1)
      BY <3>1, ShortOf
    <3> QED
      BY <1>1, <1>2, <1>7, <3>1, <3>2 DEF ListenPort, StartupInv, PhaseInv, Serves
  <2>4. PortInv'
    <3>1. FirstPort(i)'
      BY <1>1, <2>1, TreeFrame
    <3> QED
      BY <1>1, <1>7, <2>1, <3>1 DEF PortInv, ListenPort, Serves
  <2>5. /\ DOMAIN Named' = DOMAIN handler_factories_
        /\ \A p \in DOMAIN handler_factories_ : Named'[p] = handler_factories_[p]
    <3>1. Len(Root) = 1
      BY DEF Root
    <3>2. Root \notin DOMAIN handler_factories_
      <4>1. ~IsValidURI(Root)
        BY <3>1 DEF IsValidURI
      <4> QED
        BY <1>7, <4>1
    <3>3. DOMAIN handler_factories_' \ {Root} = DOMAIN handler_factories_
      BY <1>3, <3>2
    <3>4. Named' = [p \in DOMAIN handler_factories_ |-> handler_factories_'[p]]
      BY <3>3 DEF Named
    <3>5. \A p \in DOMAIN handler_factories_ : handler_factories_'[p] = handler_factories_[p]
      BY <1>3, <3>2
    <3> QED
      BY <3>4, <3>5
  <2>6. \A n : Registering(n)' = Registering(n)
    BY <1>1, TreeFrame DEF Registering
  <2>7. Registered(Len(statements_) + 1, Named)'
    BY <1>1, <1>2, <2>5, <2>6, TreeFrame DEF Registered
  <2>8. Acceptable'
    BY <1>1, <2>2, TreeFrame
  <2>9. TableInv'
    BY <1>3, <1>7, <2>7, <2>8 DEF TableInv, Serves
  <2> QED
    BY <1>1, <1>4, <2>3, <2>4, <2>9 DEF StartupInv
<1> QED
  BY <1>6, <1>7 DEF ValidatePaths

(* Every step of the start keeps the invariant. *)
LEMMA StartupNextInv ==
  ASSUME StartupInv, Startup
  PROVE  StartupInv'
BY ParseConfigInv, ParsedInv, SetPortNumberInv, SetPathInv, ValidatePathsInv DEF Startup

(* A step that is not one of the start happens while the process serves    *)
(* and leaves all of the start alone, except for an exception.             *)
LEMMA HandlersLeaveStartup ==
  ASSUME [Next]_vars
  PROVE  \/ Startup /\ UNCHANGED <<request, handler>>
         \/ /\ UNCHANGED StartupRest
            /\ phase' = phase \/ (phase = "serving" /\ phase' = "down")
<1> DEFINE Left == /\ UNCHANGED StartupRest
                   /\ phase' = phase \/ (phase = "serving" /\ phase' = "down")
<1>1. CASE UNCHANGED vars
  BY <1>1 DEF vars, startup, StartupRest
<1>2. CASE Work
  <2>1. CASE Route /\ UNCHANGED handler
    BY <2>1 DEF Route, MatchLevel, StripLevel, NoMatch, startup, StartupRest
  <2>2. CASE Handle
    <3>1. CASE Respond
      BY <3>1 DEF Respond, EchoResponse, HealthResponse, SleepResponse, ChannelsResponse,
                  NotFoundResponse, FixedResponse, startup, StartupRest
    <3>2. CASE CreateCrudHandler \/ Climb \/ RootFound
      BY <2>2, <3>2 DEF Handle, CreateCrudHandler, Throw, Climb, RootFound, StaticRest,
                        startup, StartupRest
    <3>3. CASE CreateStaticHandler \/ Return
      BY <3>3 DEF CreateStaticHandler, Return, startup, StartupRest
    <3>4. CASE Static
      BY <2>2, <3>4 DEF Handle, Static, CheckFile, CheckSize, OpenStream, ReadChunk, Throw,
                        StaticRest, StartupRest
    <3> QED
      BY <2>2, <3>1, <3>2, <3>3, <3>4 DEF Handle
  <2> QED
    BY <1>2, <2>1, <2>2 DEF Work
<1>3. CASE ChangeFile
  BY <1>3 DEF ChangeFile, startup, StartupRest
<1>4. ASSUME NEW uri \in Targets, Refuse(uri) \/ RouteRequest(uri)
      PROVE  Left
  BY <1>4 DEF Refuse, RouteRequest, startup, StartupRest
<1> QED
  BY <1>1, <1>2, <1>3, <1>4 DEF Next

(* The invariant of the start holds in every reachable state. *)
THEOREM StartupInvariant == Spec => []StartupInv
<1>1. Init => StartupInv
  BY StartupInitInv DEF Init
<1>2. StartupInv /\ [Next]_vars => StartupInv'
  BY HandlersLeaveStartup, StartupNextInv, StartupFrame
<1> QED
  BY <1>1, <1>2, PTL DEF Spec

(* StackIsPath: the stack of Parse is the way to the block being read, and *)
(* its length the balance of the brackets, in every file.                  *)
THEOREM StackCorrect == Spec => []StackIsPath
<1>1. StartupInv => StackIsPath
  BY DEF StartupInv, ParserInv
<1> QED
  BY <1>1, StartupInvariant, PTL

(* Nothing but Parse touches the parser. *)
LEMMA ParserMoves ==
  ASSUME [Next]_vars
  PROVE  Parse \/ UNCHANGED parser
<1>1. UNCHANGED StartupRest => UNCHANGED parser
  BY DEF StartupRest
<1>2. Startup => Parse \/ UNCHANGED parser
  BY DEF Startup, ParseConfig, Parsed, SetPortNumber, SetPath, ValidatePaths
<1> QED
  BY <1>1, <1>2, HandlersLeaveStartup

(* The part of the file that has been read is what the state of Parse says *)
(* it is, in every reachable state.                                        *)
THEOREM ReadInvariant == Spec => [](StartupInv /\ ReadInv)
<1>1. Init => StartupInv /\ ReadInv
  <2>1. Init => StartupInv
    BY StartupInitInv DEF Init
  <2>2. Init => ParserInit
    BY DEF Init, StartupInit
  <2> QED
    BY <2>1, <2>2, ReadInitInv DEF StartupInv, ParserInv
<1>2. StartupInv /\ ReadInv /\ [Next]_vars => (StartupInv /\ ReadInv)'
  <2> SUFFICES ASSUME StartupInv, ReadInv, [Next]_vars PROVE StartupInv' /\ ReadInv'
    OBVIOUS
  <2>1. StartupInv'
    BY HandlersLeaveStartup, StartupNextInv, StartupFrame
  <2>2. Parse \/ UNCHANGED parser
    BY ParserMoves
  <2>3. ReadInv'
    BY <2>2, ReadNextInv DEF StartupInv
  <2> QED
    BY <2>1, <2>3
<1> QED
  BY <1>1, <1>2, PTL DEF Spec

(* TrueIffValid: Parse returns true for exactly the files that are valid   *)
(* and have spaces between their words, whatever their length, and its     *)
(* behaviour is undefined only for files that are not valid.               *)
THEOREM ParseCorrect == Spec => TrueIffValid
<1> DEFINE valid == Valid(Complete(config_file))
           A == parsed' # parsed =>
                  /\ parsed' = "true" <=> valid /\ SpacesBetweenWords(Complete(config_file))
                  /\ parsed' = "undefined" => ~valid
<1>1. StartupInv /\ ReadInv /\ [Next]_vars => [A]_parser
  <2> SUFFICES ASSUME StartupInv, ReadInv, [Next]_vars, parsed' # parsed PROVE A
    OBVIOUS
  <2>1. Parse
    BY ParserMoves DEF parser
  <2>2. EndParse
    BY <2>1 DEF Parse, SkipComment, Word, StatementEnd, StartBlock, EndBlock, Accept
  <2> QED
    BY <2>2, EndParseResult DEF StartupInv
<1>2. TrueIffValid <=> [][A]_parser
  BY DEF TrueIffValid
<1> HIDE DEF A
<1> QED
  BY <1>1, <1>2, ReadInvariant, PTL DEF Spec

(* StartsIfAcceptable: SetPortNumber, SetPaths and ValidatePaths let main  *)
(* serve exactly the configurations that are acceptable, whatever they     *)
(* consist of, on the first port they name.                                *)
THEOREM StartCorrect == Spec => []StartsIfAcceptable
<1>1. ASSUME StartupInv PROVE StartsIfAcceptable
  <2>1. ASSUME phase = "serving"
        PROVE  \E i \in DOMAIN statements_ :
                 FirstPort(i) /\ (NumberOf[statements_[i].tokens[2]] - listening) % ShortRange = 0
    <3>1. PICK i \in DOMAIN statements_ :
            FirstPort(i) /\ port_ = NumberOf[statements_[i].tokens[2]]
      BY <1>1, <2>1 DEF StartupInv, PortInv, Serves
    <3>2. port_ \in Nat /\ listening = port_ % ShortRange
      BY <1>1, <2>1 DEF StartupInv, PhaseInv, PortInv, Serves
    <3>3. (port_ - listening) % ShortRange = 0
      BY <3>2 DEF ShortRange
    <3> QED
      BY <3>1, <3>3
  <2> QED
    BY <1>1, <2>1 DEF StartsIfAcceptable, StartupInv, PhaseInv, TableInv, Serves
<1> QED
  BY <1>1, StartupInvariant, PTL

(* LocationsServed: SetPaths passes over no location but those without a   *)
(* block or a handler, replaces one only by a TestHandler, and makes no    *)
(* factory that no location asks for.                                      *)
THEOREM TableCorrect == Spec => []LocationsServed
<1> DEFINE n == Len(statements_) + 1
<1>1. ASSUME StartupInv, phase = "serving"
      PROVE  /\ Registered(n, Named) /\ n \in Nat \ {0} /\ DOMAIN statements_ = 1..(n - 1)
             /\ DOMAIN Named = DOMAIN handler_factories_ \ {Root}
             /\ \A p \in DOMAIN Named : handler_factories_[p] = Named[p]
             /\ handler_factories_[Root].handler = NotFound
  BY <1>1, LenProperties DEF StartupInv, TableInv, Serves, ParserInv, ParserTypes, Named
<1>2. ASSUME NEW i PROVE Registers(i) <=> IsLocation(i) /\ ~PassedOver(i)
  BY DEF Registers, PassedOver
<1>3. ASSUME StartupInv, phase = "serving", NEW i \in DOMAIN statements_, IsLocation(i), ~PassedOver(i)
      PROVE  RegisteredPath(i) \in DOMAIN handler_factories_ /\ Stands(i)
  <2> DEFINE p == RegisteredPath(i)
  <2>1. i \in Registering(n) /\ i \in Nat
    BY <1>1, <1>2, <1>3 DEF Registering
  <2>2. p \in DOMAIN Named
    BY <1>1, <1>3, <2>1 DEF Registered
  <2>3. p \in DOMAIN handler_factories_ /\ handler_factories_[p] = Named[p]
    BY <1>1, <1>3, <2>2
  <2> HIDE DEF n, p
  <2>4. LET f == Named[p]
        IN  /\ f.statement \in Registering(n)
            /\ f.statement >= i /\ (f.statement > i => f.handler = Test)
    BY <1>1, <1>3, <2>1, <2>2 DEF Registered, p
  <2>5. Named[p].statement \in Nat
    BY <1>1, <1>3, <2>4, RegisteringNext
  <2> QED
    BY <2>1, <2>3, <2>4, <2>5 DEF Stands, p
<1>4. ASSUME StartupInv, phase = "serving", NEW p \in DOMAIN handler_factories_ \ {Root}
      PROVE  LET f == handler_factories_[p]
             IN  /\ f.statement \in DOMAIN statements_ /\ IsLocation(f.statement)
                 /\ ~PassedOver(f.statement)
                 /\ RegisteredPath(f.statement) = p /\ Handler(f.statement) = f.handler
  <2>1. p \in DOMAIN Named /\ handler_factories_[p] = Named[p] /\ Registered(n, Named)
    BY <1>1, <1>4
  <2>2. LET f == Named[p]
        IN  /\ f.statement \in Registering(n) /\ f.handler = Handler(f.statement)
            /\ RegisteredPath(f.statement) = p
    BY <2>1 DEF Registered
  <2>3. Named[p].statement \in DOMAIN statements_ /\ Registers(Named[p].statement)
    BY <1>1, <1>4, <2>2 DEF Registering
  <2> QED
    BY <1>2, <2>1, <2>2, <2>3
<1>5. StartupInv => LocationsServed
  BY <1>1, <1>3, <1>4 DEF LocationsServed
<1> QED
  BY <1>5, StartupInvariant, PTL
=============================================================================
