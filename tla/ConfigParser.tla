---------------------------- MODULE ConfigParser ------------------------------
(***************************************************************************)
(* NginxConfigParser: a file becomes a tree of statements and blocks.      *)
(*                                                                         *)
(* A file is a sequence of lexemes.  The blanks between tokens are kept,   *)
(* because Parse distinguishes the space from the other blanks.  The tree  *)
(* is the sequence of its statements in the order they are created, each   *)
(* with the statement whose block it stands in; 0 is the outermost config. *)
(***************************************************************************)
EXTENDS Integers, Sequences, FiniteSets, SequencesExt

CONSTANTS
  Files   \* the configuration files: sequences of lexemes

ASSUME FilesAssumption ==
  Files \subseteq Seq([type : {"Normal", "QuotedString", "Space", "Break", "Comment", "StartBlock",
                              "EndBlock", "StatementEnd", "Error"},
                       text : Seq(STRING)])

Lexeme(type, text) == [type |-> type, text |-> text]

Backslash == "\\"   \* before a backslash or the quote, inside quotes

Normal(word) == Lexeme("Normal", word)
Quoted(word) == Lexeme("QuotedString", word)   \* as written, with its quotes
Space        == Lexeme("Space", <<>>)
Break        == Lexeme("Break", <<>>)      \* a tab or the end of a line
Comment      == Lexeme("Comment", <<>>)
Open         == Lexeme("StartBlock", <<"{">>)
Close        == Lexeme("EndBlock", <<"}">>)
Semicolon    == Lexeme("StatementEnd", <<";">>)
Unclosed     == Lexeme("Error", <<>>)      \* a quote without end or with a bad escape

Words  == {"Normal", "QuotedString"}
Blanks == {"Space", "Break"}

VARIABLES
  config_file,      \* the file
  position,         \* the next lexeme of it
  statements_,      \* the tree
  config_stack,     \* the blocks that are open, by the statement they belong to
  last_token_type,
  bracket_balance,
  parsed            \* "no" while Parse runs, "true", "false", "undefined" (see Undefined)

tree   == <<statements_, config_stack, bracket_balance>>
parser == <<config_file, position, tree, last_token_type, parsed>>

ParserInit ==
  /\ config_file \in Files
  /\ position = 1
  /\ statements_ = <<>> /\ config_stack = <<0>> /\ bracket_balance = 0
  /\ last_token_type = "Start"
  /\ parsed = "no"

-----------------------------------------------------------------------------
(***************************************************************************)
(* ParseToken skips blanks and returns one token.  A word that the end of  *)
(* the file follows at once is not returned.                               *)
(***************************************************************************)
Pending  == {i \in position .. Len(config_file) : config_file[i].type \notin Blanks}
AtToken  == CHOOSE i \in Pending : \A j \in Pending : i <= j
AtEOF    == Pending = {} \/ (AtToken = Len(config_file) /\ config_file[AtToken].type = "Normal")

(* A backslash goes, unless it is escaped itself. *)
ProcessEsc(token) ==
  LET escaped[i \in DOMAIN token] == i > 1 /\ token[i - 1] = Backslash /\ ~escaped[i - 1]
      kept   == {i \in DOMAIN token : token[i] = Backslash => escaped[i]}
      Nth(k) == CHOOSE i \in kept : Cardinality({j \in kept : j <= i}) = k
  IN  [k \in 1 .. Cardinality(kept) |-> token[Nth(k)]]

Token ==
  LET lexeme == config_file[AtToken]
  IN  IF AtEOF THEN Lexeme("EOF", <<>>)
      ELSE IF lexeme.type = "QuotedString" THEN Quoted(ProcessEsc(lexeme.text)) ELSE lexeme

seenWhitespace == \E i \in position .. AtToken - 1 : config_file[i].type = "Space"

Read(type) ==
  /\ parsed = "no" /\ Token.type = type
  /\ position' = AtToken + 1
  /\ UNCHANGED config_file

SkipComment ==
  /\ Read("Comment")
  /\ UNCHANGED <<tree, last_token_type, parsed>>

(* A mutant: the balance of the brackets is not looked at. *)
LegalEndUnbalanced == last_token_type \notin Words

LegalEnd == last_token_type \notin Words /\ bracket_balance = 0

(* Whether the token may follow the one before it. *)
Legal ==
  CASE Token.type \in Words            -> last_token_type \in Words => seenWhitespace
    [] Token.type \in {"StatementEnd", "StartBlock"} -> last_token_type \in Words
    [] Token.type = "EndBlock"         -> last_token_type \notin Words \cup {"Start"}
    [] Token.type = "EOF"              -> LegalEnd
    [] OTHER                           -> FALSE

(* The last closing brace has taken the outermost config off the stack:    *)
(* top() and pop() of an empty stack are undefined.                        *)
Undefined == config_stack = <<>> /\ Token.type \in Words \cup {"EndBlock"}

Accept(type) ==
  /\ Read(type) /\ Legal /\ ~Undefined
  /\ last_token_type' = type
  /\ UNCHANGED parsed

(* Mutants: a word after a quoted one begins a statement; the block that    *)
(* ends stays on the stack.                                                *)
WordAfterQuote ==
  /\ \E type \in Words : Accept(type)
  /\ statements_' =
       IF last_token_type = "Normal"
       THEN [statements_ EXCEPT ![Len(statements_)].tokens = Append(@, Token.text)]
       ELSE Append(statements_, [tokens |-> <<Token.text>>, within |-> Last(config_stack),
                                 block |-> FALSE])
  /\ UNCHANGED <<config_stack, bracket_balance>>

KeepBlock ==
  /\ Accept("EndBlock")
  /\ bracket_balance' = bracket_balance - 1
  /\ UNCHANGED <<statements_, config_stack>>

Word ==
  /\ \E type \in Words : Accept(type)
  /\ statements_' =
       IF last_token_type \in Words
       THEN [statements_ EXCEPT ![Len(statements_)].tokens = Append(@, Token.text)]
       ELSE Append(statements_, [tokens |-> <<Token.text>>, within |-> Last(config_stack),
                                 block |-> FALSE])
  /\ UNCHANGED <<config_stack, bracket_balance>>

StatementEnd == Accept("StatementEnd") /\ UNCHANGED tree

StartBlock ==
  /\ Accept("StartBlock")
  /\ statements_' = [statements_ EXCEPT ![Len(statements_)].block = TRUE]
  /\ config_stack' = Append(config_stack, Len(statements_))
  /\ bracket_balance' = bracket_balance + 1

EndBlock ==
  /\ Accept("EndBlock")
  /\ config_stack' = Front(config_stack)
  /\ bracket_balance' = bracket_balance - 1
  /\ UNCHANGED statements_

(* The end of the file, a token that may not follow, or undefined behaviour. *)
EndParse ==
  /\ parsed = "no" /\ Token.type # "Comment"
  /\ \/ ~Legal /\ parsed' = "false"
     \/ Legal /\ Undefined /\ parsed' = "undefined"
     \/ Legal /\ Token.type = "EOF" /\ parsed' = "true"
  /\ UNCHANGED <<config_file, position, tree, last_token_type>>

Parse == SkipComment \/ Word \/ StatementEnd \/ StartBlock \/ EndBlock \/ EndParse

(***************************************************************************)
(* NginxConfig::ToString and NginxConfigStatement::ToString, without their *)
(* layout: the tokens of the tree.                                         *)
(***************************************************************************)
InBlock(ss, b) == SelectSeq([i \in DOMAIN ss |-> i], LAMBDA i : ss[i].within = b)

Serialized(ss) ==
  LET text[b \in 0 .. Len(ss)] ==
        LET inner == InBlock(ss, b)
        IN  FlattenSeq([k \in DOMAIN inner |->
              ss[inner[k]].tokens
                \o (IF ss[inner[k]].block THEN <<Open.text>> \o text[inner[k]] \o <<Close.text>>
                    ELSE <<Semicolon.text>>)])
  IN  text[0]

-----------------------------------------------------------------------------
ParserTypeOK ==
  /\ config_file \in Files /\ position \in 1 .. Len(config_file) + 1
  /\ \A i \in DOMAIN statements_ :
       /\ statements_[i].tokens # <<>> /\ statements_[i].block \in BOOLEAN
       /\ statements_[i].within \in 0 .. i - 1
  /\ config_stack \in Seq(0 .. Len(statements_)) /\ bracket_balance \in Int
  /\ last_token_type \in Words \cup {"Start", "StartBlock", "EndBlock", "StatementEnd"}
  /\ parsed \in {"no", "true", "false", "undefined"}

(* config_stack is the way from the outermost config to the block being    *)
(* read, as long as it is not empty, and bracket_balance is its depth: so  *)
(* back() in Parse finds the statement of the last word, and a block ends  *)
(* up in the statement that opened it.                                     *)
StackIsPath ==
  /\ Len(config_stack) = bracket_balance + 1
  /\ config_stack # <<>> => config_stack[1] = 0
  /\ \A i \in 2 .. Len(config_stack) :
       LET s == statements_[config_stack[i]]
       IN  s.block /\ s.within = config_stack[i - 1]
  /\ last_token_type \in Words =>
       config_stack # <<>> /\ Last(statements_).within = Last(config_stack)

IsToken(lexeme) == lexeme.type \notin Blanks \cup {"Comment"}
Texts(file) == [i \in DOMAIN SelectSeq(file, IsToken) |-> SelectSeq(file, IsToken)[i].text]

(* A last word that the end of the file follows at once is lost. *)
Complete(file) == IF file # <<>> /\ Last(file).type = "Normal" THEN Front(file) ELSE file

(* A word as it is to be written. *)
Escaped(word) ==
  FlattenSeq([i \in DOMAIN word |->
    IF 1 < i /\ i < Len(word) /\ word[i] \in {Backslash, word[1]}
    THEN <<Backslash, word[i]>> ELSE <<word[i]>>])

Written(words) ==
  [k \in DOMAIN words |-> IF words[k][1] \in {"'", "\""} THEN Escaped(words[k]) ELSE words[k]]

(* Nothing is lost and nothing misplaced: when Parse returns true, the     *)
(* text of the tree is that of the file (Parse and ToString), except that  *)
(* ToString does not write the escapes back.                               *)
RoundTrip ==
  [][parsed' # parsed /\ parsed' = "true" =>
       Written(Serialized(statements_)) = Texts(Complete(config_file))]_parser

(* The last token before the i-th lexeme is a word. *)
AfterWord(file, i) ==
  \E j \in 1 .. i - 1 :
    file[j].type \in Words /\ \A k \in j + 1 .. i - 1 : ~IsToken(file[k])

(* The blocks that are open after k lexemes. *)
Depth(file, k) ==
  Cardinality({i \in 1 .. k : file[i].type = "StartBlock"})
    - Cardinality({i \in 1 .. k : file[i].type = "EndBlock"})

(* A file is a block; in a block, every statement is a word, more words,   *)
(* and a semicolon or a block.  Two words are two only if a blank is       *)
(* between them.                                                           *)
Valid(file) ==
  /\ \A i \in DOMAIN file :
       /\ file[i].type # "Error" /\ Depth(file, i) >= 0
       /\ file[i].type \in {"StatementEnd", "StartBlock"} => AfterWord(file, i)
       /\ file[i].type = "EndBlock" => ~AfterWord(file, i)
  /\ Depth(file, Len(file)) = 0 /\ ~AfterWord(file, Len(file) + 1)
  /\ \A i \in 1 .. Len(file) - 1 : ~(file[i].type \in Words /\ file[i + 1].type \in Words)

(* Only a space sets seenWhitespace, although the comment at line 200 says *)
(* any whitespace does, and only one since the last token or comment.      *)
SpacesBetweenWords(file) ==
  \A i, j \in DOMAIN file :
    /\ i < j /\ file[i].type \in Words /\ file[j].type \in Words
    /\ \A k \in i + 1 .. j - 1 : ~IsToken(file[k])
    => \E k \in i + 1 .. j - 1 :
         file[k].type = "Space" /\ \A l \in k .. j - 1 : file[l].type # "Comment"

(* Parse "returns true iff the input config file is valid"                 *)
(* (config_parser.h:33-35), with two exceptions: it drops a last word, and *)
(* it wants a space between two words.  It runs into undefined behaviour   *)
(* only on a file that is not valid.                                       *)
TrueIffValid ==
  [][parsed' # parsed =>
       LET valid == Valid(Complete(config_file))
       IN  /\ parsed' = "true" <=> valid /\ SpacesBetweenWords(Complete(config_file))
           /\ parsed' = "undefined" => ~valid]_parser
=============================================================================
