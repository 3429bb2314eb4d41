-------------------------------- MODULE KvConf --------------------------------
(***************************************************************************)
(* The kv-conf parser: kv_conf_process_append() reads a line, kv_process() *)
(* takes it apart in blocks that end in a special character, and keeps it  *)
(* in the buffer when it ends inside quotes, so that the next line is      *)
(* appended and all of it processed again.                                 *)
(*                                                                         *)
(* Meaning, below, is what the syntax says of a file, one character after  *)
(* the other and without blocks, buffer or second passes.  Texts are       *)
(* sequences of characters; sp stands for space and tab, nl for newline,   *)
(* bs, dq, sq and bq for the backslash and the three quotes.               *)
(***************************************************************************)
EXTENDS Naturals, SequencesExt

CONSTANTS
  Texts,           \* files
  CONF_LINE_MAX    \* longest line

VARIABLES
  text,            \* the file
  rest,            \* what has not been read yet
  buffer,
  map,             \* key -> value
  pc               \* "read", "process", "done" or "error"

vars == <<text, rest, buffer, map, pc>>

Special == {"bs", "dq", "sq", "sp", "$"}
BadInKey == Special \union {"/", "#", ".", "bq"}

Init ==
  /\ text \in Texts /\ rest = text
  /\ buffer = <<>> /\ map = <<>> /\ pc = "read"

-----------------------------------------------------------------------------
(* split_inclusive(), trim_start() and trim_end().                         *)
Blocks(s, ends) ==
  FoldLeft(LAMBDA bs, c : IF bs = <<>> \/ Last(Last(bs)) \in ends
                          THEN Append(bs, <<c>>)
                          ELSE [bs EXCEPT ![Len(bs)] = Append(@, c)], <<>>, s)

White == {"sp", "nl"}
trim_start(s) ==
  LET keep == {i \in DOMAIN s : s[i] \notin White}
  IN  IF keep = {} THEN <<>>
      ELSE SubSeq(s, CHOOSE i \in keep : \A j \in keep : i <= j, Len(s))
trim_end(s) ==
  LET keep == {i \in DOMAIN s : s[i] \notin White}
  IN  IF keep = {} THEN <<>>
      ELSE SubSeq(s, 1, CHOOSE i \in keep : \A j \in keep : i >= j)

EndsWith(s, c) == s # <<>> /\ Last(s) = c
Put(key, val, m) == [k \in DOMAIN m \union {key} |-> IF k = key THEN val ELSE m[k]]

(* kv_var_sub(): what follows the "}", up to the next brace, is kept.      *)
Pieces(block) == Blocks(block, {"{", "}"})
VarKnown(block, m) ==
  LET p == Pieces(block)
  IN  Len(p) > 1 /\ p[1] = <<"{">> /\ EndsWith(p[2], "}") /\ Front(p[2]) \in DOMAIN m
kv_var_sub(block, m) ==
  LET p == Pieces(block)
  IN  m[Front(p[2])] \o (IF Len(p) > 2 THEN p[3] ELSE <<>>)

(* The loop over blocks.  st is what the loop carries; state "break" and   *)
(* "error" leave it.                                                       *)
Start == [val |-> <<>>, quote |-> "no", next |-> "text", state |-> "loop"]
Err(st) == [st EXCEPT !.state = "error"]
Take(st, chars) == [st EXCEPT !.val = @ \o chars, !.next = "text"]
Quote(st, b, q) ==
  IF st.quote = "no" THEN [Take(st, Front(b)) EXCEPT !.quote = q]
  ELSE IF st.quote = q THEN [Take(st, Front(b)) EXCEPT !.quote = "no"]
  ELSE Take(st, b)

Escaped(st, b) ==
  IF b[1] \in Special THEN Take(st, b)
  ELSE IF b[1] = "nl" /\ st.quote # "no" THEN [st EXCEPT !.state = "break"]
  ELSE Err(st)

Comment(st, b) ==
  IF b[1] = "#" THEN [st EXCEPT !.state = "break"]
  ELSE IF trim_start(b) = <<>> THEN st ELSE Err(st)

(* Mutant: a backslash escapes within single quotes as well.               *)
PlainSingle(st, b) ==
  IF EndsWith(b, "bs") THEN [Take(st, Front(b)) EXCEPT !.next = "escape"]
  ELSE IF EndsWith(b, "dq") THEN Quote(st, b, "double")
  ELSE IF EndsWith(b, "sq") THEN Quote(st, b, "single")
  ELSE IF EndsWith(b, "sp") /\ st.quote = "no"
       THEN [Take(st, Front(b)) EXCEPT !.next = "comment"]
  ELSE IF EndsWith(b, "$") /\ st.quote # "single"
       THEN [Take(st, Front(b)) EXCEPT !.next = "var"]
  ELSE IF EndsWith(b, "nl") THEN Take(st, Front(b))
  ELSE Take(st, b)
Plain(st, b) ==
  IF EndsWith(b, "bs") /\ st.quote # "single"
  THEN [Take(st, Front(b)) EXCEPT !.next = "escape"]
  ELSE IF EndsWith(b, "dq") THEN Quote(st, b, "double")
  ELSE IF EndsWith(b, "sq") THEN Quote(st, b, "single")
  ELSE IF EndsWith(b, "sp") /\ st.quote = "no"
       THEN [Take(st, Front(b)) EXCEPT !.next = "comment"]
  ELSE IF EndsWith(b, "$") /\ st.quote # "single"
       THEN [Take(st, Front(b)) EXCEPT !.next = "var"]
  ELSE IF EndsWith(b, "nl") THEN Take(st, Front(b))
  ELSE Take(st, b)

QuoteBlock(st, b, m) ==
  IF st.state # "loop" THEN st
  ELSE IF st.next = "escape" THEN Escaped(st, b)
  ELSE IF st.next = "comment" THEN Comment(st, b)
  ELSE IF st.next = "var"
       THEN IF VarKnown(b, m) THEN Plain(st, kv_var_sub(b, m)) ELSE Err(st)
  ELSE Plain(st, b)

(* A line that ends inside quotes stays in the buffer, with a space for    *)
(* its newline unless that is escaped within double quotes.                *)
Retained(line, quote) ==
  LET ml == trim_end(line)
      esc == EndsWith(ml, "bs") /\ quote = "double"
      cut == IF esc THEN trim_end(Front(ml)) ELSE ml
  IN  IF esc /\ cut = Front(ml) THEN cut ELSE Append(cut, "sp")

(* kv_process(): the buffer and the map afterwards, or an error.           *)
KeyEnd(line) ==
  LET eq == {i \in DOMAIN line : line[i] = "="}
  IN  IF eq = {} THEN 0 ELSE CHOOSE i \in eq : \A j \in eq : i <= j

kv_process ==
  /\ pc = "process"
  /\ LET line == trim_start(buffer)
         key == SubSeq(line, 1, KeyEnd(line) - 1)
         val == SubSeq(line, KeyEnd(line) + 1, Len(line))
         st == FoldLeft(LAMBDA s, b : QuoteBlock(s, b, map), Start, Blocks(val, Special))
     IN  IF line = <<>> \/ line[1] = "#"
         THEN buffer' = <<>> /\ pc' = "read" /\ UNCHANGED map
         ELSE IF KeyEnd(line) <= 1 \/ ToSet(key) \intersect BadInKey # {} \/ st.state = "error"
         THEN pc' = "error" /\ UNCHANGED <<buffer, map>>
         ELSE /\ IF st.quote # "no"
                 THEN buffer' = Retained(line, st.quote) /\ UNCHANGED map
                 ELSE buffer' = <<>> /\ map' = Put(key, st.val, map)
              /\ pc' = "read"
  /\ UNCHANGED <<text, rest>>

(* kv_read_line(): the next line is appended to the buffer.                *)
LineEnd(s) ==
  LET nl == {i \in DOMAIN s : s[i] = "nl"}
  IN  IF nl = {} THEN Len(s) ELSE CHOOSE i \in nl : \A j \in nl : i <= j

kv_read_line ==
  /\ pc = "read"
  /\ LET n == LineEnd(rest)
     IN  /\ buffer' = buffer \o SubSeq(rest, 1, n)
         /\ rest' = SubSeq(rest, n + 1, Len(rest))
         /\ pc' = IF n = 0 THEN IF buffer # <<>> THEN "error" ELSE "done"
                  ELSE IF n > CONF_LINE_MAX THEN "error" ELSE "process"
  /\ UNCHANGED <<text, map>>

Next == kv_read_line \/ kv_process
Spec == Init /\ [][Next]_vars /\ WF_vars(Next)

-----------------------------------------------------------------------------
(* The syntax, character by character.  mode: "line" before a key, "#" in  *)
(* a comment, "key", "no", "single" and "double" for a value by its        *)
(* quoting, "esc" after a backslash, "after" the space that ends a value,  *)
(* "$" and "{" in a variable.  in is the quoting to return to, ws counts   *)
(* the spaces at the end of a quoted value, n the line's characters.       *)
(*                                                                         *)
(* last, tail and lossy do not enter the meaning: they mark the files on   *)
(* which the parser departs from it.  last is the escaped character before *)
(* those spaces, tail is "var" behind a variable, up to the next special   *)
(* character, and "brace" behind a brace there.                            *)
Reading == [mode |-> "line", in |-> "no", key |-> <<>>, val |-> <<>>, var |-> <<>>,
            ws |-> 0, n |-> 0, map |-> <<>>, last |-> "no", tail |-> "no", lossy |-> FALSE]

Add(r, c) ==
  [r EXCEPT !.val = Append(@, c), !.mode = r.in,
            !.ws = IF c = "sp" /\ r.mode # "esc" THEN @ + 1 ELSE 0,
            !.last = IF r.mode = "esc" THEN c ELSE IF c = "sp" THEN @ ELSE "no"]
Mode(r, m) == [r EXCEPT !.mode = m]
Enter(r, q) == [r EXCEPT !.mode = q, !.in = q, !.ws = 0, !.last = "no"]
EndLine(r) ==
  [Reading EXCEPT !.map = IF r.key = <<>> THEN r.map ELSE Put(r.key, r.val, r.map),
                  !.lossy = r.lossy]

(* A newline within quotes: it and the spaces before it are one space;     *)
(* escaped, it is nothing unless there are such spaces.                    *)
Fold(r, escaped) ==
  LET cut == [r EXCEPT !.val = SubSeq(@, 1, Len(@) - r.ws), !.mode = r.in, !.ws = 0]
  IN  IF escaped /\ r.ws = 0 THEN cut ELSE Add(cut, "sp")

Quoted(r, c) ==
  CASE c = "nl" -> Fold(r, FALSE)
    [] c = "bs" /\ r.in = "double" -> Mode(r, "esc")
    [] c = "$" /\ r.in = "double" -> Mode(r, "$")
    [] c = "dq" /\ r.in = "double" -> Enter(r, "no")
    [] c = "sq" /\ r.in = "single" -> Enter(r, "no")
    [] OTHER -> Add(r, c)

Unquoted(r, c) ==
  CASE c = "nl" -> EndLine(r)
    [] c = "bs" -> Mode(r, "esc")
    [] c = "$" -> Mode(r, "$")
    [] c = "dq" -> Enter(r, "double")
    [] c = "sq" -> Enter(r, "single")
    [] c = "sp" -> Mode(r, "after")
    [] OTHER -> Add(r, c)

Char(r, c) ==
  CASE r.mode = "line" ->
         IF c \in White THEN r ELSE IF c = "#" THEN Mode(r, "#")
         ELSE IF c = "=" \/ c \in BadInKey THEN Mode(r, "error")
         ELSE [r EXCEPT !.mode = "key", !.key = <<c>>]
    [] r.mode = "key" ->
         IF c = "=" THEN Mode(r, "no")
         ELSE IF c = "nl" \/ c \in BadInKey THEN Mode(r, "error")
         ELSE [r EXCEPT !.key = Append(@, c)]
    [] r.mode = "#" -> IF c = "nl" THEN EndLine(r) ELSE r
    [] r.mode = "after" ->
         IF c = "#" THEN Mode(r, "#") ELSE IF c = "sp" THEN r
         ELSE IF c = "nl" THEN EndLine(r) ELSE Mode(r, "error")
    [] r.mode = "no" -> Unquoted(r, c)
    [] r.mode \in {"single", "double"} -> Quoted(r, c)
    [] r.mode = "esc" ->
         IF c \in Special THEN Add(r, c)
         ELSE IF c = "nl" /\ r.in = "double" THEN Fold(r, TRUE) ELSE Mode(r, "error")
    [] r.mode = "$" ->
         IF c = "{" THEN [r EXCEPT !.mode = "{", !.var = <<>>] ELSE Mode(r, "error")
    [] r.mode = "{" ->
         IF c \in {"{", "nl"} \union Special THEN Mode(r, "error")
         ELSE IF c # "}" THEN [r EXCEPT !.var = Append(@, c)]
         ELSE IF r.var \notin DOMAIN r.map THEN Mode(r, "error")
         ELSE [r EXCEPT !.mode = r.in, !.val = @ \o r.map[r.var], !.ws = 0, !.last = "no",
                        !.tail = "var"]
    [] r.mode = "error" -> r

(* Is it here that the parser departs?  At a newline within double quotes  *)
(* behind an escaped backslash, which it takes for the newline's, or an    *)
(* escaped space, which it trims; and at whatever follows a second brace   *)
(* behind a variable, which kv_var_sub() drops.                            *)
Departs(r, c) ==
  \/ c = "nl" /\ r.mode = "double" /\ r.last \in {"bs", "sp"}
  \/ c = "nl" /\ r.mode = "esc" /\ r.last = "sp" /\ r.ws > 0
  \/ r.tail = "brace" /\ ~(c = "nl" /\ r.mode = "no")
Behind(r, x, c) ==
  IF r.mode = "{" \/ c = "bs" \/ (r.mode = "esc" /\ c = "nl") THEN x.tail
  ELSE IF c = "nl" \/ c \in Special THEN "no"
  ELSE IF r.tail = "var" /\ c \in {"{", "}"} THEN "brace" ELSE x.tail

Read(s) ==
  FoldLeft(LAMBDA r, c :
    LET x == [Char(r, c) EXCEPT !.lossy = @ \/ Departs(r, c), !.tail = Behind(r, Char(r, c), c)]
    IN  IF c = "nl" THEN [x EXCEPT !.n = 0]
        ELSE IF r.n + 2 > CONF_LINE_MAX THEN Mode(x, "error")
        ELSE [x EXCEPT !.n = r.n + 1], Reading, s)
Meaning(s) == Read(s).map
Refused(s) == Read(s).mode # "line"
Lossy(s) == Read(s).lossy

(* A file of whole lines means to the parser what the syntax says, or is   *)
(* refused by both: quotes, escapes, comments, substitutions and lines     *)
(* that go on, in every order but two.  The parser loses text where a line *)
(* ends inside double quotes in an escaped backslash or space, and where   *)
(* a variable is followed, before the next special character, by a brace   *)
(* with anything behind it (Departs).                                      *)
Agrees ==
  ~Lossy(text) =>
    /\ pc = "done" => ~Refused(text) /\ map = Meaning(text)
    /\ pc = "error" => Refused(text)
=============================================================================
