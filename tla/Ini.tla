--------------------------------- MODULE Ini ---------------------------------
(***************************************************************************)
(* base/utils/iniFile.cpp: an IniFile object, filled by open() line by     *)
(* line.  A line is what is left of it after trimCharacter(), told apart   *)
(* as far as open() and parse() do.  The lines of the file come up as they *)
(* are read; memory may run out in getline().                              *)
(***************************************************************************)
EXTENDS Integers, Sequences, FiniteSets, SequencesExt

CONSTANTS
  MAXINISECTION,
  LongRange,  \* values of a long
  Titles,     \* titles of sections, "" for a line "[]" among them
  Comments,   \* the titles that begin with '#'
  Items,      \* lines with an item
  ItemOf,     \* the item a title with a '=' is when it is taken for a line
  MaxFiles,   \* files the process may have open
  MaxLines,   \* bound: lines of a file
  MaxFails    \* bound: failures of malloc() and realloc() in one open()

\* Characters: the hexadecimal digits by value, then 'x', 'X' and any other.
CharX == 16
CharUpperX == 17
Chars == 0..18

\* An item has a key, the text between '=' and the next ';' or the end of the
\* line, perhaps a ';' before its '=', perhaps a ';' and more after its text.
ASSUME IniAssumption ==
  /\ {MAXINISECTION, LongRange, MaxFiles} \subseteq Nat \ {0}
  /\ {MaxLines, MaxFails} \subseteq Nat
  /\ "" \in Titles
  /\ \A it \in Items :
       /\ DOMAIN it = {"kind", "key", "text", "early", "late"}
       /\ it.kind = "item" /\ it.text \in Seq(Chars)
       /\ {it.early, it.late} \subseteq BOOLEAN
  /\ Comments \subseteq Titles \ {""}
  /\ DOMAIN ItemOf \subseteq Titles \ (Comments \cup {""})
  /\ \A t \in DOMAIN ItemOf : ItemOf[t] \in Items

\* Blank lines and comments; '[' without ']'; no '=' or nothing before it;
\* sections; items.
Lines ==
  {[kind |-> k] : k \in {"blank", "unclosed", "bad"}}
  \cup {[kind |-> "section", title |-> t] : t \in Titles}
  \cup Items

Indexes == 0..(MAXINISECTION - 1)

VARIABLES
  Section,  \* titles and items of Section[0], Section[1], ...
  pc,
  IniDex,
  line,     \* the local of that name: a line, or the title of the last section
  files,    \* open FILE*s
  ret,      \* what the last open() returned
  lines,    \* ghost: the lines read from the file, from its start
  fails,    \* ghost: failures of malloc() so far
  torn,     \* ghost: the head of a long line was lost in a failure of realloc()
  overrun   \* ghost: Section[] was indexed outside its bounds

ghosts == <<lines, fails, torn, overrun>>
vars == <<Section, pc, IniDex, line, files, ret, lines, fails, torn, overrun>>

Blank == [kind |-> "blank"]
Empty == [title |-> "", items |-> <<>>]

Init ==
  /\ Section = [i \in Indexes |-> Empty]
  /\ pc = "idle"
  /\ IniDex = -1
  /\ line = Blank
  /\ files = 0
  /\ ret = "none"
  /\ lines = <<>> /\ fails = 0 /\ torn = FALSE /\ overrun = FALSE

-----------------------------------------------------------------------------
(* open().                                                                  *)

\* Fault: releaseData() keeps the items.
Released_Titles(i) == [Section[i] EXCEPT !.title = ""]
Released(i) == Empty

releaseData == Section' = [i \in Indexes |-> Released(i)]

\* fopen() fails, for one when too many files are open: the object keeps what it
\* held.
OpenFails ==
  /\ pc = "idle"
  /\ ret' = "error"
  /\ UNCHANGED <<Section, pc, IniDex, line, files, ghosts>>

Open ==
  /\ pc = "idle"
  /\ files < MaxFiles
  /\ releaseData
  /\ pc' = "getline"
  /\ IniDex' = -1
  /\ line' = Blank
  /\ files' = files + 1
  /\ ret' = "none"
  /\ lines' = <<>> /\ fails' = 0 /\ torn' = FALSE /\ overrun' = FALSE

Return(r) == pc' = "idle" /\ ret' = r

\* fclose(fp) and RET_ERR, after a line that is not understood.
Fail == Return("error") /\ files' = files - 1

\* The test after getline() found a line; the fault drops it.
Turn_Always == pc' = "body"
Turn == pc' = IF IniDex < MAXINISECTION THEN "body" ELSE "end"

GetLine ==
  /\ pc = "getline"
  /\ Len(lines) < MaxLines
  /\ line' \in Lines
  /\ lines' = Append(lines, line')
  /\ Turn
  /\ UNCHANGED <<Section, IniDex, files, ret, fails, torn, overrun>>

\* malloc() fails: getline() returns RET_ERR, which is not 0, and leaves the
\* line of the turn before.
GetLineNoMemory ==
  /\ pc = "getline"
  /\ fails < MaxFails
  /\ fails' = fails + 1
  /\ Turn
  /\ UNCHANGED <<Section, IniDex, line, files, ret, lines, torn, overrun>>

\* realloc() fails within a long line: RET_ERR again, and the next getline()
\* finds the rest of that line.
GetLineTorn ==
  /\ pc = "getline"
  /\ fails < MaxFails
  /\ fails' = fails + 1
  /\ torn' = TRUE
  /\ Turn
  /\ UNCHANGED <<Section, IniDex, line, files, ret, lines, overrun>>

\* Fault: the end of the file is reported as an error.
EndOfFile_Error ==
  /\ pc = "getline"
  /\ Turn
  /\ UNCHANGED <<Section, IniDex, line, files, ret, ghosts>>

EndOfFile ==
  /\ pc = "getline"
  /\ pc' = "end"
  /\ UNCHANGED <<Section, IniDex, line, files, ret, ghosts>>

\* After the loop: the file is not closed.
OpenEnd ==
  /\ pc = "end"
  /\ Return(IF IniDex >= MAXINISECTION THEN "error" ELSE "ok")
  /\ UNCHANGED <<Section, IniDex, line, files, ghosts>>

-----------------------------------------------------------------------------
(* The body of the loop.                                                    *)

SkipLine ==
  /\ pc = "body" /\ line.kind = "blank"
  /\ pc' = "getline"
  /\ UNCHANGED <<Section, IniDex, line, files, ret, ghosts>>

\* Fault: a line that is not understood is passed over.
BadLine_Skip ==
  /\ pc = "body" /\ line.kind \in {"unclosed", "bad"}
  /\ pc' = "getline"
  /\ UNCHANGED <<Section, IniDex, line, files, ret, ghosts>>

\* No ']', or parse() fails.
BadLine ==
  /\ pc = "body" /\ line.kind \in {"unclosed", "bad"}
  /\ Fail
  /\ UNCHANGED <<Section, IniDex, line, ghosts>>

\* What is left in line of a section: the title, without its brackets.
TitleLine(t) ==
  CASE t = "" \/ t \in Comments -> Blank
    [] t \in DOMAIN ItemOf -> ItemOf[t]
    [] OTHER -> [kind |-> "bad"]

\* Fault: the index advances after the title is stored.
NewSection_Late ==
  /\ pc = "body" /\ line.kind = "section"
  /\ IniDex' = IniDex + 1
  /\ line' = TitleLine(line.title)
  /\ IF IniDex \in Indexes
     THEN Section' = [Section EXCEPT ![IniDex].title = line.title] /\ UNCHANGED overrun
     ELSE overrun' = TRUE /\ UNCHANGED Section
  /\ pc' = "getline"
  /\ UNCHANGED <<files, ret, lines, fails, torn>>

\* The index is used before it is tested.  The title stored past the end goes to
\* memory of others: the program ends, or goes on.
NewSection ==
  /\ pc = "body" /\ line.kind = "section"
  /\ IniDex' = IniDex + 1
  /\ line' = TitleLine(line.title)
  /\ IF IniDex' \in Indexes
     THEN /\ Section' = [Section EXCEPT ![IniDex'].title = line.title]
          /\ pc' = "getline"
          /\ UNCHANGED overrun
     ELSE /\ overrun' = TRUE
          /\ pc' \in {"getline", "crashed"}
          /\ UNCHANGED Section
  /\ UNCHANGED <<files, ret, lines, fails, torn>>

\* parse(): the value ends at the first ';' of the line, if that stands after
\* the '='; else the rest of the line is taken, a later ';' and all.
EndsAtFirst(it) == it.late /\ ~it.early
parse(it) ==
  [key |-> it.key, value |-> [text |-> it.text, rest |-> it.late /\ ~EndsAtFirst(it)]]

addItems(items, it) == Append(items, it)

\* An item, before the first section Section[-1]'s.
NewItem ==
  /\ pc = "body" /\ line.kind = "item"
  /\ IF IniDex \in Indexes
     THEN /\ Section' = [Section EXCEPT ![IniDex].items = addItems(@, parse(line))]
          /\ pc' = "getline"
          /\ UNCHANGED overrun
     ELSE /\ overrun' = TRUE
          /\ pc' \in {"getline", "crashed"}
          /\ UNCHANGED Section
  /\ UNCHANGED <<IniDex, line, files, ret, lines, fails, torn>>

-----------------------------------------------------------------------------
(* getStringValue(), which changes nothing.                                 *)

NotFound == [ret |-> "error", value |-> [text |-> <<>>, rest |-> FALSE]]

\* The item found is the first with the key; the last item is not compared.
\* Fault: the search goes on after a match.
findItems_Last(items, key) ==
  LET hits == {j \in 1..(Len(items) - 1) : items[j].key = key}
  IN IF hits = {} THEN NotFound ELSE [ret |-> "ok", value |-> items[Max(hits)].value]
findItems(items, key) ==
  LET hits == {j \in 1..(Len(items) - 1) : items[j].key = key}
  IN IF hits = {} THEN NotFound ELSE [ret |-> "ok", value |-> items[Min(hits)].value]

getStringValue(title, key) ==
  LET hits == {i \in Indexes : Section[i].title = title}
  IN IF hits = {} THEN NotFound ELSE findItems(Section[Min(hits)].items, key)

\* (intValue<<4) plus the digit, in a long; the fault leaves out the parentheses.
ShiftIn_Precedence(n, d) == (n * 2^(4 + d)) % LongRange
ShiftIn(n, d) == (n * 16 + d) % LongRange

\* The digits of base b that text starts with.
Digits(text, b) ==
  SubSeq(text, 1, Min({j \in 1..Len(text) : text[j] >= b} \cup {Len(text) + 1}) - 1)

After0x(text, x) == {j \in 2..Len(text) : text[j - 1] = 0 /\ text[j] = x}

\* The value as a long: hexadecimal after the first "0x" or else "0X", wherever
\* it stands, decimal (atol) without one.
LongValue(text) ==
  LET at == IF After0x(text, CharX) # {} THEN After0x(text, CharX) ELSE After0x(text, CharUpperX)
  IN IF at = {}
     THEN FoldLeft(LAMBDA n, d : n * 10 + d, 0, Digits(text, 10))
     ELSE FoldLeft(ShiftIn, 0, Digits(SubSeq(text, Min(at) + 1, Len(text)), 16))

-----------------------------------------------------------------------------

\* close().
Close ==
  /\ pc = "idle"
  /\ releaseData
  /\ lines' = <<>> /\ fails' = 0 /\ torn' = FALSE /\ overrun' = FALSE
  /\ ret' = "none"
  /\ UNCHANGED <<pc, IniDex, line, files>>

\* The program is started again.
Restart ==
  /\ pc = "crashed"
  /\ pc' = "idle"
  /\ Section' = [i \in Indexes |-> Empty]
  /\ IniDex' = -1 /\ line' = Blank /\ files' = 0 /\ ret' = "none"
  /\ lines' = <<>> /\ fails' = 0 /\ torn' = FALSE /\ overrun' = FALSE

Read == GetLine \/ GetLineNoMemory \/ GetLineTorn \/ EndOfFile
Body == SkipLine \/ BadLine \/ NewSection \/ NewItem

Next == Open \/ OpenFails \/ Close \/ Restart \/ Read \/ Body \/ OpenEnd

Spec == Init /\ [][Next]_vars
FairSpec == Spec /\ WF_vars(Read \/ Body \/ OpenEnd)
-----------------------------------------------------------------------------
(* Properties.                                                              *)

Values == [text : {it.text : it \in Items}, rest : BOOLEAN]

\* The variables have their types.
TypeOK ==
  /\ \A i \in Indexes :
       /\ Section[i].title \in Titles
       /\ \A j \in DOMAIN Section[i].items : Section[i].items[j].value \in Values
  /\ pc \in {"idle", "getline", "body", "end", "crashed"}
  /\ IniDex \in -1..MAXINISECTION
  /\ line \in Lines
  /\ files \in 0..MaxFiles
  /\ ret \in {"none", "ok", "error"}
  /\ lines \in Seq(Lines)
  /\ fails \in 0..MaxFails
  /\ {torn, overrun} \subseteq BOOLEAN

\* The place of j among the members of S, from 1, and the p-th of them.
Rank(S, j) == Cardinality({i \in S : i <= j})
Nth(S, p) == Min({j \in S : Rank(S, j) = p})

\* What a file says, by definition: its n-th section (from 0) starts at the line
\* before which there are n others, and has the items up to the next.
Heads(f) == {j \in DOMAIN f : f[j].kind = "section"}
Head0(f, n) == Nth(Heads(f), n + 1)
Said(it) == [key |-> it.key, value |-> [text |-> it.text, rest |-> it.early /\ it.late]]
Own(f, n) == {j \in DOMAIN f : f[j].kind = "item" /\ Rank(Heads(f), j) = n + 1}
ItemsIn(f, n) == [p \in 1..Cardinality(Own(f, n)) |-> Said(f[Nth(Own(f, n), p)])]

\* The lines that went through the body of the loop.
Done == IF pc = "body" THEN Front(lines) ELSE lines

\* At each moment of an open(), after it, and after one that could not open its
\* file, the table holds exactly the sections and items of the lines read from
\* the file, in their order, and nothing of the files opened before; if it
\* reported success, those lines were all understood and all found room.
TableExact ==
  fails = 0 /\ ~overrun =>
    /\ \A n \in Indexes :
         Section[n] = IF n < Cardinality(Heads(Done))
                   THEN [title |-> Done[Head0(Done, n)].title, items |-> ItemsIn(Done, n)]
                   ELSE Empty
    /\ ret = "ok" =>
         /\ \A l \in ToSet(lines) : l.kind \notin {"unclosed", "bad"}
         /\ Cardinality(Heads(lines)) <= MAXINISECTION

\* A hexadecimal literal, and the number it denotes: the sum of its digits, each by
\* the weight of its place.
Literal(text) ==
  /\ Len(text) > 2 /\ text[1] = 0 /\ text[2] \in {CharX, CharUpperX}
  /\ \A k \in 3..Len(text) : text[k] < 16
Denoted(text) ==
  LET n == Len(text) - 2
      weight[k \in 0..n] == IF k = 0 THEN 1 ELSE 16 * weight[k - 1]
  IN FoldLeft(LAMBDA a, b : a + b, 0, [k \in 1..n |-> text[k + 2] * weight[n - k]])

\* As a number, a value of the table that is a hexadecimal literal is the one it
\* denotes, cut to the width of a long.
NumbersExact ==
  \A i \in Indexes : \A j \in DOMAIN Section[i].items :
    LET text == Section[i].items[j].value.text
    IN Literal(text) => LongValue(text) = Denoted(text) % LongRange

\* The title is itself an item with that key and value.
Spelled(title, key, value) ==
  title \in DOMAIN ItemOf /\ parse(ItemOf[title]) = [key |-> key, value |-> value]

\* A key is looked up in the first section of that title in the file: what is
\* found is the value of its first item with that key, also if malloc() failed
\* and lines went into the table twice, except that the title may then have gone
\* into the table as an item; without a failure every item is found but the last
\* of its section.
KeyFound ==
  pc = "idle" /\ ~torn /\ ~overrun =>
    \A title \in Titles, key \in {it.key : it \in Items} :
      LET got  == getStringValue(title, key)
          secs == {n \in 0..(Cardinality(Heads(lines)) - 1) : lines[Head0(lines, n)].title = title}
          its  == IF secs = {} THEN <<>> ELSE ItemsIn(lines, Min(secs))
          hits == {j \in DOMAIN its : its[j].key = key}
      IN /\ got.ret = "ok" =>
              \/ hits # {} /\ got.value = its[Min(hits)].value
              \/ fails > 0 /\ Spelled(title, key, got.value)
         /\ fails = 0 /\ hits \ {Len(its)} # {} => got.ret = "ok"

\* Both at once: a key is found as above, and its value as the number it denotes.
LookupExact == KeyFound /\ NumbersExact

\* Section[] is indexed outside its bounds only for a file with too many
\* sections or an item before the first, whatever lines are read twice or lost
\* when memory runs out.
OverrunOnly ==
  overrun =>
    \/ Cardinality(Heads(lines)) > MAXINISECTION
    \/ \E j \in DOMAIN lines : lines[j].kind = "item" /\ \A h \in Heads(lines) : j < h

\* Every open() returns, or the program ends in it.
Returns == pc \in {"getline", "body", "end"} ~> pc \in {"idle", "crashed"}
=============================================================================
