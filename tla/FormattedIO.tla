---------------------------- MODULE FormattedIO ----------------------------
(***************************************************************************)
(* printf and scanf of Octave 2.0.17 (oct-stream.cc): how a template       *)
(* becomes a list of elements, how printf goes round that list until its   *)
(* arguments are used up, and how scanf goes round it until the input, the *)
(* requested size or an error ends it, while the matrix of results grows.  *)
(*                                                                         *)
(* Characters are their codes; a number is a natural number or Half, which *)
(* stands for one that is not an integer.  The conversion of one number or *)
(* word is the C++ library's (istream::scan, ostream::form) and external.  *)
(* One step is one element of the template.                                *)
(***************************************************************************)
EXTENDS Integers, Sequences, FiniteSets, FiniteSetsExt, SequencesExt

CONSTANTS
  PrintTemplates, ScanTemplates,  \* the templates of this instance
  Arguments,    \* argument lists of printf
  Sizes,        \* size arguments of scanf
  Files,        \* contents of the file that is read
  Room,         \* 32: columns, or rows, of the first matrix
  CharRoom      \* 512: characters in the first string

ASSUME RoomAssumption == Room \in Nat \ {0} /\ CharRoom \in Nat \ {0}

VARIABLES
  file,   \* the characters of the file that is read
  in,     \* the stream that reads it: what is left, and its state bits
  out,    \* what the running or last printf has written
  fail,   \* octave_base_stream::fail: the last operation met an error
  call,   \* the running printf or scanf
  done    \* the call that has ended last, and what it returned
vars == <<file, in, out, fail, call, done>>

(******************************* templates ********************************)

Space == 32
Digits == 48 .. 57
Half == -1
Inf == 1000

\* A token of a template: an ordinary character (also the one that %% stands for) or
\* a conversion, with a `*' or a field width.  "d" is any conversion of a number.
Lit(c) == [type |-> "lit", char |-> c, star |-> FALSE, width |-> 0]
Conv(type, star, width) == [type |-> type, char |-> 0, star |-> star, width |-> width]

\* An element of a format list: ordinary characters and the conversion that follows
\* them; "none" is the type of those after the last conversion.
Elt(text, type, star, width) == [text |-> text, type |-> type, star |-> star, width |-> width]

\* The constructors of printf_format_list and scanf_format_list, which differ in the
\* conversions that they know: the elements and num_conversions (), -1 if it is wrong.
FormatList(tokens, known) ==
  LET Add(a, tok) ==
        IF a.nconv < 0 THEN a
        ELSE IF tok.type = "lit" THEN [a EXCEPT !.text = Append(@, tok.char)]
        ELSE IF tok.type \notin known THEN [a EXCEPT !.nconv = -1]
        ELSE [text |-> <<>>, nconv |-> a.nconv + 1,
              list |-> Append(a.list, Elt(a.text, tok.type, tok.star, tok.width))]
      all == FoldLeft(Add, [text |-> <<>>, nconv |-> 0, list |-> <<>>], tokens)
  IN [nconv |-> all.nconv,
      list |-> IF all.nconv < 0 \/ all.text = <<>> THEN all.list
               ELSE Append(all.list, Elt(all.text, "none", FALSE, 0))]
PrintList(tokens) == FormatList(tokens, {"d", "c", "s", "p", "%"})
ScanList(tokens)  == FormatList(tokens, {"d", "c", "s", "p"})

\* next (): round the list.
Next1(c) == [c EXCEPT !.cur = IF @ = Len(c.list) THEN 1 ELSE @ + 1]
Current == call.list[call.cur]

(*************************** the input library ****************************)

\* The number of characters of t at its front that are in S.
Leading(t, S) == Max({n \in 0 .. Len(t) : \A i \in 1 .. n : t[i] \in S})
Drop(t, n) == SubSeq(t, n + 1, Len(t))
Skip(t) == Drop(t, Leading(t, {Space}))
Limit(n, width) == IF width = 0 THEN n ELSE Min({n, width})
Word(t, width) == SubSeq(t, 1, Limit(Leading(t, {t[i] : i \in 1 .. Len(t)} \ {Space}), width))
Number(ds) == FoldLeft(LAMBDA v, d : 10 * v + d - 48, 0, ds)

Converted(rest, bits, v) == [ok |-> TRUE, v |-> v, s |-> [text |-> rest, bits |-> bits]]
Unconverted(rest) ==
  [ok |-> FALSE, v |-> <<>>,
   s |-> [text |-> rest, bits |-> {"fail"} \cup IF rest = <<>> THEN {"eof"} ELSE {}]]

\* istream::scan with the text of element e: its ordinary characters have to be there
\* (a space stands for any number of them), then the number, character or word.
Scan(s, e) ==
  LET start == IF e.type = "c" THEN s.text ELSE Skip(s.text)   \* ios::skipws
      Match(a, c) == IF ~a.ok THEN a
                     ELSE IF c = Space THEN [a EXCEPT !.rest = Skip(@)]
                     ELSE IF a.rest # <<>> /\ Head(a.rest) = c THEN [a EXCEPT !.rest = Tail(@)]
                     ELSE [a EXCEPT !.ok = FALSE]
      lit == FoldLeft(Match, [ok |-> TRUE, rest |-> start], e.text)
      t == IF e.type \in {"c", "none"} THEN lit.rest ELSE Skip(lit.rest)
      field == CASE e.type = "d" -> SubSeq(t, 1, Limit(Leading(t, Digits), e.width))
                 [] e.type = "c" -> SubSeq(t, 1, Min({1, Len(t)}))
                 [] OTHER        -> Word(t, e.width)
  IN IF s.bits # {} THEN [Unconverted(s.text) EXCEPT !.s.bits = @ \cup s.bits]
     ELSE IF ~lit.ok \/ start = <<>> THEN Unconverted(lit.rest)
     ELSE IF e.type = "none" THEN Converted(t, {}, <<>>)
     ELSE IF field = <<>> THEN Unconverted(t)
     ELSE Converted(Drop(t, Len(field)), {}, IF e.type = "d" THEN <<Number(field)>> ELSE field)

\* A %s without a width reads by itself: it skips spaces and takes the word and one
\* character more; what stands before it in the template is not looked at.
GetWord(s) ==
  LET t == Skip(s.text)
      word == Word(t, 0)
  IN IF s.bits # {} THEN [Unconverted(s.text) EXCEPT !.s.bits = @ \cup s.bits]
     ELSE IF word = <<>> THEN Unconverted(<<>>)
     ELSE Converted(Drop(t, Len(word) + 1), IF Len(word) = Len(t) THEN {"eof"} ELSE {}, word)

Field(e) == IF e.type = "s" /\ e.width = 0 THEN GetWord(in) ELSE Scan(in, e)

Idle == [op |-> "none"]
Ready == call = Idle /\ done = Idle /\ out = <<>>
\* A call ends; done keeps what it was and what it returns, until the builtin function
\* that made it has handed that over.
Ends(result) == call' = Idle /\ done' = result
Handed ==
  /\ call = Idle /\ ~Ready
  /\ done' = Idle /\ out' = <<>>
  /\ UNCHANGED <<file, in, fail, call>>

(********************************* scanf **********************************)

Zeros(r, c) == [nr |-> r, nc |-> c, data |-> [k \in 1 .. r * c |-> 0]]
Resized(m, r, c) ==
  [nr |-> r, nc |-> c,
   data |-> [k \in 1 .. r * c |->
               LET i == (k - 1) % r
                   j == (k - 1) \div r
               IN IF i < m.nr /\ j < m.nc THEN m.data[i + m.nr * j + 1] ELSE 0]]

\* get_size: the rows and columns asked for, -1 for as many as there are.
GetSize(size) ==
  LET Count(d) == IF d = Inf THEN -1 ELSE d
  IN [ok |-> Len(size) \in 1 .. 2 /\ size[1] >= 0,
      one |-> Len(size) = 1,
      nr |-> Count(size[1]),
      nc |-> IF Len(size) = 1 THEN 1 ELSE IF size[2] < 0 THEN -1 ELSE Count(size[2])]

AllCharacters(list) == \A i \in 1 .. Len(list) : list[i].type \in {"c", "s", "%"}

\* The first matrix of do_scanf, its max_size and max_conv.
FirstMatrix(z, all) ==
  LET With(r, c, conv) == [m |-> Zeros(r, c), max |-> r * c, conv |-> conv]
  IN IF all /\ z.one THEN With(1, CharRoom, IF z.nr > 0 THEN z.nr ELSE 0)
     ELSE IF all THEN (IF z.nr > 0 /\ z.nc > 0 THEN With(z.nr, Room, z.nr * z.nc) ELSE With(0, 0, 0))
     ELSE IF z.nr > 0 THEN (IF z.nc > 0 THEN With(z.nr, z.nc, z.nr * z.nc) ELSE With(z.nr, Room, 0))
     ELSE With(Room, 1, 0)

\* Not the code: a mutant of Grown.
GrownTransposed(c) ==
  [c EXCEPT !.max = 2 * @,
            !.m = IF c.z.nr > 0 THEN Resized(@, (2 * c.max) \div c.z.nr, c.z.nr) ELSE Resized(@, 2 * c.max, 1)]
\* max_size *= 2
Grown(c) ==
  [c EXCEPT !.max = 2 * @,
            !.m = IF c.z.nr > 0 THEN Resized(@, c.z.nr, (2 * c.max) \div c.z.nr) ELSE Resized(@, 2 * c.max, 1)]
Fitting(c) == IF c.n = c.max THEN Grown(c) ELSE c

\* data[data_index++]
Put(c, x) == [Fitting(c) EXCEPT !.m.data[c.n + 1] = x, !.n = @ + 1]

ScanResult(value, c) ==
  [op |-> "scan", string |-> c.all, z |-> c.z, value |-> value, count |-> c.count, items |-> c.items]

\* A template without conversions only has to match.
ScanText(list, op) ==
  LET r == Scan([in EXCEPT !.bits = {}], list[1])
  IN IF list = <<>> THEN fail' = FALSE /\ UNCHANGED in
     ELSE IF r.ok THEN in' = r.s /\ fail' = FALSE
     ELSE IF op = "scan" THEN in' = [r.s EXCEPT !.bits = @ \ {"fail"}] /\ fail' = FALSE
     ELSE in' = r.s /\ fail' = TRUE

\* Left out: characters into [nr, Inf] or [Inf, nc].  The code allocates no matrix for
\* them and writes to a null pointer.
NoMatrix(z, all) == all /\ ~z.one /\ (z.nr < 0 \/ z.nc < 0)

StartScan(tokens, size) ==
  LET f == ScanList(tokens)
      z == GetSize(size)
      all == AllCharacters(f.list)
      first == FirstMatrix(z, all)
  IN /\ Ready
     /\ ~NoMatrix(z, all)
     /\ UNCHANGED <<file, out, done>>
     /\ IF f.nconv <= 0
        THEN (IF f.nconv = 0 THEN ScanText(f.list, "scan") ELSE fail' = FALSE /\ UNCHANGED in)
             /\ UNCHANGED call
        ELSE /\ fail' = FALSE /\ UNCHANGED in
             /\ call' = IF ~z.ok \/ z.nr = 0 \/ z.nc = 0 THEN Idle
                        ELSE [op |-> "scan", list |-> f.list, cur |-> 1, z |-> z, all |-> all,
                              m |-> first.m, max |-> first.max, conv |-> first.conv,
                              n |-> 0, count |-> 0, items |-> <<>>]

\* The requested number of conversions has been done.
ScanFull ==
  /\ call.op = "scan" /\ call.conv > 0 /\ call.count = call.conv
  /\ Ends(ScanResult(IF call.all /\ call.z.one THEN Resized(call.m, 1, call.n)
                     ELSE Resized(call.m, call.z.nr, (call.n - 1) \div call.z.nr + 1), call))
  /\ UNCHANGED <<file, in, out, fail>>
ScanOn == call.op = "scan" /\ ~(call.conv > 0 /\ call.count = call.conv)

\* "unsupported format specifier", and characters after the last conversion, which
\* the code has no case for: "internal format error".  What was read is dropped.
ScanUnknown ==
  /\ ScanOn /\ Current.type \in {"p", "none"}
  /\ fail' = TRUE
  /\ Ends([ScanResult(Zeros(0, 0), call) EXCEPT !.op = "failed scan"])
  /\ UNCHANGED <<file, in, out>>

ScanConverts ==
  /\ ScanOn /\ Current.type \notin {"p", "none"}
  /\ LET r == Field(Current)
         c == Fitting(call)
     IN /\ r.ok
        /\ in' = r.s
        /\ call' = Next1(IF Current.star THEN c
                         ELSE [FoldLeft(Put, c, r.v) EXCEPT !.count = @ + 1, !.items = @ \o r.v])
  /\ UNCHANGED <<file, out, fail, done>>

\* The input ends or does not match.
ScanStops ==
  /\ ScanOn /\ Current.type \notin {"p", "none"}
  /\ LET r == Field(Current)
         c == Fitting(call)
         nr == c.z.nr
     IN /\ ~r.ok
        /\ in' = [r.s EXCEPT !.bits = @ \ {"fail"}]
        /\ Ends(ScanResult(IF c.all /\ c.z.one THEN Resized(c.m, 1, c.n)
                           ELSE IF (c.all \/ nr > 0) /\ c.n > nr
                           THEN Resized(c.m, nr, (c.n - 1) \div nr + 1)
                           ELSE Resized(c.m, c.n, 1), c))
  /\ UNCHANGED <<file, out, fail>>

(************************* scanf with "C" (oscanf) ************************)

StartCScan(tokens) ==
  LET f == ScanList(tokens)
  IN /\ Ready
     /\ UNCHANGED <<file, out, done>>
     /\ IF f.nconv <= 0
        THEN (IF f.nconv = 0 THEN ScanText(f.list, "cscan") ELSE fail' = FALSE /\ UNCHANGED in)
             /\ UNCHANGED call
        ELSE /\ fail' = FALSE /\ UNCHANGED in
             /\ call' = [op |-> "cscan", list |-> f.list, cur |-> 1, nconv |-> f.nconv, vals |-> <<>>, items |-> <<>>]
CScanResult == [op |-> "cscan", list |-> call.list, vals |-> call.vals, items |-> call.items]

\* do_oscanf of one of the first nconv elements.  A word that was read with a width is
\* not assigned to retval.
CScanConverts ==
  /\ call.op = "cscan" /\ call.cur <= call.nconv /\ Current.type # "p"
  /\ LET r == Field(Current)
     IN /\ r.ok
        /\ in' = r.s
        /\ call' = [call EXCEPT !.cur = @ + 1,
                                !.items = IF Current.star THEN @ ELSE Append(@, r.v),
                                !.vals = IF Current.star \/ (Current.type = "s" /\ Current.width > 0)
                                         THEN @ ELSE Append(@, r.v)]
  /\ UNCHANGED <<file, out, fail, done>>
CScanStops ==
  /\ call.op = "cscan" /\ call.cur <= call.nconv
  /\ LET r == Field(Current)
     IN IF Current.type = "p" THEN UNCHANGED in ELSE ~r.ok /\ in' = r.s
  /\ fail' = TRUE
  /\ Ends(CScanResult)
  /\ UNCHANGED <<file, out>>

\* The trailing characters are given to do_oscanf, which has no case for them.
CScanEnds ==
  /\ call.op = "cscan" /\ call.cur > call.nconv
  /\ fail' = (Len(call.list) > call.nconv)
  /\ Ends(CScanResult)
  /\ UNCHANGED <<file, in, out>>

(********************************* printf *********************************)

\* An argument is a string, or a matrix that is printed by its elements.
Str(cs) == [str |-> TRUE, data |-> cs]
Matrix(vs) == [str |-> FALSE, data |-> vs]

Decimal[v \in Nat] == IF v < 10 THEN <<48 + v>> ELSE Append(Decimal[v \div 10], 48 + (v % 10))
Truncated(v) == IF v = Half THEN 0 ELSE v
Padded(t, width) == [i \in 1 .. Max({0, width - Len(t)}) |-> Space] \o t

\* printf_value_cache: val_idx, elt_idx, n_elts, and whether there is data.

\* Not the code: a mutant of LookingAtString.
LookingAtStringFirst(c) ==
  c.elt = 0 /\ c.val < Len(c.args) /\ c.args[c.val + 1].str
LookingAtString(c) ==
  LET i == IF c.elt = 0 THEN c.val ELSE IF c.elt >= c.elts THEN c.val + 1 ELSE Len(c.args)
  IN i < Len(c.args) /\ c.args[i + 1].str

\* double_value.  `why' is empty, or says why there is no number: the values are used up,
\* or the next one is a string, and implicit_str_to_num_ok is not set, which matrix_value
\* reports as an error (::error).
TakeNumber(c) ==
  LET from == IF c.data THEN c.val + 1 ELSE c.val
      Refused(i) == c.args[i + 1].str /\ ~c.convert
      some == {i \in from .. Len(c.args) - 1 : Refused(i) \/ c.args[i + 1].data # <<>>}
      i == Min(some)
  IN IF c.data /\ c.elt < c.elts
     THEN [why |-> "", v |-> c.args[c.val + 1].data[c.elt + 1], c |-> [c EXCEPT !.elt = @ + 1]]
     ELSE IF some = {} THEN [why |-> "exhausted", v |-> 0, c |-> c]
     ELSE IF Refused(i) THEN [why |-> "refused", v |-> 0, c |-> c]
     ELSE [why |-> "", v |-> c.args[i + 1].data[1],
           c |-> [c EXCEPT !.val = i, !.elt = 1, !.elts = Len(c.args[i + 1].data), !.data = TRUE]]

\* int_value: a number that is not an integer is a conversion_error, of which nobody
\* is told.
TakeInt(c) ==
  LET n == TakeNumber(c)
  IN IF n.why = "" /\ n.v = Half THEN [n EXCEPT !.why = "not an integer"] ELSE n

\* Not the code: a mutant of TakeString.
TakeStringTwice(c) ==
  LET i == IF c.elt = 0 THEN c.val ELSE c.val + 1
  IN [v |-> c.args[i + 1].data, c |-> [c EXCEPT !.val = i, !.elt = 0, !.data = FALSE]]
\* string_value
TakeString(c) ==
  LET i == IF c.elt = 0 THEN c.val ELSE c.val + 1
  IN [v |-> c.args[i + 1].data, c |-> [c EXCEPT !.val = i + 1, !.elt = 0, !.data = c.elt = 0 /\ @]]

\* `end' is empty when the values have been used up, and says what has ended the
\* printing before that.
PrintResult(end) ==
  [op |-> "print", tokens |-> call.tokens, args |-> call.args, convert |-> call.convert,
   text |-> out, ret |-> call.ret, end |-> end]

StartPrint(tokens, args, convert) ==
  LET f == PrintList(tokens)
  IN /\ Ready
     /\ fail' = FALSE /\ UNCHANGED <<file, in, done>>
     /\ out' = IF f.nconv = 0 /\ f.list # <<>> THEN f.list[1].text ELSE <<>>
     /\ call' = IF f.nconv <= 0 \/ args = <<>> THEN Idle
                ELSE [op |-> "print", list |-> f.list, cur |-> 1, tokens |-> tokens, args |-> args,
                      convert |-> convert, val |-> 0, elt |-> 0, elts |-> 0, data |-> FALSE,
                      ret |-> -1]

\* The field width, if the element asks for one, and then the value: what the
\* element prints, or why it does not.
Element(e) ==
  LET w == IF e.star THEN TakeInt(call) ELSE [why |-> "", v |-> e.width, c |-> call]
      n == TakeNumber(w.c)
      Prints(t, c) == [why |-> "prints", t |-> e.text \o t, c |-> c]
      Stops(why) == [why |-> why, t |-> <<>>, c |-> call]
  IN IF w.why # "" THEN Stops(w.why)
     ELSE IF e.type = "none" THEN Prints(<<>>, w.c)
     ELSE IF e.type = "%" THEN Prints(<<37>>, w.c)
     ELSE IF e.type = "s" /\ LookingAtString(w.c)
     THEN LET s == TakeString(w.c) IN Prints(Padded(s.v, w.v), s.c)
     ELSE IF n.why # "" THEN Stops(n.why)
     ELSE IF e.type = "d" THEN Prints(Padded(Decimal[Truncated(n.v)], w.v), n.c)
     ELSE IF e.type = "c" THEN Prints(Padded(<<Truncated(n.v)>>, w.v), n.c)
     ELSE Stops("wrong type")

PrintElement ==
  /\ call.op = "print"
  /\ LET r == Element(Current)
     IN /\ r.why = "prints"
        /\ out' = out \o r.t
        /\ call' = Next1([r.c EXCEPT !.ret = @ + (IF Current.star THEN 1 ELSE 0)
                                               + (IF Current.type = "%" THEN 0 ELSE 1)])
  /\ UNCHANGED <<file, in, fail, done>>
PrintEnds ==
  /\ call.op = "print" /\ Element(Current).why = "exhausted"
  /\ Ends(PrintResult(""))
  /\ UNCHANGED <<file, in, out, fail>>
\* A width that is not an integer: the loop is left and nothing is said.
PrintBreaksOff ==
  /\ call.op = "print" /\ Element(Current).why = "not an integer"
  /\ Ends(PrintResult("broken off"))
  /\ UNCHANGED <<file, in, out, fail>>
\* "wrong type argument `string'": error_state is set, the stream itself has no error.
PrintRefused ==
  /\ call.op = "print" /\ Element(Current).why = "refused"
  /\ Ends(PrintResult("refused"))
  /\ UNCHANGED <<file, in, out, fail>>
\* "invalid format specifier": %s or %p with a number.
PrintWrong ==
  /\ call.op = "print" /\ Element(Current).why = "wrong type"
  /\ fail' = TRUE
  /\ Ends([PrintResult("wrong") EXCEPT !.ret = -1])
  /\ UNCHANGED <<file, in, out>>

(********************************* session ********************************)

\* fseek to the start; the bits of the stream are cleared.
Rewind ==
  /\ Ready /\ in # [text |-> file, bits |-> {}]
  /\ in' = [text |-> file, bits |-> {}] /\ fail' = FALSE
  /\ UNCHANGED <<file, out, call, done>>

Step == \/ ScanFull \/ ScanUnknown \/ ScanConverts \/ ScanStops
        \/ CScanConverts \/ CScanStops \/ CScanEnds
        \/ PrintElement \/ PrintEnds \/ PrintBreaksOff \/ PrintRefused \/ PrintWrong

Init ==
  /\ file \in Files
  /\ in = [text |-> file, bits |-> {}]
  /\ out = <<>> /\ fail = FALSE /\ call = Idle /\ done = Idle
Next == \/ \E t \in ScanTemplates, z \in Sizes : StartScan(t, z)
        \/ \E t \in ScanTemplates : StartCScan(t)
        \/ \E t \in PrintTemplates, a \in Arguments, c \in BOOLEAN : StartPrint(t, a, c)
        \/ Rewind \/ Handed \/ Step
Spec == Init /\ [][Next]_vars

-----------------------------------------------------------------------------
(******************************* properties *******************************)

\* What printf should print, told without elements and cache: the values of all
\* arguments in their order meet the conversions of the template in their order, again
\* and again; a string meets a %s as a whole.

\* The conversions, each with the characters before it; a `*' is one of its own.
Places(tokens) ==
  LET Add(a, tok) ==
        IF tok.type = "lit" THEN [a EXCEPT !.text = Append(@, tok.char)]
        ELSE LET width == [type |-> "width", text |-> <<>>, width |-> 0, star |-> FALSE]
                 place == [type |-> tok.type, text |-> a.text, width |-> tok.width, star |-> tok.star]
             IN [text |-> <<>>,
                 places |-> a.places \o IF tok.type = "%" THEN <<[place EXCEPT !.star = FALSE]>>
                                        ELSE IF tok.star THEN <<width, place>> ELSE <<place>>]
  IN FoldLeft(Add, [text |-> <<>>, places |-> <<>>], tokens)

\* The values: pairs of a place and what is printed there, up to the first that does
\* not suit its place.
Meetings(places, args, convert) ==
  LET n == Len(places)
      Place(k) == places[(k % n) + 1]
      Suits(p, v) == p.type \in {"d", "c"} \/ (p.type \in {"width", "%"} /\ v # Half)
      Number1(a, v) ==
        IF a.end # "" THEN a
        ELSE LET p == Place(Len(a.met))
             IN IF Suits(p, v) THEN [a EXCEPT !.met = Append(@, [at |-> p, v |-> <<v>>])]
                ELSE [a EXCEPT !.end = IF p.type \in {"s", "p"} THEN "wrong" ELSE "broken off"]
      Argument(a, arg) ==
        IF a.end # "" THEN a
        ELSE IF arg.str /\ Place(Len(a.met)).type = "s"
        THEN [a EXCEPT !.met = Append(@, [at |-> Place(Len(a.met)), v |-> arg.data])]
        ELSE IF arg.str /\ ~convert THEN [a EXCEPT !.end = "refused"]
        ELSE FoldLeft(Number1, a, arg.data)
  IN FoldLeft(Argument, [met |-> <<>>, end |-> ""], args)

Expected(tokens, args, convert) ==
  LET all == Places(tokens)
      met == Meetings(all.places, args, convert).met
      Text(k) == LET at == met[k].at
                     v == met[k].v
                     width == IF at.star THEN met[k - 1].v[1] ELSE at.width
                 IN CASE at.type = "width" -> <<>>
                      [] at.type = "%" -> at.text \o <<37>>
                      [] at.type = "d" -> at.text \o Padded(Decimal[Truncated(v[1])], width)
                      [] at.type = "c" -> at.text \o Padded(<<Truncated(v[1])>>, width)
                      [] at.type = "s" -> at.text \o Padded(v, width)
  IN FlattenSeq([k \in 1 .. Len(met) |-> Text(k) \o IF k % Len(all.places) = 0 THEN all.text ELSE <<>>])

\* An empty matrix hides from %s that a string comes next: looking_at_string looks only
\* at the value that follows.
Hidden(args) == \E i \in 2 .. Len(args) : args[i].str /\ ~args[i - 1].str /\ args[i - 1].data = <<>>

\* io.tex, "Output Conversion for Matrices": printf cycles through the template until all
\* values have been printed, and does not start again with the next argument.  However
\* values, strings, widths and templates fall together, each value is printed once, in
\* order, at the conversion whose turn it is.  The printing stops before that at the first
\* value that does not suit its place, which is an error when it is a number at a %s or
\* %p, or a string that is not at a %s and may not be converted.  A width that is not an
\* integer stops it too, and the code does not call that an error.
PrintsInOrder ==
  done.op = "print" /\ ~Hidden(done.args) =>
    LET met == Meetings(Places(done.tokens).places, done.args, done.convert)
    IN done.text = Expected(done.tokens, done.args, done.convert) /\ done.end = met.end

\* io.tex, "Output Conversion Syntax": the value for a `*' is rounded to the nearest
\* integer.  The code does not do that: int_value stops the printing.
WidthsRounded == done.op = "print" => done.end # "broken off"

\* io.tex, "Other Output Conversions": strings of one character are printed by %c.
\* The code refuses them as long as implicit_str_to_num_ok is not set.
CharactersPrinted ==
  done.op = "print" /\ (\A i \in 1 .. Len(done.tokens) : done.tokens[i].type = "c")
    /\ (\A i \in 1 .. Len(done.args) : done.args[i].str /\ Len(done.args[i].data) = 1)
  => done.end = ""

\* As many characters as the first string has room for, or more, are lost: the matrix is one row
\* and resize makes it a column.
Wide == done.string /\ done.z.one /\ Len(done.items) >= CharRoom

\* io.tex on fscanf: the matrix has the requested rows, and what has been read stands
\* in it column by column, padded with zeros, however often the matrix has grown while
\* it was read and whatever ended the reading.  When fewer items have been read than rows
\* were asked for, the code returns a column of just these: rows is the smaller number.
ItemsInPlace ==
  done.op = "scan" /\ ~Wide =>
    LET m == done.value
        n == Len(done.items)
        rows == IF done.string /\ done.z.one THEN 1
                ELSE IF done.z.nr > 0 THEN Min({n, done.z.nr}) ELSE n
    IN /\ m.nr = rows /\ m.nr * m.nc >= n /\ m.nr * m.nc < n + Max({1, m.nr})
       /\ m.data = [k \in 1 .. m.nr * m.nc |-> IF k <= n THEN done.items[k] ELSE 0]

\* The same without the exception, which the code does not do.
StringsWhole ==
  done.op = "scan" /\ done.string /\ done.z.one => done.value.data = done.items

\* The values that a printf has not printed yet, and whether it is at the characters
\* that take none; the characters that a scanf has not read yet.
Remaining ==
  IF call.op = "print"
  THEN LET left == FoldLeft(LAMBDA n, arg : n + Len(arg.data) + 1, 0, Drop(call.args, call.val)) - call.elt
       IN 2 * left + IF Current.type = "none" THEN 1 ELSE 0
  ELSE Len(in.text)

\* Neither loop, for (;;) both, goes on for ever: with every element of the template
\* there is less to do, so that a printf ends when its values are used up and a scanf at
\* the end of its input at the latest.
Shrinks == [][call # Idle /\ call' # Idle => Remaining' < Remaining]_vars
=============================================================================
