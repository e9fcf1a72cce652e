------------------------------ MODULE Documents ------------------------------
(***************************************************************************)
(* What clients get to read: one call after the other of the functions     *)
(* that make documents, numbers and texts, with every input of a small     *)
(* size, and the client that reads the answer.                             *)
(***************************************************************************)
EXTENDS Xml, Statistics, SimpleCrypt

CONSTANTS
  MaxText, MaxFormat, MaxPage, MaxPlain,    \* bounds on the inputs' lengths
  Keys,                                     \* keys of the cypher
  Ratings,                                  \* what customers rate with
  Garbage                                   \* what the stack holds

ASSUME DocumentsAssumption ==
  /\ {MaxText, MaxFormat, MaxPage, MaxPlain} \subseteq Nat
  /\ Keys \subseteq SUBSET Nat
  /\ Ratings \subseteq Nat \ {NONE}
  /\ Garbage \subseteq Int

VARIABLES
  pc,           \* "idle", "asked" or "answered"
  call,         \* the call: which function, and with what
  answer        \* its answer

vars == <<pc, call, answer>>

Document == {"userqueue", "srinfo", "qmon", "qmon_date", "stats"}

(* The inputs                                                              *)

Characters == {"x", "<", "]", ">", "esc", "ctl"}

TextOf(c) ==
  CASE c \in Dates -> {<<>>, <<"us">>, <<"iso">>, <<"<">>}
    [] c = "bug" -> {<<>>, <<"bug">>, <<Space, "bug">>, <<"x">>}
    [] OTHER -> BoundedSeq(Characters, MaxText)

\* A row with an odd text, or one with flags.
Row ==
  (UNION {[odd: {c}, text: TextOf(c), cr: BOOLEAN, critsit: {FALSE}, high: {FALSE},
           chat: {TRUE}, found: {TRUE}] : c \in Column})
    \cup [odd: {"name"}, text: {<<"x">>}, cr: BOOLEAN, critsit: BOOLEAN, high: BOOLEAN,
          chat: BOOLEAN, found: BOOLEAN]

Number == <<"1", "2", "3", "4", "5">>

Cell == {<<>>, <<BLANK>>} \cup {<<n>> : n \in Ratings}

Line == [srsat: {<<>>, <<5>>}, engsat: Cell, rts: {<<0>>, <<1>>}]

\* The last one stands for what comes after the last "<br>".
Page == {<<>>} \cup {Append(lines, "end") : lines \in BoundedSeq(Line, MaxPage)}

-----------------------------------------------------------------------------

Init == pc = "idle" /\ call = <<>> /\ answer = <<>>

Ask(c) ==
  /\ pc' = "asked"
  /\ call' = c
  /\ UNCHANGED answer

AskDocument ==
  /\ pc = "idle"
  /\ \E d \in Document, row \in Row :
       /\ d # "srinfo" => row.found
       /\ Ask([of |-> d, row |-> row])

AskPhone ==
  /\ pc = "idle"
  /\ \E n \in 0..5, plus \in {<<>>, <<"+">>}, off \in Garbage,
        f \in BoundedSeq({"0", "-", Space}, MaxFormat) :
       Ask([of |-> "phone", p |-> plus \o SubSeq(Number, 1, n), f |-> f, off |-> off])

AskStats == pc = "idle" /\ \E page \in Page : Ask([of |-> "numbers", page |-> page])

AskPassword ==
  /\ pc = "idle"
  /\ \E plain \in BoundedSeq(Byte, MaxPlain), key \in Keys, random \in Byte, mode \in Mode :
       Ask([of |-> "password", plain |-> plain, key |-> key,
            cypher |-> encryptToByteArray(plain, key, random, mode)])

DocumentOf(d, row) ==
  CASE d = "userqueue" -> {sr(getUserQueue(row))}
    [] d = "srinfo"    -> {sr(i) : i \in getSrInfo(row)}
    [] d = "qmon"      -> {qmon(getSrsForQueue(row))}
    [] d = "qmon_date" -> {qmonDate(getSrsForQueue(row))}
    [] d = "stats"     -> {statsOf(row)}

AnswersTo(c) ==
  CASE c.of \in Document -> DocumentOf(c.of, c.row)
    [] c.of = "phone"    -> {Phone(c.p, c.f, c.off)}
    [] c.of = "numbers"  -> {stats(c.page)}
    [] c.of = "password" -> {decryptToByteArray(c.cypher, c.key)}

Answer ==
  /\ pc = "asked"
  /\ pc' = "answered"
  /\ answer' \in AnswersTo(call)
  /\ UNCHANGED call

Done ==
  /\ pc = "answered"
  /\ pc' = "idle"
  /\ call' = <<>>
  /\ answer' = <<>>

Next == AskDocument \/ AskPhone \/ AskStats \/ AskPassword \/ Answer \/ Done

Spec == Init /\ [][Next]_vars

-----------------------------------------------------------------------------
(* Properties                                                              *)

Answered(of) == pc = "answered" /\ call.of \in of

Shows(tag) == \E e \in answer : e.tag = tag

TextAt(tag) == (CHOOSE e \in answer : e.tag = tag).text

Odd(columns) == call.row.odd \in columns

\* What is left of a text when some characters are not looked at.
Without(t, drop) ==
  LET kept[i \in 0..Len(t)] ==
        IF i = 0 THEN <<>>
        ELSE IF t[i] \in drop THEN kept[i - 1] ELSE Append(kept[i - 1], t[i])
  IN kept[Len(t)]

\* A text without control characters breaks the XML of an SR or a queue in two ways
\* only: by an end of CDATA, if it is no title, description or date, or by mark-up in
\* one of the columns that are not quoted there.
OddTextsParse ==
  LET t == call.row.text
      unquoted == {"creator", "crsr", "bomgar"}
                    \cup (IF call.of = "qmon_date" THEN {"crsrcust", "crsrdesc"} ELSE {})
  IN Answered(Document \ {"stats"}) /\ Controls(t) = {}
     => \/ Parses(answer)
        \/ Holds(t, Cdend) /\ ~Odd({"brief_desc", "detailed_desc"} \cup Dates)
        \/ Holds(t, <<"<">>) /\ Odd(unquoted)

Visible(t) == Without(t, {"esc"})

\* A U+001B or U+0011 in a description does not break /srinfo, unless it comes right
\* after or two after another, keeps an end of CDATA apart, or there is some other
\* control character, of which the code knows nothing.
ControlsAreEscaped ==
  LET t == call.row.text IN
  Answered({"srinfo"}) /\ Odd({"detailed_desc"})
    /\ Controls(t) = Escapes(t)
    /\ (\A i, j \in Escapes(t) : i < j => j - i > 2)
    /\ (Escapes(t) = {} \/ ~Holds(Visible(t), Cdend))
  => Parses(answer)

Unprotect(t) == [i \in DOMAIN t |-> IF t[i] = "gt" THEN ">" ELSE t[i]]

\* A client reads the description as Siebel has it: "]]>" was escaped once, on
\* whichever way it came, and nothing but U+001B and U+0011 is missing.
TextIsKept ==
  Answered({"userqueue", "srinfo", "qmon", "qmon_date"}) /\ Odd({"detailed_desc"})
    => LET t == call.row.text IN
       IF t = <<>> THEN ~Shows("ddesc")
       ELSE IF Shows("ddesc") THEN Visible(Unprotect(TextAt("ddesc"))) = Visible(t)
       ELSE call.of = "srinfo" /\ Visible(t) = <<>>

\* A description with U+001B or U+0011 in it arrives: readable and in one piece.
DescriptionArrives == ControlsAreEscaped /\ TextIsKept

\* The two documents that have an SR from Siebel tell the same of it, but for the
\* fields that only one of them asks for, the last update, which they take from two
\* columns, the criticality of a CR, characters that are escaped, and a bug number
\* that is none.
SameSr ==
  Answered({"srinfo"}) /\ call.row.found =>
    LET except == {"crsr", "crsr_cust", "crsr_desc", "owner", "subowner", "lastupdate"}
          \cup (IF call.row.cr THEN {"critsit"} ELSE {})
          \cup (IF isBugID(Value(call.row, "bug")) THEN {} ELSE {"bug", "bug_desc"})
          \cup (IF Escapes(Value(call.row, "detailed_desc")) = {} THEN {} ELSE {"ddesc"})
        alike(doc) == {e \in doc : e.tag \notin except}
    IN alike(answer) = alike(sr(getUserQueue(call.row)))

\* Whoever can read /qmon_date can read /qmon: it quotes no less, and only a subowner
\* is added that may break it, by an end of CDATA or a control character.
QmonIsReadable ==
  /\ Answered({"qmon"})
  /\ Parses(qmonDate(getSrsForQueue(call.row)))
  /\ Odd({"subowner"}) => Parses(CData("subowner", call.row.text))
  => Parses(answer)

\* The digits are those of Siebel and in their order, whatever the format, and also
\* where the offset is never set.
PhoneDials ==
  Answered({"phone"}) =>
    Without(answer, {"-", Space}) = Without(call.p, {"-", Space})

\* An average lies between the lowest and the highest rating that was given, but one
\* of blanks counts as a zero; and a page without surveys divides by nothing.
AveragesInRange ==
  Answered({"numbers"}) =>
    LET ratings == {call.page[i].engsat : i \in 1..(Len(call.page) - 1)} \ {<<>>}
        given == {toInt(c) : c \in ratings}
    IN /\ answer.rtsavg \in 0..100
       /\ IF given = {} THEN answer.engavg = 0
          ELSE \E low, high \in given : low <= answer.engavg /\ answer.engavg <= high

\* The password in the configuration comes out as it went in, whichever random byte
\* and integrity check the tool that encrypted it chose.
PasswordReadsBack == Answered({"password"}) => answer = call.plain
=============================================================================
