-------------------------------- MODULE Text ---------------------------------
(***************************************************************************)
(* The static helpers of Database that turn text from the databases into   *)
(* what the documents show.  A text is a sequence of characters; some      *)
(* stand for more: "<" for all mark-up, "esc" for the two control          *)
(* characters U+001B and U+0011 that escapeString removes, "ctl" for the   *)
(* others that XML forbids, "bug" for six digits, "us" and "iso" for two   *)
(* dates in the formats of convertTime, "first" and "second" for what it   *)
(* makes of them, and "gt" for the entity "&gt;", which no text from a     *)
(* database has in it.                                                     *)
(***************************************************************************)
EXTENDS Integers, SequencesExt, FiniteSetsExt

Space == " "

Cdend == <<"]", "]", ">">>

Holds(t, part) ==
  \E i \in 1..(Len(t) - Len(part) + 1) :
    SubSeq(t, i, i + Len(part) - 1) = part

\* Faulty variant: only a text that is all "]]>" is replaced.
ProtectWhole(t) == IF t = Cdend THEN <<"]", "]", "gt">> ELSE t

\* .replace( "]]>", "]]&gt;" )
Protect(t) ==
  [i \in DOMAIN t |-> IF i > 2 /\ SubSeq(t, i - 2, i) = Cdend THEN "gt" ELSE t[i]]

\* What XML forbids, and what of it the pattern of escapeString matches.
Controls(t) == {i \in DOMAIN t : t[i] \in {"esc", "ctl"}}
Escapes(t)  == {i \in DOMAIN t : t[i] = "esc"}

\* Faulty variant: the loop ends after the first.
EscapeOnce(str) ==
  IF Escapes(str) = {} THEN str ELSE RemoveAt(str, Min(Escapes(str)))

\* A character is removed, the next moves to its place, and the search goes on two
\* places further: what is left after n rounds, and from where on they search.
escapeString(str) ==
  LET loop[n \in 0..Len(str)] ==
        IF n = 0 THEN [str |-> str, s |-> 1]
        ELSE LET last  == loop[n - 1]
                 found == {i \in Escapes(last.str) : i >= last.s}
             IN IF found = {} THEN last
                ELSE [str |-> RemoveAt(last.str, Min(found)), s |-> Min(found) + 2]
  IN loop[Len(str)].str

\* QString::insert: a position behind the end is filled up with blanks, a negative
\* one counts from the end.
Insert(p, pos, c) ==
  LET at == IF pos < 0 THEN pos + Len(p) ELSE pos IN
  IF at < 0 THEN p
  ELSE IF at <= Len(p) THEN InsertAt(p, at + 1, c)
  ELSE p \o [i \in 1..(at - Len(p)) |-> Space] \o <<c>>

\* Faulty variant: the format's characters take the place of digits.
formatPhoneOver(p, f, off) ==
  [i \in DOMAIN p |-> IF i < Len(f) /\ f[i] # "0" THEN f[i] ELSE p[i]]

\* Every character of the format but the last one, unless it is a zero, is inserted
\* where the format has it.  off is what the stack holds if p has no "+".
formatPhone(p, f, off) ==
  LET start == IF p # <<>> /\ p[1] = "+"
                 THEN [p |-> Insert(p, 3, Space), off |-> 4]
                 ELSE [p |-> p, off |-> off]
      loop[i \in 0..(Len(f) - 1)] ==
        IF i = 0 THEN start
        ELSE LET last == loop[i - 1] IN
             IF f[i] = "0" THEN last
             ELSE [p |-> Insert(last.p, last.off + i - 1, f[i]), off |-> last.off + 1]
  IN loop[Len(f) - 1].p

\* The callers' test: without a line feed both columns are the whole entry.
Phone(p, f, off) == IF p # f /\ f # <<>> THEN formatPhone(p, f, off) ELSE p

convertTime(dt) ==
  CASE dt = <<"us">>  -> <<"first">>
    [] dt = <<"iso">> -> <<"second">>
    [] OTHER          -> <<>>

isBugID(bug) == SelectSeq(bug, LAMBDA c : c # Space) = <<"bug">>
=============================================================================
