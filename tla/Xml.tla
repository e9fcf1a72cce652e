--------------------------------- MODULE Xml ---------------------------------
(***************************************************************************)
(* From a row of Siebel to an item, and from the item to the elements of   *)
(* its document.  Columns that are treated alike are one: "contact" stands *)
(* for the seven of the contact, "name" for those that are always shown as *)
(* CDATA.  Ages and time in queue are numbers and left out.  Siebel has    *)
(* two columns that an item's last_update is filled from.                  *)
(***************************************************************************)
EXTENDS Text

Dates == {"created", "last_update", "actl_resp_ts"}

Column == {"name", "customer", "contact", "creator", "crsr", "crsrcust", "crsrdesc",
           "brief_desc", "detailed_desc", "bug", "bugdesc", "alt_contact", "owner",
           "subowner", "bomgar"} \cup Dates

\* What an item has of them.
Field == Column \ {"actl_resp_ts"}

(* A row has one text that is odd; the others are plain.                   *)

Plain(c) == CASE c \in {"created", "actl_resp_ts"} -> <<"us">>
              [] c = "last_update" -> <<"iso">>
              [] c = "bug" -> <<"bug">>
              [] OTHER -> <<"x">>

Value(row, c) == IF c = row.odd THEN row.text ELSE Plain(c)

Item(text, cr, critsit, high, chat) ==
  [text |-> text, isCr |-> cr, critsit |-> critsit, high_value |-> high, isChat |-> chat]

-----------------------------------------------------------------------------
(* Items                                                                   *)

\* What all of them do with the columns.
Text(row, c) ==
  CASE c \in {"brief_desc", "detailed_desc"} -> Protect(Value(row, c))
    [] c \in Dates -> convertTime(Value(row, c))
    [] OTHER -> Value(row, c)

\* The last update is ACTL_RESP_TS here, and LAST_UPD wherever else an item is made;
\* getBugDesc has nothing for what is no bug number.
UserQueueText(row) ==
  [c \in Field |-> CASE c = "last_update" -> Text(row, "actl_resp_ts")
                      [] c = "bugdesc" /\ ~isBugID(Value(row, "bug")) -> <<>>
                      [] OTHER -> Text(row, c)]

\* Faulty variant: critsit for CRs only.
getUserQueueCr(row) ==
  Item(UserQueueText(row), row.cr, row.critsit /\ row.cr, row.high, FALSE)

getUserQueue(row) ==
  Item(UserQueueText(row), row.cr, row.critsit /\ ~row.cr, row.high, FALSE)

\* A CR's SR is not asked for, nor are the owners.
SrInfoText(row) ==
  LET notRead == {"crsr", "crsrcust", "crsrdesc", "owner", "subowner"}
                   \cup (IF isBugID(Value(row, "bug")) THEN {} ELSE {"bug", "bugdesc"})
  IN [c \in Field |-> CASE c \in notRead -> <<>>
                         [] c = "detailed_desc" -> escapeString(Text(row, c))
                         [] OTHER -> Text(row, c)]

\* Of an SR that is not found, the flags are what the stack holds.
getSrInfo(row) ==
  IF row.found
    THEN {Item(SrInfoText(row), row.cr, row.critsit, row.high, FALSE)}
    ELSE {Item([c \in Field |-> <<>>], f.cr, f.critsit, f.high, FALSE) :
            f \in [cr : BOOLEAN, critsit : BOOLEAN, high : BOOLEAN]}

\* What /updateDB stored, its dates converted, and getSrsForQueue reads: all but the
\* bug, the owner and the alternative contact.
getSrsForQueue(row) ==
  LET notRead == {"bug", "bugdesc", "alt_contact", "owner"}
                   \cup (IF row.chat THEN {} ELSE {"bomgar"})
  IN Item([c \in Field |-> IF c \in notRead THEN <<>> ELSE Text(row, c)],
          row.cr, row.critsit, row.high, row.chat)

-----------------------------------------------------------------------------
(* Documents: sets of elements                                             *)

Raw(tag, text)   == {[tag |-> tag, cdata |-> FALSE, text |-> text]}
CData(tag, text) == {[tag |-> tag, cdata |-> TRUE, text |-> text]}

Only(cond, elements) == IF cond THEN elements ELSE {}

\* 0 and 1 stand for nothing in the third part of the query.
Given(tag, text) == Only(text \notin {<<>>, <<"0">>, <<"1">>}, CData(tag, text))

Flag(tag, flag) == Only(flag, Raw(tag, <<"1">>))

Customer(t) ==
  Raw("srtype", <<"sr">>) \cup CData("cus_account", t.customer) \cup Given("contact", t.contact)

Body(i) ==
  CData("name", i.text.name) \cup CData("bdesc", i.text.brief_desc)
    \cup Given("ddesc", i.text.detailed_desc)
    \cup Raw("created", i.text.created) \cup Raw("lastupdate", i.text.last_update)
    \cup Flag("highvalue", i.high_value) \cup Flag("critsit", i.critsit)

Chat(i) == Only(i.isChat, Raw("bomgarQ", i.text.bomgar))

AltContact(t) == Only(t.alt_contact # <<>>, CData("alt_contact", t.alt_contact))

\* Faulty variant: no CDATA.
SubownerRaw(t) == Only(t.subowner # <<>>, Raw("subowner", t.subowner))

Subowner(t) == Only(t.subowner # <<>>, CData("subowner", t.subowner))

Cr(t) ==
  Raw("srtype", <<"cr">>) \cup Raw("creator", t.creator) \cup Raw("crsr", t.crsr)
    \cup CData("crsr_cust", t.crsrcust) \cup CData("crsr_desc", t.crsrdesc)

\* The customer and the title of a CR's SR are no CDATA here.
CrDate(t) ==
  Raw("srtype", <<"cr">>) \cup Raw("creator", t.creator) \cup Raw("crsr", t.crsr)
    \cup Raw("crsr_cust", t.crsrcust) \cup Raw("crsr_desc", t.crsrdesc)

qmon(i) ==
  Body(i) \cup Chat(i)
    \cup (IF i.isCr THEN Cr(i.text) ELSE Customer(i.text) \cup AltContact(i.text))
    \cup Only(i.text.bug # <<>>, CData("bug", i.text.bug))
    \cup Subowner(i.text)

qmonDate(i) ==
  Body(i) \cup Chat(i) \cup (IF i.isCr THEN CrDate(i.text) ELSE Customer(i.text))

sr(i) ==
  Body(i)
    \cup (IF i.isCr THEN Cr(i.text) ELSE Customer(i.text) \cup AltContact(i.text))
    \cup CData("owner", i.text.owner) \cup Subowner(i.text)
    \cup Only(i.text.bug # <<>>,
              CData("bug", i.text.bug)
                \cup Only(i.text.bugdesc # <<>>, CData("bug_desc", i.text.bugdesc)))

\* A closed SR or a survey of /stats, of what srInfo reads.
statsOf(row) ==
  Raw("sr", Value(row, "name")) \cup CData("customer", Value(row, "customer"))
    \cup CData("bdesc", Value(row, "brief_desc"))

-----------------------------------------------------------------------------
(* The client: an XML parser                                               *)

ElementParses(e) ==
  /\ Controls(e.text) = {}
  /\ ~Holds(e.text, Cdend)
  /\ e.cdata \/ ~Holds(e.text, <<"<">>)

Parses(doc) == \A e \in doc : ElementParses(e)
=============================================================================
