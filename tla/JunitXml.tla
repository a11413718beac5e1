------------------------------- MODULE JunitXml -------------------------------
(***************************************************************************)
(* The two hand-written validators a report passes on its way from nextest *)
(* to the caller: validate_report_xml (adapter/src/report.rs), asked by    *)
(* the runner and by the artifact adapter before they publish, and         *)
(* validate_xml (executor/src/report.rs), asked by the executor before it  *)
(* exports.  Each reads the document event by event and keeps a stack of   *)
(* open elements and the first root it met.  A document is the sequence of *)
(* events the XML reader returns; Err is an event that is an error of the  *)
(* reader itself, which ends the reading.                                  *)
(***************************************************************************)
EXTENDS Integers, Sequences, SequencesExt, FiniteSets

CONSTANTS Names,         \* the names elements can have
          MaxEvents      \* bound on the length of a document

Roots == {"testsuites", "testsuite"}

ASSUME MaxEventsAssumption == MaxEvents \in Nat

\* An event: an element with its name, character data that is blank or not,
\* and the events without content.  These are more than the readers return:
\* they trim texts and check the names of end tags, so nothing here rests on
\* how they are set up.
ElementEvents == [type : {"Start", "Empty", "End"}, name : Names]
DataEvents == [type : {"Text", "CData"}, blank : BOOLEAN]
OtherEvents == [type : {"Comment", "Decl", "DocType", "PI", "Err"}]
Events == ElementEvents \cup DataEvents \cup OtherEvents

VARIABLES document,      \* the events read so far
          adapter,       \* what validate_report_xml carries
          executor       \* what validate_xml carries

xmlVars == <<document, adapter, executor>>
-------------------------------------------------------------------------------
\* What both loops carry: the open elements, the root (an Option, as a
\* sequence), the testsuite elements, and whether an error was returned.
Fresh == [stack |-> <<>>, root |-> <<>>, suites |-> 0, refused |-> FALSE]
Refuse(s) == [s EXCEPT !.refused = TRUE]
AtTop(s) == s.stack = <<>>

\* A bug a copy of the loop could have: blank data before the root passes.
OnlyAfterRoot(s, e) == AtTop(s) /\ ~e.blank

\* Character data stands inside the root; after it, only blanks.
Misplaced(s, e) == s.root = <<>> \/ (AtTop(s) /\ ~e.blank)

CharacterData(s, e) == IF Misplaced(s, e) THEN Refuse(s) ELSE s

\* The events both loops refuse outright.
Unsupported == {"DocType", "PI", "Err"}

\* One turn of the adapter's loop: it counts testsuite elements, and looks
\* at the root before it replaces it.
AdapterElement(s, e) ==
  IF AtTop(s) /\ s.root # <<>> THEN Refuse(s)
  ELSE [s EXCEPT !.root = IF AtTop(s) THEN <<e.name>> ELSE @,
                 !.suites = IF e.name = "testsuite" THEN @ + 1 ELSE @,
                 !.stack = IF e.type = "Start" THEN Append(@, e.name) ELSE @]
AdapterEnd(s, e) ==
  IF AtTop(s) \/ Last(s.stack) # e.name THEN Refuse(s) ELSE [s EXCEPT !.stack = Front(@)]
AdapterEvent(s, e) ==
  IF s.refused THEN s
  ELSE CASE e.type \in {"Start", "Empty"} -> AdapterElement(s, e)
         [] e.type = "End" -> AdapterEnd(s, e)
         [] e.type \in {"Text", "CData"} -> CharacterData(s, e)
         [] e.type \in {"Comment", "Decl"} -> s
         [] e.type \in Unsupported -> Refuse(s)

\* One turn of the executor's loop: it replaces the root and refuses when
\* there was one.
ExecutorElement(s, e) ==
  [s EXCEPT !.root = IF AtTop(s) THEN <<e.name>> ELSE @,
            !.refused = AtTop(s) /\ s.root # <<>>,
            !.stack = IF e.type = "Start" THEN Append(@, e.name) ELSE @]
ExecutorEnd(s, e) ==
  IF AtTop(s) THEN Refuse(s) ELSE [s EXCEPT !.refused = Last(s.stack) # e.name, !.stack = Front(@)]
ExecutorEvent(s, e) ==
  IF s.refused THEN s
  ELSE CASE e.type \in {"Start", "Empty"} -> ExecutorElement(s, e)
         [] e.type = "End" -> ExecutorEnd(s, e)
         [] e.type \in {"Text", "CData"} -> CharacterData(s, e)
         [] e.type \in {"Comment", "Decl"} -> s
         [] e.type \in Unsupported -> Refuse(s)

\* What is asked at the end of the document.
Whole(s) == ~s.refused /\ AtTop(s) /\ s.root # <<>> /\ s.root[1] \in Roots

\* validate_report_xml: the root and the number of suites, or a refusal.
ValidateReportXml ==
  IF Whole(adapter) THEN [ok |-> TRUE, root |-> adapter.root[1], suites |-> adapter.suites] ELSE [ok |-> FALSE]

\* validate_xml.
ValidateXml == Whole(executor)
-------------------------------------------------------------------------------
XmlInit ==
  /\ document = <<>>
  /\ adapter = Fresh
  /\ executor = Fresh

\* The two loops read the same bytes, one after the other; here each event
\* goes to both.  A loop that has returned an error reads no further.
ReadEvent(e) ==
  /\ Len(document) < MaxEvents
  /\ ~adapter.refused \/ ~executor.refused
  /\ document' = Append(document, e)
  /\ adapter' = AdapterEvent(adapter, e)
  /\ executor' = ExecutorEvent(executor, e)

XmlNext == \E e \in Events : ReadEvent(e)
XmlSpec == XmlInit /\ [][XmlNext]_xmlVars
-------------------------------------------------------------------------------
\* What a report is, without a loop or a stack.  d[i..j] is one element when
\* it starts and ends with the same name and what is between is balanced.
Opens(d, i) == d[i].type = "Start"
Closes(d, i) == d[i].type = "End"
Before(d, i, type) == {k \in 1 .. (i - 1) : d[k].type = type}
DepthBefore(d, i) == Cardinality(Before(d, i, "Start")) - Cardinality(Before(d, i, "End"))
Elements(d) == {i \in DOMAIN d : d[i].type \in {"Start", "Empty"}}
Tops(d) == {i \in Elements(d) : DepthBefore(d, i) = 0}
\* The start tag that the end tag at j closes is the last one at its depth.
Partner(d, i, j) == /\ i < j /\ Opens(d, i) /\ DepthBefore(d, i) = DepthBefore(d, j) - 1
                    /\ \A k \in (i + 1) .. (j - 1) : DepthBefore(d, k) > DepthBefore(d, i)
WellFormedReport(d) ==
  /\ \A i \in DOMAIN d : d[i].type \notin Unsupported
  /\ \A i \in 1 .. (Len(d) + 1) : DepthBefore(d, i) >= 0
  /\ DepthBefore(d, Len(d) + 1) = 0
  /\ \A j \in {j \in DOMAIN d : Closes(d, j)} : \E i \in DOMAIN d : Partner(d, i, j) /\ d[i].name = d[j].name
  /\ Cardinality(Tops(d)) = 1
  /\ \A i \in Tops(d) : d[i].name \in Roots
  /\ \A i \in {i \in DOMAIN d : d[i].type \in {"Text", "CData"}} :
       /\ \E t \in Tops(d) : t < i
       /\ DepthBefore(d, i) > 0 \/ d[i].blank
Suites(d) == Cardinality({i \in Elements(d) : d[i].name = "testsuite"})

\* The executor exports exactly the documents the adapter publishes, both
\* accept exactly well-formed reports with one testsuites or testsuite root,
\* and the adapter's count is the number of testsuite elements
\* (validate_report_xml and validate_xml).
ValidatorsAgree ==
  /\ ValidateXml <=> ValidateReportXml.ok
  /\ ValidateXml <=> WellFormedReport(document)
  /\ ValidateXml => ValidateReportXml.suites = Suites(document)

\* The documents read so far and what the loops carry.
Root == {<<>>} \cup {<<n>> : n \in Names}
Carried == [stack : Seq(Names), root : Root, suites : Nat, refused : BOOLEAN]
XmlTypeOK == document \in Seq(Events) /\ adapter \in Carried /\ executor \in Carried
===============================================================================
