------------------------------ MODULE InputProofs ------------------------------
(***************************************************************************)
(* The two validators of a report, for documents of any length and nesting *)
(* and any element names; the executor's line, of any length and over any  *)
(* arguments; and the names of reports and tests, for any identities.      *)
(*                                                                         *)
(* What a well-formed report asks splits into what the events read so far  *)
(* can break (SoundSoFar, which no later event repairs) and what is asked  *)
(* at the end.  The inductive invariant says that both loops have refused  *)
(* exactly when the document is not SoundSoFar, and otherwise carry its    *)
(* open elements (StackIsOpen), its root and its suites.                   *)
(*                                                                         *)
(* The line's invariant says where parse is and what it has stored, as a   *)
(* function of the line (ReadInv), and of a refused line that none of      *)
(* Buck's begins with it (RefusedInv).                                     *)
(*                                                                         *)
(* The names rest on lemmas about data: induction and recursion over the   *)
(* naturals, what FlattenSeq and the two decoding loops compute, and what  *)
(* can be read back from an encoded text, with and without its case.       *)
(*                                                                         *)
(* The adapter's lines: the flags and fields of the loop say which options *)
(* were given (Remembered), so a round is taken exactly when it fits       *)
(* behind the rounds before it (FitsBehind).                               *)
(***************************************************************************)
EXTENDS JunitXml, ExecutorLine, AdapterLine, ReportNames, FiniteSetTheorems, SequenceTheorems, WellFoundedInduction, TLAPS

Delta(e) == IF e.type = "Start" THEN 1 ELSE IF e.type = "End" THEN -1 ELSE 0

\* The end tag at j closes the element that is open there.
Closed(d, j) == \E i \in DOMAIN d : Partner(d, i, j) /\ d[i].name = d[j].name
TextPlaced(d, i) == (\E t \in Tops(d) : t < i) /\ (DepthBefore(d, i) > 0 \/ d[i].blank)

\* What the events read so far can break.
SoundSoFar(d) ==
  /\ \A i \in DOMAIN d : d[i].type \notin Unsupported
  /\ \A i \in 1 .. (Len(d) + 1) : DepthBefore(d, i) >= 0
  /\ \A j \in DOMAIN d : Closes(d, j) => Closed(d, j)
  /\ \A s, t \in Tops(d) : s = t
  /\ \A i \in DOMAIN d : d[i].type \in {"Text", "CData"} => TextPlaced(d, i)

\* What one more event must satisfy.
SoundNext(d, e) ==
  LET depth == DepthBefore(d, Len(d) + 1)
      n == Len(d) + 1
  IN /\ e.type \notin Unsupported
     /\ depth + Delta(e) >= 0
     /\ e.type = "End" => \E i \in DOMAIN d : Partner(d, i, n) /\ d[i].name = e.name
     /\ e.type \in {"Start", "Empty"} /\ depth = 0 => Tops(d) = {}
     /\ e.type \in {"Text", "CData"} => Tops(d) # {} /\ (depth > 0 \/ e.blank)

\* Level k of a stack holds the name of the element open at depth k - 1.
OpenAt(d, k, name) ==
  \E i \in DOMAIN d : /\ Opens(d, i) /\ d[i].name = name /\ DepthBefore(d, i) = k - 1
                      /\ \A j \in (i + 1) .. (Len(d) + 1) : DepthBefore(d, j) >= k
StackIsOpen(d, stack) ==
  /\ DepthBefore(d, Len(d) + 1) = Len(stack)
  /\ \A k \in DOMAIN stack : OpenAt(d, k, stack[k])
RootIsTop(d, root) ==
  /\ root = <<>> <=> Tops(d) = {}
  /\ \A t \in Tops(d) : root = <<d[t].name>>

Carries(s, d) ==
  /\ ~s.refused <=> SoundSoFar(d)
  /\ ~s.refused => StackIsOpen(d, s.stack) /\ RootIsTop(d, s.root)

\* The inductive invariant.
IInv ==
  /\ XmlTypeOK
  /\ Carries(adapter, document)
  /\ Carries(executor, document)
  /\ ~adapter.refused => adapter.suites = Suites(document)
-------------------------------------------------------------------------------
\* The depths are integers, start at 0, and step by what an event opens or
\* closes.
LEMMA DepthSteps ==
  ASSUME NEW d \in Seq(Events)
  PROVE  /\ \A i \in 1 .. (Len(d) + 1) : DepthBefore(d, i) \in Int
         /\ DepthBefore(d, 1) = 0
         /\ \A i \in DOMAIN d : DepthBefore(d, i + 1) = DepthBefore(d, i) + Delta(d[i])
<1>1. ASSUME NEW i \in Nat, NEW type
      PROVE  IsFiniteSet(Before(d, i, type)) /\ Cardinality(Before(d, i, type)) \in Nat
  <2>1. IsFiniteSet(1 .. (i - 1))
    BY FS_Interval
  <2>2. Before(d, i, type) \subseteq 1 .. (i - 1)
    BY DEF Before
  <2> QED BY <2>1, <2>2, FS_Subset, FS_CardinalityType
<1>2. \A i \in 1 .. (Len(d) + 1) : DepthBefore(d, i) \in Int
  BY <1>1 DEF DepthBefore
<1>3. DepthBefore(d, 1) = 0
  <2>1. \A type : Before(d, 1, type) = {}
    BY DEF Before
  <2> QED BY <2>1, FS_EmptySet DEF DepthBefore
<1>4. ASSUME NEW i \in DOMAIN d
      PROVE  DepthBefore(d, i + 1) = DepthBefore(d, i) + Delta(d[i])
  <2>1. i \in Nat /\ i >= 1
    OBVIOUS
  <2>2. ASSUME NEW type, d[i].type = type
        PROVE  Cardinality(Before(d, i + 1, type)) = Cardinality(Before(d, i, type)) + 1
    <3>1. Before(d, i + 1, type) = Before(d, i, type) \cup {i}
      BY <2>1, <2>2 DEF Before
    <3>2. i \notin Before(d, i, type)
      BY <2>1 DEF Before
    <3> QED BY <3>1, <3>2, <1>1, <2>1, FS_AddElement
  <2>3. ASSUME NEW type, d[i].type # type
        PROVE  Before(d, i + 1, type) = Before(d, i, type)
    BY <2>1, <2>3 DEF Before
  <2>4. CASE d[i].type = "Start"
    <3>1. Cardinality(Before(d, i + 1, "Start")) = Cardinality(Before(d, i, "Start")) + 1
      BY <2>4, <2>2
    <3>2. Before(d, i + 1, "End") = Before(d, i, "End")
      BY <2>4, <2>3
    <3>3. Cardinality(Before(d, i, "Start")) \in Nat /\ Cardinality(Before(d, i, "End")) \in Nat
      BY <1>1, <2>1
    <3> QED BY <2>4, <3>1, <3>2, <3>3 DEF DepthBefore, Delta
  <2>5. CASE d[i].type = "End"
    <3>1. Cardinality(Before(d, i + 1, "End")) = Cardinality(Before(d, i, "End")) + 1
      BY <2>5, <2>2
    <3>2. Before(d, i + 1, "Start") = Before(d, i, "Start")
      BY <2>5, <2>3
    <3>3. Cardinality(Before(d, i, "Start")) \in Nat /\ Cardinality(Before(d, i, "End")) \in Nat
      BY <1>1, <2>1
    <3> QED BY <2>5, <3>1, <3>2, <3>3 DEF DepthBefore, Delta
  <2>6. CASE d[i].type \notin {"Start", "End"}
    <3>1. Before(d, i + 1, "Start") = Before(d, i, "Start") /\ Before(d, i + 1, "End") = Before(d, i, "End")
      BY <2>6, <2>3
    <3>2. Cardinality(Before(d, i, "Start")) \in Nat /\ Cardinality(Before(d, i, "End")) \in Nat
      BY <1>1, <2>1
    <3> QED BY <2>6, <3>1, <3>2 DEF DepthBefore, Delta
  <2> QED BY <2>4, <2>5, <2>6
<1> QED BY <1>2, <1>3, <1>4

\* What stands in a document is not changed by an event after it.
LEMMA Extending ==
  ASSUME NEW d \in Seq(Events), NEW e \in Events
  PROVE  LET f == Append(d, e)
             n == Len(d) + 1
         IN /\ f \in Seq(Events) /\ Len(f) = n /\ f[n] = e
            /\ DOMAIN f = DOMAIN d \cup {n} /\ n \notin DOMAIN d /\ DOMAIN d = 1 .. Len(d)
            /\ \A i \in DOMAIN d : f[i] = d[i]
            /\ \A i \in 1 .. n : DepthBefore(f, i) = DepthBefore(d, i)
            /\ DepthBefore(f, n + 1) = DepthBefore(d, n) + Delta(e)
<1> DEFINE f == Append(d, e)
           n == Len(d) + 1
<1>1. /\ f \in Seq(Events) /\ Len(f) = n /\ f[n] = e
      /\ DOMAIN f = DOMAIN d \cup {n} /\ n \notin DOMAIN d /\ DOMAIN d = 1 .. Len(d)
      /\ \A i \in DOMAIN d : f[i] = d[i]
  OBVIOUS
<1>2. ASSUME NEW i \in 1 .. n
      PROVE  DepthBefore(f, i) = DepthBefore(d, i)
  <2>1. \A type : Before(f, i, type) = Before(d, i, type)
    BY <1>1 DEF Before
  <2> QED BY <2>1 DEF DepthBefore
<1>3. DepthBefore(f, n + 1) = DepthBefore(f, n) + Delta(f[n])
  BY <1>1, DepthSteps
<1> QED BY <1>1, <1>2, <1>3

\* So the top elements, and who closes whom, stay what they were.
LEMMA ExtendingTops ==
  ASSUME NEW d \in Seq(Events), NEW e \in Events
  PROVE  LET f == Append(d, e)
             n == Len(d) + 1
         IN /\ Tops(d) \subseteq DOMAIN d
            /\ Tops(f) = Tops(d) \cup (IF e.type \in {"Start", "Empty"} /\ DepthBefore(d, n) = 0 THEN {n} ELSE {})
            /\ \A i \in DOMAIN d, j \in 1 .. n : Partner(f, i, j) <=> Partner(d, i, j)
            /\ \A j \in DOMAIN d : Closed(f, j) <=> Closed(d, j)
<1> DEFINE f == Append(d, e)
           n == Len(d) + 1
<1>1. /\ f \in Seq(Events) /\ Len(f) = n /\ f[n] = e
      /\ DOMAIN f = DOMAIN d \cup {n} /\ n \notin DOMAIN d /\ DOMAIN d = 1 .. Len(d)
      /\ \A i \in DOMAIN d : f[i] = d[i]
      /\ \A i \in 1 .. n : DepthBefore(f, i) = DepthBefore(d, i)
  BY Extending
<1> HIDE DEF f, n
<1>2. n = Len(d) + 1 /\ Len(d) \in Nat
  BY DEF n
<1>3. Tops(d) \subseteq DOMAIN d
  BY DEF Tops, Elements
<1>4. Tops(f) = Tops(d) \cup (IF e.type \in {"Start", "Empty"} /\ DepthBefore(d, n) = 0 THEN {n} ELSE {})
  BY <1>1, <1>2 DEF Tops, Elements
<1>5. ASSUME NEW i \in DOMAIN d, NEW j \in 1 .. n
      PROVE  Partner(f, i, j) <=> Partner(d, i, j)
  BY <1>1, <1>2 DEF Partner, Opens
<1>6. ASSUME NEW j \in DOMAIN d
      PROVE  Closed(f, j) <=> Closed(d, j)
  <2>1. ~Partner(f, n, j)
    BY <1>1, <1>2 DEF Partner
  <2> QED BY <2>1, <1>1, <1>2, <1>5 DEF Closed
<1> QED BY <1>3, <1>4, <1>5, <1>6 DEF f, n

\* What one more event must satisfy is all it takes.
LEMMA SoundStep ==
  ASSUME NEW d \in Seq(Events), NEW e \in Events
  PROVE  SoundSoFar(Append(d, e)) <=> SoundSoFar(d) /\ SoundNext(d, e)
<1> DEFINE f == Append(d, e)
           n == Len(d) + 1
<1>1. /\ f \in Seq(Events) /\ Len(f) = n /\ f[n] = e
      /\ DOMAIN f = DOMAIN d \cup {n} /\ n \notin DOMAIN d /\ DOMAIN d = 1 .. Len(d)
      /\ \A i \in DOMAIN d : f[i] = d[i]
      /\ \A i \in 1 .. n : DepthBefore(f, i) = DepthBefore(d, i)
      /\ DepthBefore(f, n + 1) = DepthBefore(d, n) + Delta(e)
  BY Extending
<1>2. /\ Tops(d) \subseteq DOMAIN d
      /\ Tops(f) = Tops(d) \cup (IF e.type \in {"Start", "Empty"} /\ DepthBefore(d, n) = 0 THEN {n} ELSE {})
      /\ \A i \in DOMAIN d, j \in 1 .. n : Partner(f, i, j) <=> Partner(d, i, j)
      /\ \A j \in DOMAIN d : Closed(f, j) <=> Closed(d, j)
  BY ExtendingTops
<1>3. n = Len(d) + 1 /\ Len(d) \in Nat
  OBVIOUS
<1> HIDE DEF f, n
<1>4. (\A i \in DOMAIN f : f[i].type \notin Unsupported)
      <=> (\A i \in DOMAIN d : d[i].type \notin Unsupported) /\ e.type \notin Unsupported
  BY <1>1
<1>5. (\A i \in 1 .. (Len(f) + 1) : DepthBefore(f, i) >= 0)
      <=> (\A i \in 1 .. n : DepthBefore(d, i) >= 0) /\ DepthBefore(d, n) + Delta(e) >= 0
  <2>1. 1 .. (Len(f) + 1) = (1 .. n) \cup {n + 1}
    BY <1>1, <1>3
  <2> QED BY <2>1, <1>1, <1>3
<1>6. (\A j \in DOMAIN f : Closes(f, j) => Closed(f, j))
      <=> /\ \A j \in DOMAIN d : Closes(d, j) => Closed(d, j)
          /\ e.type = "End" => \E i \in DOMAIN d : Partner(d, i, n) /\ d[i].name = e.name
  <2>1. Closed(f, n) <=> \E i \in DOMAIN d : Partner(d, i, n) /\ d[i].name = e.name
    <3>1. ~Partner(f, n, n)
      BY <1>3 DEF Partner
    <3> QED BY <3>1, <1>1, <1>2, <1>3 DEF Closed
  <2>2. Closes(f, n) <=> e.type = "End"
    BY <1>1 DEF Closes
  <2>3. \A j \in DOMAIN d : Closes(f, j) <=> Closes(d, j)
    BY <1>1 DEF Closes
  <2> QED BY <2>1, <2>2, <2>3, <1>1, <1>2
<1>7. (\A s, t \in Tops(f) : s = t)
      <=> /\ \A s, t \in Tops(d) : s = t
          /\ e.type \in {"Start", "Empty"} /\ DepthBefore(d, n) = 0 => Tops(d) = {}
  BY <1>1, <1>2
<1>8. (\A i \in DOMAIN f : f[i].type \in {"Text", "CData"} => TextPlaced(f, i))
      <=> /\ \A i \in DOMAIN d : d[i].type \in {"Text", "CData"} => TextPlaced(d, i)
          /\ e.type \in {"Text", "CData"} => Tops(d) # {} /\ (DepthBefore(d, n) > 0 \/ e.blank)
  <2>1. ASSUME NEW i \in DOMAIN d
        PROVE  TextPlaced(f, i) <=> TextPlaced(d, i)
    <3>1. i < n /\ i \in 1 .. n
      BY <1>1, <1>3
    <3> QED BY <3>1, <1>1, <1>2, <1>3 DEF TextPlaced
  <2>2. TextPlaced(f, n) <=> Tops(d) # {} /\ (DepthBefore(d, n) > 0 \/ e.blank)
    <3>1. (\E t \in Tops(f) : t < n) <=> Tops(d) # {}
      BY <1>1, <1>2, <1>3
    <3> QED BY <3>1, <1>1, <1>3 DEF TextPlaced
  <2> QED BY <2>1, <2>2, <1>1
<1> QED BY <1>3, <1>4, <1>5, <1>6, <1>7, <1>8 DEF SoundSoFar, SoundNext, f, n
-------------------------------------------------------------------------------
\* What both loops refuse, and what they carry on after an event they take.
Refuses(s, e) ==
  \/ e.type \in Unsupported
  \/ e.type \in {"Start", "Empty"} /\ AtTop(s) /\ s.root # <<>>
  \/ e.type = "End" /\ (AtTop(s) \/ Last(s.stack) # e.name)
  \/ e.type \in {"Text", "CData"} /\ Misplaced(s, e)
NextStack(s, e) == IF e.type = "Start" THEN Append(s.stack, e.name) ELSE IF e.type = "End" THEN Front(s.stack) ELSE s.stack
NextRoot(s, e) == IF e.type \in {"Start", "Empty"} /\ AtTop(s) THEN <<e.name>> ELSE s.root
TakesEvent(s, e, t) ==
  /\ t \in Carried
  /\ t.refused <=> s.refused \/ Refuses(s, e)
  /\ ~t.refused => t.stack = NextStack(s, e) /\ t.root = NextRoot(s, e)

LEMMA AdapterTakes ==
  ASSUME NEW s \in Carried, NEW e \in Events
  PROVE  LET t == AdapterEvent(s, e)
         IN /\ TakesEvent(s, e, t)
            /\ ~t.refused => t.suites = IF e.type \in {"Start", "Empty"} /\ e.name = "testsuite" THEN s.suites + 1 ELSE s.suites
<1> DEFINE t == AdapterEvent(s, e)
<1>0. s.stack \in Seq(Names) /\ s.root \in Root /\ s.suites \in Nat /\ s.refused \in BOOLEAN
  BY DEF Carried
<1>1. ASSUME s.refused
      PROVE  t = s
  BY <1>1, Zenon DEF AdapterEvent
<1>2. ASSUME ~s.refused, e.type \in {"Start", "Empty"}
      PROVE  t = AdapterElement(s, e)
  BY <1>2, Zenon DEF AdapterEvent, Unsupported
<1>3. ASSUME ~s.refused, e.type = "End"
      PROVE  t = AdapterEnd(s, e)
  BY <1>3, Zenon DEF AdapterEvent, Unsupported
<1>4. ASSUME ~s.refused, e.type \in {"Text", "CData"}
      PROVE  t = CharacterData(s, e)
  BY <1>4, Zenon DEF AdapterEvent, Unsupported
<1>5. ASSUME ~s.refused, e.type \in {"Comment", "Decl"}
      PROVE  t = s
  BY <1>5, Zenon DEF AdapterEvent, Unsupported
<1>6. ASSUME ~s.refused, e.type \in Unsupported
      PROVE  t = Refuse(s)
  BY <1>6, Zenon DEF AdapterEvent, Unsupported
<1>8. Refuse(s) \in Carried /\ Refuse(s).refused
  BY DEF Refuse, Carried
<1> DEFINE Counts == ~t.refused => t.suites = IF e.type \in {"Start", "Empty"} /\ e.name = "testsuite" THEN s.suites + 1 ELSE s.suites
<1> HIDE DEF t
<1>10. CASE s.refused
  BY <1>10, <1>1 DEF TakesEvent, t
<1>11. ASSUME ~s.refused, e.type \in {"Start", "Empty"} 
      PROVE  TakesEvent(s, e, t) /\ Counts
  <2>1. e.name \in Names /\ Append(s.stack, e.name) \in Seq(Names) /\ e.type \notin Unsupported
    BY <1>11, <1>0 DEF Events, ElementEvents, DataEvents, OtherEvents, Unsupported
  <2> DEFINE root == IF AtTop(s) THEN <<e.name>> ELSE s.root
             stack == IF e.type = "Start" THEN Append(s.stack, e.name) ELSE s.stack
             suites == IF e.name = "testsuite" THEN s.suites + 1 ELSE s.suites
             next == [s EXCEPT !.root = root, !.suites = suites, !.stack = stack]
  <2>2. root \in Root /\ stack \in Seq(Names) /\ suites \in Nat
    BY <2>1, <1>0 DEF Root
  <2>3. t = IF AtTop(s) /\ s.root # <<>> THEN Refuse(s) ELSE next
    BY <1>11, <1>2 DEF AdapterElement
  <2>4. NextRoot(s, e) = root /\ NextStack(s, e) = stack
    BY <1>11 DEF NextRoot, NextStack
  <2>5. Refuses(s, e) <=> AtTop(s) /\ s.root # <<>>
    BY <1>11, <2>1 DEF Refuses
  <2> HIDE DEF root, stack, suites
  <2>6. next \in Carried /\ next.refused = s.refused /\ next.root = root /\ next.stack = stack /\ next.suites = suites
    BY <2>2 DEF Carried
  <2> HIDE DEF next
  <2>7. TakesEvent(s, e, t)
    BY <1>11, <1>8, <2>3, <2>4, <2>5, <2>6 DEF TakesEvent
  <2>8. Counts
    BY <1>11, <1>8, <2>3, <2>6 DEF suites
  <2> QED BY <2>7, <2>8
<1>12. ASSUME ~s.refused, e.type = "End" 
      PROVE  TakesEvent(s, e, t) /\ Counts
  <2>1. ~AtTop(s) => Front(s.stack) \in Seq(Names)
    BY <1>0 DEF Front, AtTop
  <2> QED BY <2>1, <1>12, <1>3, <1>0, <1>8 DEF AdapterEnd, TakesEvent, Refuses, NextStack, NextRoot, Carried, Unsupported, t
<1>13. ASSUME ~s.refused, e.type \in {"Text", "CData"} 
      PROVE  TakesEvent(s, e, t) /\ Counts
  BY <1>13, <1>4, <1>8 DEF CharacterData, TakesEvent, Refuses, NextStack, NextRoot, Unsupported, t
<1>14. ASSUME ~s.refused, e.type \in {"Comment", "Decl"} 
      PROVE  TakesEvent(s, e, t) /\ Counts
  BY <1>14, <1>5 DEF TakesEvent, Refuses, NextStack, NextRoot, Unsupported, t
<1>15. ASSUME ~s.refused, e.type \in Unsupported 
      PROVE  TakesEvent(s, e, t) /\ Counts
  BY <1>15, <1>6, <1>8 DEF TakesEvent, Refuses, t
<1>16. e.type \in {"Start", "Empty", "End", "Text", "CData", "Comment", "Decl"} \cup Unsupported
  BY DEF Events, ElementEvents, DataEvents, OtherEvents, Unsupported
<1> QED BY <1>10, <1>11, <1>12, <1>13, <1>14, <1>15, <1>16 DEF t

LEMMA ExecutorTakes ==
  ASSUME NEW s \in Carried, NEW e \in Events
  PROVE  LET t == ExecutorEvent(s, e)
         IN TakesEvent(s, e, t)
<1> DEFINE t == ExecutorEvent(s, e)
<1>0. s.stack \in Seq(Names) /\ s.root \in Root /\ s.suites \in Nat /\ s.refused \in BOOLEAN
  BY DEF Carried
<1>1. ASSUME s.refused
      PROVE  t = s
  BY <1>1, Zenon DEF ExecutorEvent
<1>2. ASSUME ~s.refused, e.type \in {"Start", "Empty"}
      PROVE  t = ExecutorElement(s, e)
  BY <1>2, Zenon DEF ExecutorEvent, Unsupported
<1>3. ASSUME ~s.refused, e.type = "End"
      PROVE  t = ExecutorEnd(s, e)
  BY <1>3, Zenon DEF ExecutorEvent, Unsupported
<1>4. ASSUME ~s.refused, e.type \in {"Text", "CData"}
      PROVE  t = CharacterData(s, e)
  BY <1>4, Zenon DEF ExecutorEvent, Unsupported
<1>5. ASSUME ~s.refused, e.type \in {"Comment", "Decl"}
      PROVE  t = s
  BY <1>5, Zenon DEF ExecutorEvent, Unsupported
<1>6. ASSUME ~s.refused, e.type \in Unsupported
      PROVE  t = Refuse(s)
  BY <1>6, Zenon DEF ExecutorEvent, Unsupported
<1>8. Refuse(s) \in Carried /\ Refuse(s).refused
  BY DEF Refuse, Carried
<1> HIDE DEF t
<1>10. CASE s.refused
  BY <1>10, <1>1 DEF TakesEvent, t
<1>11. ASSUME ~s.refused, e.type \in {"Start", "Empty"} 
      PROVE  TakesEvent(s, e, t)
  <2>1. e.name \in Names /\ Append(s.stack, e.name) \in Seq(Names) /\ e.type \notin Unsupported
    BY <1>11, <1>0 DEF Events, ElementEvents, DataEvents, OtherEvents, Unsupported
  <2> DEFINE root == IF AtTop(s) THEN <<e.name>> ELSE s.root
             stack == IF e.type = "Start" THEN Append(s.stack, e.name) ELSE s.stack
             refused == AtTop(s) /\ s.root # <<>>
             next == [s EXCEPT !.root = root, !.refused = refused, !.stack = stack]
  <2>2. root \in Root /\ stack \in Seq(Names) /\ refused \in BOOLEAN
    BY <2>1, <1>0 DEF Root
  <2>3. t = next
    BY <1>11, <1>2 DEF ExecutorElement
  <2>4. NextRoot(s, e) = root /\ NextStack(s, e) = stack
    BY <1>11 DEF NextRoot, NextStack
  <2>5. Refuses(s, e) <=> refused
    BY <1>11, <2>1 DEF Refuses
  <2> HIDE DEF root, stack, refused
  <2>6. next \in Carried /\ next.refused = refused /\ next.root = root /\ next.stack = stack
    BY <2>2 DEF Carried
  <2> HIDE DEF next
  <2> QED BY <1>11, <2>3, <2>4, <2>5, <2>6 DEF TakesEvent
<1>12. ASSUME ~s.refused, e.type = "End" 
      PROVE  TakesEvent(s, e, t)
  <2>1. ~AtTop(s) => Front(s.stack) \in Seq(Names)
    BY <1>0 DEF Front, AtTop
  <2> QED BY <2>1, <1>12, <1>3, <1>0, <1>8 DEF ExecutorEnd, TakesEvent, Refuses, NextStack, NextRoot, Carried, Unsupported, t
<1>13. ASSUME ~s.refused, e.type \in {"Text", "CData"} 
      PROVE  TakesEvent(s, e, t)
  BY <1>13, <1>4, <1>8 DEF CharacterData, TakesEvent, Refuses, NextStack, NextRoot, Unsupported, t
<1>14. ASSUME ~s.refused, e.type \in {"Comment", "Decl"} 
      PROVE  TakesEvent(s, e, t)
  BY <1>14, <1>5 DEF TakesEvent, Refuses, NextStack, NextRoot, Unsupported, t
<1>15. ASSUME ~s.refused, e.type \in Unsupported 
      PROVE  TakesEvent(s, e, t)
  BY <1>15, <1>6, <1>8 DEF TakesEvent, Refuses, t
<1>16. e.type \in {"Start", "Empty", "End", "Text", "CData", "Comment", "Decl"} \cup Unsupported
  BY DEF Events, ElementEvents, DataEvents, OtherEvents, Unsupported
<1> QED BY <1>10, <1>11, <1>12, <1>13, <1>14, <1>15, <1>16 DEF t
-------------------------------------------------------------------------------
\* A loop that has not refused refuses an event exactly when it makes the
\* document unsound.
LEMMA RefusesUnsound ==
  ASSUME NEW d \in Seq(Events), NEW e \in Events, NEW s \in Carried,
         SoundSoFar(d), StackIsOpen(d, s.stack), RootIsTop(d, s.root)
  PROVE  Refuses(s, e) <=> ~SoundNext(d, e)
<1> DEFINE depth == DepthBefore(d, Len(d) + 1)
           n == Len(d) + 1
<1>1. depth = Len(s.stack) /\ s.stack \in Seq(Names) /\ Len(s.stack) \in Nat
  BY DEF StackIsOpen, Carried
<1>2. AtTop(s) <=> depth = 0
  BY <1>1 DEF AtTop
<1>3. s.root = <<>> <=> Tops(d) = {}
  BY DEF RootIsTop
<1>d. n = Len(d) + 1 /\ Len(d) \in Nat /\ DepthBefore(d, n) = depth
  OBVIOUS
<1> HIDE DEF depth, n
<1>4. ASSUME e.type \in Unsupported
      PROVE  Refuses(s, e) /\ ~SoundNext(d, e)
  BY <1>4 DEF Refuses, SoundNext
<1>5. ASSUME e.type \in {"Start", "Empty"}
      PROVE  Refuses(s, e) <=> ~SoundNext(d, e)
  <2>1. Refuses(s, e) <=> depth = 0 /\ Tops(d) # {}
    BY <1>5, <1>2, <1>3 DEF Refuses, Unsupported
  <2>2. depth + Delta(e) >= 0
    <3>1. Delta(e) = 0 \/ Delta(e) = 1
      BY <1>5 DEF Delta
    <3> QED BY <3>1, <1>1
  <2>3. SoundNext(d, e) <=> (depth = 0 => Tops(d) = {})
    BY <1>5, <2>2 DEF SoundNext, Unsupported, depth
  <2> QED BY <2>1, <2>3
<1>6. ASSUME e.type = "End"
      PROVE  Refuses(s, e) <=> ~SoundNext(d, e)
  <2>1. Refuses(s, e) <=> depth = 0 \/ Last(s.stack) # e.name
    BY <1>6, <1>2 DEF Refuses, Unsupported
  <2>2. SoundNext(d, e) <=> depth >= 1 /\ \E i \in DOMAIN d : Partner(d, i, n) /\ d[i].name = e.name
    <3>1. depth + Delta(e) >= 0 <=> depth >= 1
      BY <1>6, <1>1 DEF Delta
    <3> QED BY <1>6, <3>1 DEF SoundNext, Unsupported, depth, n
  <2>3. ASSUME depth >= 1
        PROVE  (\E i \in DOMAIN d : Partner(d, i, n) /\ d[i].name = e.name) <=> Last(s.stack) = e.name
    <3>1. Last(s.stack) = s.stack[depth] /\ depth \in DOMAIN s.stack
      BY <2>3, <1>1 DEF Last
    <3>2. PICK i \in DOMAIN d : /\ Opens(d, i) /\ d[i].name = s.stack[depth] /\ DepthBefore(d, i) = depth - 1
                                /\ \A j \in (i + 1) .. n : DepthBefore(d, j) >= depth
      BY <3>1 DEF StackIsOpen, OpenAt, n
    <3>3. i \in 1 .. Len(d) /\ i < n /\ i \in 1 .. n
      BY <1>d
    <3>4. Partner(d, i, n)
      <4>1. \A k \in (i + 1) .. (n - 1) : DepthBefore(d, k) \in Int /\ DepthBefore(d, k) >= depth
        BY <3>2, <3>3, <1>d, DepthSteps
      <4>2. \A k \in (i + 1) .. (n - 1) : DepthBefore(d, k) > depth - 1
        BY <4>1, <1>1
      <4> QED BY <4>2, <3>2, <3>3, <1>d DEF Partner
    <3>5. ASSUME NEW k \in DOMAIN d, Partner(d, k, n)
          PROVE  k = i
      <4>1. DepthBefore(d, k) = depth - 1 /\ \A j \in (k + 1) .. (n - 1) : DepthBefore(d, j) > depth - 1
        BY <3>5, <1>d DEF Partner
      <4>2. ~(i < k)
        BY <4>1, <3>2, <3>3, <1>1, <1>d
      <4>3. ~(k < i)
        BY <4>1, <3>2, <3>3, <1>1, <1>d
      <4> QED BY <4>2, <4>3, <3>3
    <3> QED BY <3>1, <3>2, <3>4, <3>5
  <2> QED BY <2>1, <2>2, <2>3, <1>1
<1>7. ASSUME e.type \in {"Text", "CData"}
      PROVE  Refuses(s, e) <=> ~SoundNext(d, e)
  <2>1. Refuses(s, e) <=> Tops(d) = {} \/ (depth = 0 /\ ~e.blank)
    BY <1>7, <1>2, <1>3 DEF Refuses, Misplaced, Unsupported
  <2>2. depth + Delta(e) >= 0 /\ (depth > 0 <=> depth # 0)
    <3>1. Delta(e) = 0 \/ Delta(e) = 1
      BY <1>7 DEF Delta
    <3> QED BY <3>1, <1>1
  <2>3. SoundNext(d, e) <=> Tops(d) # {} /\ (depth > 0 \/ e.blank)
    BY <1>7, <2>2 DEF SoundNext, Unsupported, depth
  <2> QED BY <2>1, <2>2, <2>3
<1>8. ASSUME e.type \in {"Comment", "Decl"}
      PROVE  Refuses(s, e) <=> ~SoundNext(d, e)
  <2>1. depth + Delta(e) >= 0
    <3>1. Delta(e) = 0 \/ Delta(e) = 1
      BY <1>8 DEF Delta
    <3> QED BY <3>1, <1>1
  <2> QED BY <1>8, <2>1 DEF Refuses, SoundNext, Unsupported, depth
<1>9. e.type \in {"Start", "Empty", "End", "Text", "CData", "Comment", "Decl"} \cup Unsupported
  BY DEF Events, ElementEvents, DataEvents, OtherEvents, Unsupported
<1> QED BY <1>4, <1>5, <1>6, <1>7, <1>8, <1>9

\* The stack stays the open elements over an event the loops take.
LEMMA StackSteps ==
  ASSUME NEW d \in Seq(Events), NEW e \in Events, NEW s \in Carried,
         StackIsOpen(d, s.stack), ~Refuses(s, e)
  PROVE  StackIsOpen(Append(d, e), NextStack(s, e))
<1> DEFINE f == Append(d, e)
           n == Len(d) + 1
           next == NextStack(s, e)
<1>1. /\ f \in Seq(Events) /\ Len(f) = n /\ f[n] = e
      /\ DOMAIN f = DOMAIN d \cup {n} /\ n \notin DOMAIN d /\ DOMAIN d = 1 .. Len(d)
      /\ \A i \in DOMAIN d : f[i] = d[i]
      /\ \A i \in 1 .. n : DepthBefore(f, i) = DepthBefore(d, i)
      /\ DepthBefore(f, n + 1) = DepthBefore(d, n) + Delta(e)
  BY Extending
<1>2. DepthBefore(d, n) = Len(s.stack) /\ s.stack \in Seq(Names) /\ Len(s.stack) \in Nat
  BY DEF StackIsOpen, Carried
<1>3. n = Len(d) + 1 /\ Len(d) \in Nat
  OBVIOUS
<1> HIDE DEF f, n
<1>4. ASSUME NEW k \in DOMAIN s.stack, k <= Len(s.stack) + Delta(e)
      PROVE  OpenAt(f, k, s.stack[k])
  <2>1. PICK i \in DOMAIN d : /\ Opens(d, i) /\ d[i].name = s.stack[k] /\ DepthBefore(d, i) = k - 1
                              /\ \A j \in (i + 1) .. n : DepthBefore(d, j) >= k
    BY DEF StackIsOpen, OpenAt, n
  <2>2. Opens(f, i) /\ f[i].name = s.stack[k] /\ DepthBefore(f, i) = k - 1 /\ i \in DOMAIN f
    BY <1>1, <1>3, <2>1 DEF Opens
  <2>3. ASSUME NEW j \in (i + 1) .. (Len(f) + 1)
        PROVE  DepthBefore(f, j) >= k
    <3>1. CASE j <= n
      BY <3>1, <2>1, <1>1, <1>3
    <3>2. CASE j = n + 1
      BY <3>2, <1>1, <1>2, <1>4
    <3> QED BY <3>1, <3>2, <1>1, <1>3
  <2> QED BY <2>2, <2>3 DEF OpenAt
<1>5. CASE e.type = "Start"
  <2>1. e.name \in Names /\ Delta(e) = 1 /\ next = Append(s.stack, e.name)
    BY <1>5 DEF Events, ElementEvents, DataEvents, OtherEvents, Delta, NextStack
  <2>2. /\ next \in Seq(Names) /\ Len(next) = Len(s.stack) + 1 /\ next[Len(next)] = e.name
        /\ \A k \in DOMAIN s.stack : next[k] = s.stack[k]
        /\ DOMAIN next = DOMAIN s.stack \cup {Len(next)}
        /\ \A k \in DOMAIN s.stack : k <= Len(s.stack)
    BY <2>1, <1>2
  <2> HIDE DEF next
  <2>3. OpenAt(f, Len(next), e.name)
    <3>1. Opens(f, n) /\ f[n].name = e.name /\ DepthBefore(f, n) = Len(next) - 1 /\ n \in DOMAIN f
      BY <1>1, <1>2, <1>3, <2>2, <1>5 DEF Opens
    <3>2. \A j \in (n + 1) .. (Len(f) + 1) : DepthBefore(f, j) >= Len(next)
      BY <1>1, <1>2, <1>3, <2>1, <2>2
    <3> QED BY <3>1, <3>2 DEF OpenAt
  <2>4. DepthBefore(f, Len(f) + 1) = Len(next)
    BY <1>1, <1>2, <2>1, <2>2
  <2>5. ASSUME NEW k \in DOMAIN s.stack
        PROVE  OpenAt(f, k, next[k])
    BY <1>4, <1>2, <2>1, <2>2
  <2> QED BY <2>2, <2>3, <2>4, <2>5 DEF StackIsOpen, f, next
<1>6. CASE e.type = "End"
  <2>1. s.stack # <<>> /\ Delta(e) = -1 /\ next = Front(s.stack)
    BY <1>6 DEF Delta, NextStack, Refuses, AtTop
  <2>2. /\ Len(next) = Len(s.stack) - 1
        /\ \A k \in DOMAIN next : k \in DOMAIN s.stack /\ next[k] = s.stack[k] /\ k <= Len(s.stack) - 1
    BY <2>1, <1>2 DEF Front
  <2> HIDE DEF next
  <2>3. DepthBefore(f, Len(f) + 1) = Len(next)
    BY <1>1, <1>2, <2>1, <2>2
  <2>4. ASSUME NEW k \in DOMAIN next
        PROVE  OpenAt(f, k, next[k])
    BY <1>4, <1>2, <2>1, <2>2
  <2> QED BY <2>3, <2>4 DEF StackIsOpen, f, next
<1>7. CASE e.type \notin {"Start", "End"}
  <2>1. Delta(e) = 0 /\ next = s.stack
    BY <1>7 DEF Delta, NextStack
  <2> QED BY <2>1, <1>1, <1>2, <1>4 DEF StackIsOpen, f, next
<1> QED BY <1>5, <1>6, <1>7 DEF f

\* So does the root.
LEMMA RootSteps ==
  ASSUME NEW d \in Seq(Events), NEW e \in Events, NEW s \in Carried,
         StackIsOpen(d, s.stack), RootIsTop(d, s.root), ~Refuses(s, e)
  PROVE  RootIsTop(Append(d, e), NextRoot(s, e))
<1> DEFINE f == Append(d, e)
           n == Len(d) + 1
           next == NextRoot(s, e)
<1>1. /\ f[n] = e /\ n \notin DOMAIN d
      /\ \A i \in DOMAIN d : f[i] = d[i]
      /\ Tops(d) \subseteq DOMAIN d
      /\ Tops(f) = Tops(d) \cup (IF e.type \in {"Start", "Empty"} /\ DepthBefore(d, n) = 0 THEN {n} ELSE {})
  BY Extending, ExtendingTops
<1>2. AtTop(s) <=> DepthBefore(d, n) = 0
  BY DEF StackIsOpen, Carried, AtTop
<1> HIDE DEF f, n
<1>3. CASE e.type \in {"Start", "Empty"} /\ AtTop(s)
  <2>1. Tops(d) = {} /\ next = <<e.name>>
    BY <1>3 DEF Refuses, RootIsTop, NextRoot
  <2>2. Tops(f) = {n}
    BY <2>1, <1>1, <1>2, <1>3
  <2>3. next # <<>> /\ \A t \in Tops(f) : next = <<f[t].name>>
    BY <2>1, <2>2, <1>1
  <2> HIDE DEF next
  <2> QED BY <2>2, <2>3 DEF RootIsTop, f, next
<1>4. CASE ~(e.type \in {"Start", "Empty"} /\ AtTop(s))
  <2>1. Tops(f) = Tops(d) /\ next = s.root
    BY <1>1, <1>2, <1>4 DEF NextRoot
  <2> QED BY <2>1, <1>1 DEF RootIsTop, f
<1> QED BY <1>3, <1>4

\* One turn of either loop.
LEMMA Turn ==
  ASSUME NEW d \in Seq(Events), NEW e \in Events, NEW s \in Carried, NEW t,
         Carries(s, d), TakesEvent(s, e, t)
  PROVE  Carries(t, Append(d, e))
<1>1. SoundSoFar(Append(d, e)) <=> SoundSoFar(d) /\ SoundNext(d, e)
  BY SoundStep
<1>2. CASE s.refused
  BY <1>1, <1>2 DEF Carries, TakesEvent
<1>3. CASE ~s.refused
  <2>1. SoundSoFar(d) /\ StackIsOpen(d, s.stack) /\ RootIsTop(d, s.root)
    BY <1>3 DEF Carries
  <2>2. Refuses(s, e) <=> ~SoundNext(d, e)
    BY <2>1, RefusesUnsound
  <2>3. ~t.refused <=> SoundSoFar(Append(d, e))
    BY <1>1, <1>3, <2>1, <2>2 DEF TakesEvent
  <2>4. ASSUME ~t.refused
        PROVE  StackIsOpen(Append(d, e), t.stack) /\ RootIsTop(Append(d, e), t.root)
    <3>1. ~Refuses(s, e) /\ t.stack = NextStack(s, e) /\ t.root = NextRoot(s, e)
      BY <2>4 DEF TakesEvent
    <3> QED BY <3>1, <2>1, StackSteps, RootSteps
  <2> QED BY <2>3, <2>4 DEF Carries
<1> QED BY <1>2, <1>3

\* The number of suites grows with a testsuite element and nothing else.
LEMMA SuitesStep ==
  ASSUME NEW d \in Seq(Events), NEW e \in Events
  PROVE  Suites(Append(d, e)) = IF e.type \in {"Start", "Empty"} /\ e.name = "testsuite" THEN Suites(d) + 1 ELSE Suites(d)
<1> DEFINE f == Append(d, e)
           n == Len(d) + 1
           Of(x) == {i \in Elements(x) : x[i].name = "testsuite"}
<1>1. f[n] = e /\ DOMAIN f = DOMAIN d \cup {n} /\ n \notin DOMAIN d /\ DOMAIN d = 1 .. Len(d) /\ \A i \in DOMAIN d : f[i] = d[i]
  BY Extending
<1> HIDE DEF f, n
<1>2. Of(d) \subseteq 1 .. Len(d)
  BY <1>1 DEF Elements
<1>3. IsFiniteSet(Of(d)) /\ Cardinality(Of(d)) \in Nat
  <2>1. IsFiniteSet(1 .. Len(d))
    BY FS_Interval
  <2> HIDE DEF Of
  <2> QED BY <2>1, <1>2, FS_Subset, FS_CardinalityType
<1>4. CASE e.type \in {"Start", "Empty"} /\ e.name = "testsuite"
  <2>1. Of(f) = Of(d) \cup {n} /\ n \notin Of(d)
    BY <1>1, <1>4 DEF Elements
  <2>2. Cardinality(Of(d) \cup {n}) = Cardinality(Of(d)) + 1
    BY <2>1, <1>3, FS_AddElement
  <2> QED BY <2>1, <2>2, <1>4 DEF Suites, f
<1>5. CASE ~(e.type \in {"Start", "Empty"} /\ e.name = "testsuite")
  <2>1. Of(f) = Of(d)
    BY <1>1, <1>5 DEF Elements
  <2> QED BY <2>1, <1>5 DEF Suites, f
<1> QED BY <1>4, <1>5

\* The inductive invariant holds of the empty document and is kept.
LEMMA IInvInit == XmlInit => IInv
<1> SUFFICES ASSUME XmlInit
             PROVE  IInv
  OBVIOUS
<1>1. document = <<>> /\ document \in Seq(Events) /\ DOMAIN document = {} /\ Len(document) = 0
  BY DEF XmlInit
<1>2. adapter = Fresh /\ executor = Fresh
  BY DEF XmlInit
<1>3. Fresh \in Carried
  BY DEF Fresh, Carried, Root
<1>4. Tops(document) = {} /\ Elements(document) = {}
  BY <1>1 DEF Tops, Elements
<1>5. DepthBefore(document, 1) = 0
  BY <1>1, DepthSteps
<1>6. SoundSoFar(document)
  BY <1>1, <1>4, <1>5 DEF SoundSoFar
<1>7. Carries(Fresh, document)
  BY <1>1, <1>4, <1>5, <1>6 DEF Carries, Fresh, StackIsOpen, RootIsTop
<1>8. Suites(document) = 0
  <2>1. {i \in Elements(document) : document[i].name = "testsuite"} = {}
    BY <1>4
  <2> QED BY <2>1, FS_EmptySet DEF Suites
<1> QED BY <1>1, <1>2, <1>3, <1>7, <1>8 DEF IInv, XmlTypeOK, Fresh

LEMMA IInvStep == IInv /\ [XmlNext]_xmlVars => IInv'
<1> SUFFICES ASSUME IInv, [XmlNext]_xmlVars
             PROVE  IInv'
  OBVIOUS
<1>1. CASE UNCHANGED xmlVars
  BY <1>1 DEF IInv, XmlTypeOK, xmlVars
<1>2. ASSUME NEW e \in Events, ReadEvent(e)
      PROVE  IInv'
  <2>1. document \in Seq(Events) /\ adapter \in Carried /\ executor \in Carried
    BY DEF IInv, XmlTypeOK
  <2>2. document' = Append(document, e) /\ adapter' = AdapterEvent(adapter, e) /\ executor' = ExecutorEvent(executor, e)
    BY <1>2 DEF ReadEvent
  <2>3. TakesEvent(adapter, e, adapter') /\ TakesEvent(executor, e, executor')
    BY <2>1, <2>2, AdapterTakes, ExecutorTakes
  <2>4. XmlTypeOK'
    BY <2>1, <2>2, <2>3 DEF XmlTypeOK, TakesEvent
  <2>5. Carries(adapter', document') /\ Carries(executor', document')
    BY <2>1, <2>2, <2>3, Turn DEF IInv
  <2>6. ~adapter'.refused => adapter'.suites = Suites(document')
    <3>1. ~adapter'.refused => ~adapter.refused
      BY <2>3 DEF TakesEvent
    <3> QED BY <3>1, <2>1, <2>2, AdapterTakes, SuitesStep DEF IInv
  <2> QED BY <2>4, <2>5, <2>6 DEF IInv
<1> QED BY <1>1, <1>2 DEF XmlNext

\* A well-formed report is one the events have not broken, whose elements
\* are all closed and whose one root is testsuites or testsuite.
LEMMA WellFormedIsSound ==
  ASSUME NEW d \in Seq(Events)
  PROVE  WellFormedReport(d) <=> /\ SoundSoFar(d) /\ DepthBefore(d, Len(d) + 1) = 0
                                 /\ Tops(d) # {} /\ \A t \in Tops(d) : d[t].name \in Roots
<1>1. IsFiniteSet(Tops(d))
  <2>1. Tops(d) \subseteq 1 .. Len(d)
    BY DEF Tops, Elements
  <2>2. IsFiniteSet(1 .. Len(d))
    BY FS_Interval
  <2> QED BY <2>1, <2>2, FS_Subset
<1>2. Cardinality(Tops(d)) = 1 <=> \E x : Tops(d) = {x}
  BY <1>1, FS_Singleton
<1>3. (\E x : Tops(d) = {x}) <=> Tops(d) # {} /\ \A s, t \in Tops(d) : s = t
  OBVIOUS
<1> QED BY <1>2, <1>3 DEF WellFormedReport, SoundSoFar, Closed, TextPlaced

LEMMA IInvAgrees == IInv => ValidatorsAgree
<1> SUFFICES ASSUME IInv
             PROVE  ValidatorsAgree
  OBVIOUS
<1>1. ASSUME NEW s \in Carried, Carries(s, document)
      PROVE  Whole(s) <=> WellFormedReport(document)
  <2>1. ~s.refused <=> SoundSoFar(document)
    BY <1>1 DEF Carries
  <2>2. ASSUME ~s.refused
        PROVE  /\ AtTop(s) <=> DepthBefore(document, Len(document) + 1) = 0
               /\ s.root # <<>> /\ s.root[1] \in Roots
                    <=> Tops(document) # {} /\ \A t \in Tops(document) : document[t].name \in Roots
    <3>1. StackIsOpen(document, s.stack) /\ RootIsTop(document, s.root)
      BY <1>1, <2>2 DEF Carries
    <3>2. AtTop(s) <=> DepthBefore(document, Len(document) + 1) = 0
      BY <3>1 DEF StackIsOpen, AtTop, Carried
    <3>3. \A t \in Tops(document) : s.root[1] = document[t].name
      BY <3>1 DEF RootIsTop
    <3> QED BY <3>1, <3>2, <3>3 DEF RootIsTop
  <2> QED BY <2>1, <2>2, WellFormedIsSound DEF Whole, IInv, XmlTypeOK
<1>2. (Whole(adapter) <=> WellFormedReport(document)) /\ (Whole(executor) <=> WellFormedReport(document))
  BY <1>1 DEF IInv, XmlTypeOK
<1>3. Whole(adapter) => adapter.suites = Suites(document)
  BY DEF IInv, Whole
<1>4. ValidateReportXml.ok <=> Whole(adapter)
  BY DEF ValidateReportXml
<1>5. Whole(adapter) => ValidateReportXml.suites = adapter.suites
  BY DEF ValidateReportXml
<1> QED BY <1>2, <1>3, <1>4, <1>5 DEF ValidatorsAgree, ValidateXml

\* For documents of any length over any element names, the executor exports
\* exactly what the adapter publishes, both accept exactly the well-formed
\* reports, and the adapter's count is that of the testsuite elements
\* (validate_report_xml, validate_xml).
THEOREM ValidatorsAlwaysAgree == XmlSpec => []ValidatorsAgree
<1>1. XmlSpec => []IInv
  BY IInvInit, IInvStep, PTL DEF XmlSpec
<1> QED BY <1>1, IInvAgrees, PTL
-------------------------------------------------------------------------------
\* The pairs read before the transport and behind the fixed words, and
\* whether an option was read and its value was not.
Preambled == Len(traceId) + Len(configEntries)
Optioned == Len(timeout) + Len(junitDir)
Waiting == IF option = "none" THEN 0 ELSE 1

\* Where parse is, is what was read: the length of the line, the option that
\* waits for its value, and what has been stored.
PlaceInv ==
  \/ /\ place = "preamble" /\ Len(line) = 2 * Preambled + Waiting /\ Optioned = 0 /\ words = 0
     /\ option \in {"none", "--buck-trace-id", "--config-entry", "--executor-fd", "--executor-addr"}
     /\ option = "--buck-trace-id" => traceId = <<>>
  \/ /\ place = "transport" /\ Len(line) = 2 * Preambled + 2 + Waiting /\ Optioned = 0
     /\ Len(ends) = 1 /\ words = 0
     /\ option \in {"none", IF Descriptor(ends[1]) THEN "--orchestrator-fd" ELSE "--orchestrator-addr"}
  \/ /\ place = "words" /\ Len(line) = 2 * Preambled + 4 + words /\ Optioned = 0
     /\ Len(ends) = 2 /\ words \in 0 .. 3 /\ option = "none"
  \/ /\ place = "options" /\ Len(line) = 2 * Preambled + 8 + 2 * Optioned + Waiting
     /\ Len(ends) = 2 /\ words = 4
     /\ option \in {"none", "--timeout", "--junit-dir"}
     /\ option = "--timeout" => timeout = <<>>
     /\ option = "--junit-dir" => junitDir = <<>>
StoredInv ==
  /\ traceId \in Seq(Arguments) /\ Len(traceId) \in 0 .. 1
  /\ configEntries \in Seq(Arguments)
  /\ ends \in Seq(Arguments)
  /\ timeout \in Seq(0 .. I64Max) /\ Len(timeout) \in 0 .. 1
  /\ junitDir \in Seq(Arguments) /\ Len(junitDir) \in 0 .. 1
WaitingInv == option # "none" => line[Len(line)] = Text(option)

\* What the line read so far is, up to where parse is.
TraceAt(l, i) == Is(l[2 * i - 1], "--buck-trace-id")
PreambleInv ==
  /\ \A i \in 1 .. Preambled : PreamblePair(line[2 * i - 1], line[2 * i])
  /\ traceId = <<>> => \A i \in 1 .. Preambled : ~TraceAt(line, i)
  /\ traceId # <<>> => \E i \in 1 .. Preambled : \A j \in 1 .. Preambled : TraceAt(line, j) <=> i = j
TransportInv ==
  /\ place \in {"transport", "words", "options"} =>
       /\ line[2 * Preambled + 2] = ends[1]
       /\ \/ Is(line[2 * Preambled + 1], "--executor-fd") /\ Descriptor(ends[1])
          \/ Is(line[2 * Preambled + 1], "--executor-addr") /\ ~Descriptor(ends[1])
  /\ place \in {"words", "options"} =>
       /\ traceId # <<>>
       /\ line[2 * Preambled + 4] = ends[2]
       /\ Transport(line[2 * Preambled + 1], line[2 * Preambled + 2], line[2 * Preambled + 3], line[2 * Preambled + 4])
WordsInv == place \in {"words", "options"} => \A i \in 1 .. words : line[2 * Preambled + 4 + i] = FixedWords[i]
OptionAt(l, i, o) == Is(l[2 * i - 1], o)
Options == (Preambled + 5) .. (Preambled + 4 + Optioned)
OptionsInv ==
  place = "options" =>
    /\ \A i \in Options : OptionPair(line[2 * i - 1], line[2 * i])
    /\ \A i, j \in Options : line[2 * i - 1] = line[2 * j - 1] => i = j
    /\ \A i \in Options : OptionAt(line, i, "--timeout") => timeout = <<line[2 * i].number>>
    /\ \A i \in Options : OptionAt(line, i, "--junit-dir") => junitDir = <<line[2 * i]>>
    /\ timeout # <<>> => \E i \in Options : OptionAt(line, i, "--timeout")
    /\ junitDir # <<>> => \E i \in Options : OptionAt(line, i, "--junit-dir")

ReadInv == PlaceInv /\ WaitingInv /\ PreambleInv /\ TransportInv /\ WordsInv /\ OptionsInv

\* Nothing that could follow makes a refused line one of Buck's.
Begins(s, l) == Len(s) <= Len(l) /\ \A i \in 1 .. Len(s) : l[i] = s[i]
RefusedInv == \A l \in Seq(Arguments) : Begins(line, l) => ~BucksLine(l)

LineInv ==
  /\ line \in Seq(Arguments)
  /\ StoredInv
  /\ place = "refused" => option = "none" /\ RefusedInv
  /\ place # "refused" => ReadInv
-------------------------------------------------------------------------------
\* No two texts are one argument, and no option is a value.
LEMMA TextsDiffer == \A s, t : Text(s) = Text(t) => s = t
BY DEF Text

LEMMA OptionsAreDashed ==
  \A o \in {"--buck-trace-id", "--config-entry", "--executor-fd", "--orchestrator-fd", "--executor-addr",
            "--orchestrator-addr", "--timeout", "--junit-dir"} : ~Value(Text(o))
BY DEF Value, Dashed

LEMMA NumbersAreValues == \A a : a.number >= 0 => Value(a)
<1> SUFFICES ASSUME NEW a, a.number >= 0, ~Value(a) PROVE FALSE
  OBVIOUS
<1>1. \E t : a = Text(t)
  BY DEF Value, Dashed, Unreadable
<1>2. a.number = -1
  BY <1>1 DEF Text
<1> QED BY <1>2

LEMMA AddressesAreValues == \A a \in Address : Value(a) /\ ~Descriptor(a)
<1> SUFFICES ASSUME NEW a \in Address PROVE Value(a) /\ ~Descriptor(a)
  OBVIOUS
<1>1. \E t \in {"127.0.0.1:1", "127.0.0.1:2", "10.0.0.1:1"} : a = Text(t)
  BY DEF Address, Loopback
<1>2. a.number = -1
  BY <1>1 DEF Text
<1>3. ~Dashed(a) /\ a # Unreadable
  BY <1>1, TextsDiffer DEF Dashed, Unreadable
<1> QED BY <1>2, <1>3, WidthsAssumption DEF Value, Descriptor

LEMMA DirectoryIsValue == Value(Text("/out/junit"))
BY TextsDiffer DEF Value, Dashed, Unreadable

\* The executor's timeouts are those the request's i64 holds.
LEMMA TimeoutsFit == \A n : TimeoutFits(n) <=> n \in 0 .. U64Max /\ AsI64(n) >= 0
BY WidthsAssumption DEF TimeoutFits, AsI64
-------------------------------------------------------------------------------
LEMMA LineStarts == LineInit => LineInv
<1> SUFFICES ASSUME LineInit PROVE LineInv
  OBVIOUS
<1>1. line = <<>> /\ traceId = <<>> /\ configEntries = <<>> /\ ends = <<>> /\ timeout = <<>> /\ junitDir = <<>>
  BY DEF LineInit
<1>2. Preambled = 0 /\ Optioned = 0 /\ Waiting = 0
  BY <1>1 DEF LineInit, Preambled, Optioned, Waiting
<1>3. ReadInv
  BY <1>1, <1>2 DEF LineInit, ReadInv, PlaceInv, WaitingInv, PreambleInv, TransportInv, WordsInv, OptionsInv
<1> QED BY <1>1, <1>3 DEF LineInit, LineInv, StoredInv

\* What one more argument does to the line.
LEMMA Appended ==
  ASSUME line \in Seq(Arguments), NEW a \in Arguments, line' = Append(line, a)
  PROVE  /\ line' \in Seq(Arguments) /\ Len(line') = Len(line) + 1
         /\ line'[Len(line) + 1] = a
         /\ \A i \in 1 .. Len(line) : line'[i] = line[i]
OBVIOUS

\* All that was read so far lies within the line.
LEMMA Within ==
  ASSUME LineInv, place # "refused"
  PROVE  /\ Preambled \in Nat /\ Optioned \in 0 .. 2 /\ Waiting \in 0 .. 1
         /\ 2 * Preambled <= Len(line)
         /\ place \in {"transport", "words", "options"} => 2 * Preambled + 2 <= Len(line)
         /\ place = "words" => 2 * Preambled + 4 + words = Len(line) /\ words \in 0 .. 3
         /\ place = "options" => 2 * Preambled + 8 + 2 * Optioned <= Len(line) /\ words = 4
         /\ place \in {"words", "options"} => 2 * Preambled + 4 <= Len(line)
<1>1. Preambled \in Nat /\ Optioned \in 0 .. 2 /\ Waiting \in 0 .. 1
  <2>1. StoredInv
    BY DEF LineInv
  <2>2. Len(traceId) \in 0 .. 1 /\ Len(configEntries) \in Nat
    BY <2>1 DEF StoredInv
  <2>3. Len(timeout) \in 0 .. 1
    BY <2>1 DEF StoredInv
  <2>4. Len(junitDir) \in 0 .. 1
    BY <2>1 DEF StoredInv
  <2>5. Optioned \in 0 .. 2
    <3>1. \A m, n \in 0 .. 1 : m + n \in 0 .. 2
      OBVIOUS
    <3> QED BY <2>3, <2>4, <3>1 DEF Optioned
  <2> QED BY <2>2, <2>5 DEF Preambled, Waiting
<1>2. Len(line) \in Nat
  BY DEF LineInv
<1>3. PlaceInv
  BY DEF LineInv, ReadInv
<1> QED BY <1>1, <1>2, <1>3 DEF PlaceInv

LEMMA PreambleKept ==
  ASSUME LineInv, place # "refused", NEW a \in Arguments, line' = Append(line, a), UNCHANGED <<traceId, configEntries>>
  PROVE  PreambleInv'
<1>1. Preambled' = Preambled
  BY DEF Preambled
<1>2. PreambleInv /\ line \in Seq(Arguments)
  BY DEF LineInv, ReadInv
<1>3. \A i \in 1 .. Preambled : line'[2 * i - 1] = line[2 * i - 1] /\ line'[2 * i] = line[2 * i]
  BY <1>2, Appended, Within
<1> QED BY <1>1, <1>2, <1>3 DEF PreambleInv, TraceAt

LEMMA TransportKept ==
  ASSUME LineInv, place # "refused", NEW a \in Arguments, line' = Append(line, a),
         UNCHANGED <<traceId, configEntries, ends>>,
         place' \in {"transport", "words", "options"} => place \in {"transport", "words", "options"},
         place' \in {"words", "options"} => place \in {"words", "options"}
  PROVE  TransportInv'
<1>1. Preambled' = Preambled
  BY DEF Preambled
<1>2. TransportInv /\ line \in Seq(Arguments)
  BY DEF LineInv, ReadInv
<1>3. place \in {"transport", "words", "options"} =>
        line'[2 * Preambled + 1] = line[2 * Preambled + 1] /\ line'[2 * Preambled + 2] = line[2 * Preambled + 2]
  BY <1>2, Appended, Within
<1>4. place \in {"words", "options"} =>
        line'[2 * Preambled + 3] = line[2 * Preambled + 3] /\ line'[2 * Preambled + 4] = line[2 * Preambled + 4]
  BY <1>2, Appended, Within
<1> QED BY <1>1, <1>2, <1>3, <1>4 DEF TransportInv

LEMMA WordsKept ==
  ASSUME LineInv, place # "refused", NEW a \in Arguments, line' = Append(line, a),
         UNCHANGED <<traceId, configEntries, words>>,
         place' \in {"words", "options"} => place \in {"words", "options"}
  PROVE  WordsInv'
<1>1. Preambled' = Preambled
  BY DEF Preambled
<1>2. WordsInv /\ line \in Seq(Arguments)
  BY DEF LineInv, ReadInv
<1>3. place \in {"words", "options"} => \A i \in 1 .. words : line'[2 * Preambled + 4 + i] = line[2 * Preambled + 4 + i]
  BY <1>2, Appended, Within
<1> QED BY <1>1, <1>2, <1>3 DEF WordsInv

LEMMA OptionsKept ==
  ASSUME LineInv, place # "refused", NEW a \in Arguments, line' = Append(line, a),
         UNCHANGED <<traceId, configEntries, timeout, junitDir>>,
         place' = "options" => place = "options"
  PROVE  OptionsInv'
<1>1. Preambled' = Preambled /\ Optioned' = Optioned /\ Options' = Options
  BY DEF Preambled, Optioned, Options
<1>2. OptionsInv /\ line \in Seq(Arguments)
  BY DEF LineInv, ReadInv
<1>3. place = "options" => \A i \in Options : line'[2 * i - 1] = line[2 * i - 1] /\ line'[2 * i] = line[2 * i]
  <2>1. \A i \in 1 .. Len(line) : line'[i] = line[i]
    BY <1>2, Appended
  <2>2. place = "options" => 2 * Preambled + 8 + 2 * Optioned <= Len(line)
    BY Within
  <2>3. Preambled \in Nat /\ Optioned \in 0 .. 2
    BY Within
  <2>4. place = "options" => \A i \in Options : 2 * i - 1 \in 1 .. Len(line) /\ 2 * i \in 1 .. Len(line)
    <3>1. Len(line) \in Nat
      BY <1>2
    <3> QED BY <2>2, <2>3, <3>1 DEF Options
  <2> QED BY <2>1, <2>4
<1>4. CASE place # "options"
  BY <1>4 DEF OptionsInv
<1>5. CASE place = "options"
  <2>1. /\ \A i \in Options : OptionPair(line'[2 * i - 1], line'[2 * i])
        /\ \A i, j \in Options : line'[2 * i - 1] = line'[2 * j - 1] => i = j
    BY <1>2, <1>3, <1>5 DEF OptionsInv
  <2>2. /\ \A i \in Options : OptionAt(line', i, "--timeout") => timeout = <<line'[2 * i].number>>
        /\ \A i \in Options : OptionAt(line', i, "--junit-dir") => junitDir = <<line'[2 * i]>>
    BY <1>2, <1>3, <1>5 DEF OptionsInv, OptionAt
  <2>3. /\ timeout # <<>> => \E i \in Options : OptionAt(line', i, "--timeout")
        /\ junitDir # <<>> => \E i \in Options : OptionAt(line', i, "--junit-dir")
    BY <1>2, <1>3, <1>5 DEF OptionsInv, OptionAt
  <2> QED BY <1>1, <2>1, <2>2, <2>3 DEF OptionsInv
<1> QED BY <1>4, <1>5

LEMMA OptionStep ==
  ASSUME LineInv, NEW a \in Arguments, option = "none", place \in {"preamble", "transport", "options"},
         OptionFits(a), Advance(a, place, a.text), UNCHANGED parsed
  PROVE  LineInv'
<1>1. line' = Append(line, a) /\ place' = place /\ option' = a.text /\ line \in Seq(Arguments) /\ ReadInv /\ place # "refused"
  BY DEF Advance, LineInv
<1>2. line' \in Seq(Arguments) /\ Len(line') = Len(line) + 1 /\ line'[Len(line) + 1] = a
  BY <1>1, Appended
<1>3. /\ a = Text(option')
      /\ place = "preamble" => option' \in {"--buck-trace-id", "--config-entry", "--executor-fd", "--executor-addr"}
      /\ place = "transport" => option' = IF Descriptor(ends[1]) THEN "--orchestrator-fd" ELSE "--orchestrator-addr"
      /\ place = "options" => option' \in {"--timeout", "--junit-dir"}
      /\ place = "preamble" /\ option' = "--buck-trace-id" => traceId = <<>>
      /\ place = "options" /\ option' = "--timeout" => timeout = <<>>
      /\ place = "options" /\ option' = "--junit-dir" => junitDir = <<>>
  <2>1. \E o : a = Text(o)
    BY DEF OptionFits, Is
  <2>2. a = Text(option')
    BY <1>1, <2>1 DEF Text
  <2>3. \A o : Is(a, o) => option' = o
    BY <2>2, TextsDiffer DEF Is
  <2>4. \A o : a = Text(o) => option' = o
    BY <2>2, TextsDiffer
  <2> QED BY <2>2, <2>3, <2>4 DEF OptionFits
<1>4. Preambled' = Preambled /\ Optioned' = Optioned /\ Waiting = 0 /\ Waiting' = 1 /\ UNCHANGED <<ends, words, traceId, timeout, junitDir>>
  <2>1. option' # "none"
    BY <1>3
  <2> QED BY <2>1 DEF parsed, Preambled, Optioned, Waiting
<1>5. PlaceInv'
  <2>1. PlaceInv
    BY <1>1 DEF ReadInv
  <2>2. CASE place = "preamble"
    BY <1>1, <1>2, <1>3, <1>4, <2>1, <2>2, Within DEF PlaceInv
  <2>3. CASE place = "transport"
    BY <1>1, <1>2, <1>3, <1>4, <2>1, <2>3, Within DEF PlaceInv
  <2>4. CASE place = "options"
    <3>1. Len(line) = 2 * Preambled + 8 + 2 * Optioned /\ Len(ends) = 2 /\ words = 4
      BY <1>1, <1>4, <2>1, <2>4, Within DEF PlaceInv
    <3>2. Len(line') = 2 * Preambled' + 8 + 2 * Optioned' + Waiting' /\ Len(ends') = 2 /\ words' = 4
      BY <1>1, <1>2, <1>4, <3>1, Within
    <3> QED BY <1>1, <1>3, <1>4, <2>4, <3>2 DEF PlaceInv
  <2> QED BY <2>2, <2>3, <2>4
<1>6. ReadInv'
  BY <1>1, <1>2, <1>3, <1>5, PreambleKept, TransportKept, WordsKept, OptionsKept DEF ReadInv, WaitingInv, parsed
<1> QED BY <1>1, <1>2, <1>6 DEF LineInv, StoredInv, parsed

\* The pair of an option of the preamble and its value.
LEMMA PairAdded ==
  ASSUME LineInv, option \in {"--buck-trace-id", "--config-entry"}, NEW a \in Arguments, line' = Append(line, a),
         Preambled' = Preambled + 1, ValueFits(a)
  PROVE  /\ place = "preamble" /\ Optioned = 0 /\ words = 0 /\ Len(line) = 2 * Preambled + 1
         /\ \A i \in 1 .. Preambled' : PreamblePair(line'[2 * i - 1], line'[2 * i])
         /\ \A i \in 1 .. Preambled : TraceAt(line', i) <=> TraceAt(line, i)
         /\ TraceAt(line', Preambled') <=> option = "--buck-trace-id"
<1>1. place # "refused"
  BY DEF LineInv
<1>2. ReadInv /\ line \in Seq(Arguments)
  BY <1>1 DEF LineInv
<1>3. Waiting = 1 /\ place = "preamble"
  <2>1. place # "transport"
    BY <1>2 DEF ReadInv, PlaceInv
  <2> QED BY <1>1, <1>2, <2>1 DEF ReadInv, PlaceInv, Waiting
<1>4. Optioned = 0 /\ words = 0 /\ Len(line) = 2 * Preambled + 1
  BY <1>2, <1>3 DEF ReadInv, PlaceInv
<1>5. \A i \in 1 .. Preambled : line'[2 * i - 1] = line[2 * i - 1] /\ line'[2 * i] = line[2 * i]
  BY <1>1, <1>2, Appended, Within
<1>6. line'[2 * Preambled' - 1] = line[Len(line)] /\ line'[2 * Preambled'] = a
  BY <1>1, <1>2, <1>4, Appended, Within
<1>7. line[Len(line)] = Text(option)
  BY <1>2 DEF ReadInv, WaitingInv
<1>8. PreamblePair(Text(option), a)
  BY DEF ValueFits, PreamblePair, Is
<1>9. \A i \in 1 .. Preambled' : i \in 1 .. Preambled \/ i = Preambled'
  BY <1>1, Within
<1>10. \A i \in 1 .. Preambled' : PreamblePair(line'[2 * i - 1], line'[2 * i])
  BY <1>2, <1>5, <1>6, <1>7, <1>8, <1>9 DEF ReadInv, PreambleInv
<1>11. TraceAt(line', Preambled') <=> option = "--buck-trace-id"
  BY <1>6, <1>7, TextsDiffer DEF TraceAt, Is
<1> QED BY <1>3, <1>4, <1>5, <1>10, <1>11 DEF TraceAt

LEMMA TraceIdStep ==
  ASSUME LineInv, NEW a \in Arguments, ReadTraceId(a)
  PROVE  LineInv'
<1>1. /\ line' = Append(line, a) /\ place' = "preamble" /\ option' = "none" /\ traceId' = <<a>>
      /\ UNCHANGED <<configEntries, ends, words, timeout, junitDir>>
      /\ option = "--buck-trace-id" /\ ValueFits(a) /\ line \in Seq(Arguments)
  BY DEF ReadTraceId, Advance, LineInv
<1>2. ReadInv /\ place # "refused"
  BY <1>1 DEF LineInv
<1>3. traceId = <<>>
  BY <1>1, <1>2 DEF ReadInv, PlaceInv
<1>4. Preambled' = Preambled + 1 /\ Optioned' = Optioned /\ Waiting' = 0 /\ Preambled \in Nat
  BY <1>1, <1>2, <1>3, Within DEF Preambled, Optioned, Waiting
<1>5. line' \in Seq(Arguments) /\ Len(line') = Len(line) + 1
  BY <1>1, Appended
<1>6. PlaceInv'
  <2>1. Optioned = 0 /\ words = 0 /\ Len(line) = 2 * Preambled + 1
    BY <1>1, <1>4, PairAdded
  <2>2. Len(line') = 2 * Preambled' + Waiting' /\ Optioned' = 0 /\ words' = 0
    BY <1>1, <1>4, <1>5, <2>1
  <2> QED BY <1>1, <2>2 DEF PlaceInv
<1>7. PreambleInv'
  <2>1. \A i \in 1 .. Preambled : ~TraceAt(line', i)
    BY <1>1, <1>2, <1>3, <1>4, PairAdded DEF ReadInv, PreambleInv
  <2>2. TraceAt(line', Preambled') /\ Preambled' \in 1 .. Preambled'
    BY <1>1, <1>4, PairAdded
  <2>3. \A j \in 1 .. Preambled' : TraceAt(line', j) <=> Preambled' = j
    BY <1>4, <2>1, <2>2
  <2>4. \A i \in 1 .. Preambled' : PreamblePair(line'[2 * i - 1], line'[2 * i])
    BY <1>1, <1>4, PairAdded
  <2>5. traceId' # <<>>
    BY <1>1
  <2> QED BY <2>2, <2>3, <2>4, <2>5 DEF PreambleInv
<1>8. ReadInv'
  BY <1>1, <1>6, <1>7 DEF ReadInv, WaitingInv, TransportInv, WordsInv, OptionsInv
<1> QED BY <1>1, <1>5, <1>8 DEF LineInv, StoredInv

LEMMA ConfigEntryStep ==
  ASSUME LineInv, NEW a \in Arguments, ReadConfigEntry(a)
  PROVE  LineInv'
<1>1. /\ line' = Append(line, a) /\ place' = "preamble" /\ option' = "none" /\ configEntries' = Append(configEntries, a)
      /\ UNCHANGED <<traceId, ends, words, timeout, junitDir>>
      /\ option = "--config-entry" /\ ValueFits(a) /\ line \in Seq(Arguments)
  BY DEF ReadConfigEntry, Advance, LineInv
<1>2. ReadInv /\ place # "refused" /\ StoredInv
  BY <1>1 DEF LineInv
<1>3. configEntries' \in Seq(Arguments) /\ Len(configEntries') = Len(configEntries) + 1
  BY <1>1, <1>2 DEF StoredInv
<1>4. Preambled' = Preambled + 1 /\ Optioned' = Optioned /\ Waiting' = 0 /\ Preambled \in Nat
  <2>1. Len(traceId) \in Nat /\ Len(configEntries) \in Nat
    BY <1>2 DEF StoredInv
  <2> QED BY <1>1, <1>2, <1>3, <2>1, Within DEF Preambled, Optioned, Waiting
<1>5. line' \in Seq(Arguments) /\ Len(line') = Len(line) + 1
  BY <1>1, Appended
<1>6. PlaceInv'
  <2>1. Optioned = 0 /\ words = 0 /\ Len(line) = 2 * Preambled + 1
    BY <1>1, <1>4, PairAdded
  <2>2. Len(line') = 2 * Preambled' + Waiting' /\ Optioned' = 0 /\ words' = 0
    BY <1>1, <1>4, <1>5, <2>1
  <2> QED BY <1>1, <2>2 DEF PlaceInv
<1>7. PreambleInv'
  <2>1. \A i \in 1 .. Preambled : TraceAt(line', i) <=> TraceAt(line, i)
    BY <1>1, <1>4, PairAdded
  <2>2. ~TraceAt(line', Preambled') /\ Preambled' \in 1 .. Preambled'
    BY <1>1, <1>4, PairAdded
  <2>3. \A i \in 1 .. Preambled' : i \in 1 .. Preambled \/ i = Preambled'
    BY <1>4
  <2>4. \A i \in 1 .. Preambled' : PreamblePair(line'[2 * i - 1], line'[2 * i])
    BY <1>1, <1>4, PairAdded
  <2>5. traceId' = <<>> => \A i \in 1 .. Preambled' : ~TraceAt(line', i)
    BY <1>1, <1>2, <2>1, <2>2, <2>3 DEF ReadInv, PreambleInv
  <2>6. ASSUME traceId' # <<>>
        PROVE  \E i \in 1 .. Preambled' : \A j \in 1 .. Preambled' : TraceAt(line', j) <=> i = j
    <3>1. PICK i \in 1 .. Preambled : \A j \in 1 .. Preambled : TraceAt(line, j) <=> i = j
      BY <1>1, <1>2, <2>6 DEF ReadInv, PreambleInv
    <3>2. i \in 1 .. Preambled' /\ i # Preambled'
      BY <1>4
    <3> QED BY <2>1, <2>2, <2>3, <3>1, <3>2
  <2> QED BY <2>4, <2>5, <2>6 DEF PreambleInv
<1>8. ReadInv'
  BY <1>1, <1>6, <1>7 DEF ReadInv, WaitingInv, TransportInv, WordsInv, OptionsInv
<1> QED BY <1>1, <1>2, <1>3, <1>5, <1>8 DEF LineInv, StoredInv

LEMMA ExecutorEndStep ==
  ASSUME LineInv, NEW a \in Arguments, ReadExecutorEnd(a)
  PROVE  LineInv'
<1>1. /\ line' = Append(line, a) /\ place' = "transport" /\ option' = "none" /\ ends' = <<a>>
      /\ UNCHANGED <<traceId, configEntries, words, timeout, junitDir>>
      /\ option \in {"--executor-fd", "--executor-addr"} /\ ValueFits(a) /\ line \in Seq(Arguments)
  BY DEF ReadExecutorEnd, Advance, LineInv
<1>2. ReadInv /\ place # "refused" /\ StoredInv
  BY <1>1 DEF LineInv
<1>3. place = "preamble" /\ Waiting = 1
  <2>1. place # "transport"
    BY <1>1, <1>2 DEF ReadInv, PlaceInv
  <2> QED BY <1>1, <1>2, <2>1 DEF ReadInv, PlaceInv, Waiting
<1>4. Optioned = 0 /\ words = 0 /\ Len(line) = 2 * Preambled + 1 /\ Preambled \in Nat
  BY <1>2, <1>3, Within DEF ReadInv, PlaceInv
<1>5. Preambled' = Preambled /\ Optioned' = Optioned /\ Waiting' = 0
  BY <1>1 DEF Preambled, Optioned, Waiting
<1>6. /\ line' \in Seq(Arguments) /\ Len(line') = Len(line) + 1
      /\ line'[2 * Preambled + 2] = a /\ line'[2 * Preambled + 1] = line[Len(line)]
  BY <1>1, <1>4, Appended
<1>7. PlaceInv'
  BY <1>1, <1>4, <1>5, <1>6 DEF PlaceInv
<1>8. \/ option = "--executor-fd" /\ Descriptor(a)
      \/ option = "--executor-addr" /\ ~Descriptor(a)
  BY <1>1, AddressesAreValues DEF ValueFits
<1>9. line[Len(line)] = Text(option)
  BY <1>1, <1>2 DEF ReadInv, WaitingInv
<1>10. TransportInv'
  <2>1. Is(line'[2 * Preambled + 1], option)
    BY <1>6, <1>9 DEF Is
  <2>2. ends'[1] = a
    BY <1>1
  <2> QED BY <1>1, <1>5, <1>6, <1>8, <2>1, <2>2 DEF TransportInv
<1>11. ReadInv'
  BY <1>1, <1>2, <1>7, <1>10, PreambleKept DEF ReadInv, WaitingInv, WordsInv, OptionsInv
<1> QED BY <1>1, <1>2, <1>6, <1>11 DEF LineInv, StoredInv

LEMMA OrchestratorEndStep ==
  ASSUME LineInv, NEW a \in Arguments, ReadOrchestratorEnd(a)
  PROVE  LineInv'
<1>1. /\ line' = Append(line, a) /\ place' = "words" /\ option' = "none" /\ ends' = <<ends[1], a>>
      /\ UNCHANGED <<traceId, configEntries, words, timeout, junitDir>>
      /\ option \in {"--orchestrator-fd", "--orchestrator-addr"} /\ ValueFits(a) /\ line \in Seq(Arguments)
  BY DEF ReadOrchestratorEnd, Advance, LineInv
<1>2. ReadInv /\ place # "refused" /\ StoredInv
  BY <1>1 DEF LineInv
<1>3. place = "transport" /\ Waiting = 1
  BY <1>1, <1>2 DEF ReadInv, PlaceInv, Waiting
<1>4. /\ Optioned = 0 /\ words = 0 /\ Len(line) = 2 * Preambled + 3 /\ Preambled \in Nat /\ Len(ends) = 1
      /\ option = IF Descriptor(ends[1]) THEN "--orchestrator-fd" ELSE "--orchestrator-addr"
  BY <1>1, <1>2, <1>3, Within DEF ReadInv, PlaceInv
<1>5. Preambled' = Preambled /\ Optioned' = Optioned /\ Waiting' = 0
  BY <1>1 DEF Preambled, Optioned, Waiting
<1>6. /\ line' \in Seq(Arguments) /\ Len(line') = Len(line) + 1
      /\ line'[2 * Preambled + 4] = a /\ line'[2 * Preambled + 3] = line[Len(line)]
      /\ line'[2 * Preambled + 1] = line[2 * Preambled + 1] /\ line'[2 * Preambled + 2] = line[2 * Preambled + 2]
  BY <1>1, <1>4, Appended
<1>7. ends' \in Seq(Arguments) /\ Len(ends') = 2 /\ ends'[1] = ends[1] /\ ends'[2] = a
  <2>1. ends \in Seq(Arguments) /\ 1 \in 1 .. Len(ends)
    BY <1>2, <1>4 DEF StoredInv
  <2>2. ends[1] \in Arguments
    BY <2>1
  <2> QED BY <1>1, <2>2
<1>8. PlaceInv'
  BY <1>1, <1>4, <1>5, <1>6, <1>7 DEF PlaceInv
<1>9. line[Len(line)] = Text(option)
  BY <1>1, <1>2 DEF ReadInv, WaitingInv
<1>10. /\ line[2 * Preambled + 2] = ends[1]
       /\ \/ Is(line[2 * Preambled + 1], "--executor-fd") /\ Descriptor(ends[1])
          \/ Is(line[2 * Preambled + 1], "--executor-addr") /\ ~Descriptor(ends[1])
  BY <1>2, <1>3 DEF ReadInv, TransportInv
<1>11. /\ traceId # <<>> /\ a # ends[1]
       /\ option = "--orchestrator-fd" => Descriptor(a)
       /\ option = "--orchestrator-addr" => {ends[1], a} \subseteq Loopback
  BY <1>1 DEF ValueFits
<1>12. Transport(line'[2 * Preambled + 1], line'[2 * Preambled + 2], line'[2 * Preambled + 3], line'[2 * Preambled + 4])
  <2>1. Is(line'[2 * Preambled + 3], option)
    BY <1>6, <1>9 DEF Is
  <2> QED BY <1>4, <1>6, <1>10, <1>11, <2>1 DEF Transport
<1>13. TransportInv'
  BY <1>1, <1>5, <1>6, <1>7, <1>10, <1>11, <1>12 DEF TransportInv
<1>14. WordsInv'
  BY <1>1, <1>4 DEF WordsInv
<1>15. ReadInv'
  BY <1>1, <1>2, <1>8, <1>13, <1>14, PreambleKept DEF ReadInv, WaitingInv, OptionsInv
<1> QED BY <1>1, <1>2, <1>6, <1>7, <1>15 DEF LineInv, StoredInv

LEMMA WordStep ==
  ASSUME LineInv, NEW a \in Arguments, place = "words", a = FixedWords[words + 1],
         Advance(a, IF words = 3 THEN "options" ELSE "words", "none"), words' = words + 1,
         UNCHANGED <<traceId, configEntries, ends, timeout, junitDir>>
  PROVE  LineInv'
<1>1. line' = Append(line, a) /\ place' = (IF words = 3 THEN "options" ELSE "words") /\ option' = "none" /\ line \in Seq(Arguments)
  BY DEF Advance, LineInv
<1>2. ReadInv /\ place # "refused" /\ StoredInv
  BY DEF LineInv
<1>3. /\ Len(line) = 2 * Preambled + 4 + words /\ words \in 0 .. 3 /\ Optioned = 0 /\ Len(ends) = 2 /\ Preambled \in Nat
  BY <1>2, Within DEF ReadInv, PlaceInv
<1>4. Preambled' = Preambled /\ Optioned' = Optioned /\ Waiting' = 0
  BY <1>1 DEF Preambled, Optioned, Waiting
<1>5. line' \in Seq(Arguments) /\ Len(line') = Len(line) + 1 /\ line'[Len(line) + 1] = a
      /\ \A i \in 1 .. Len(line) : line'[i] = line[i]
  BY <1>1, Appended
<1>6. PlaceInv'
  <2>1. CASE words = 3
    BY <1>1, <1>3, <1>4, <1>5, <2>1 DEF PlaceInv
  <2>2. CASE words # 3
    BY <1>1, <1>3, <1>4, <1>5, <2>2 DEF PlaceInv
  <2> QED BY <2>1, <2>2
<1>7. WordsInv'
  <2>1. \A i \in 1 .. words : line'[2 * Preambled + 4 + i] = FixedWords[i]
    BY <1>2, <1>3, <1>5 DEF ReadInv, WordsInv
  <2>2. line'[2 * Preambled + 4 + (words + 1)] = FixedWords[words + 1]
    BY <1>3, <1>5
  <2>3. \A i \in 1 .. (words + 1) : i \in 1 .. words \/ i = words + 1
    BY <1>3
  <2> QED BY <1>4, <2>1, <2>2, <2>3 DEF WordsInv
<1>8. OptionsInv'
  <2>1. Options' = {} /\ timeout = <<>> /\ junitDir = <<>>
    <3>1. Len(timeout) = 0 /\ Len(junitDir) = 0
      BY <1>2, <1>3 DEF StoredInv, Optioned
    <3>2. timeout \in Seq(0 .. I64Max) /\ junitDir \in Seq(Arguments)
      BY <1>2 DEF StoredInv
    <3>3. timeout = <<>> /\ junitDir = <<>>
      BY <3>1, <3>2
    <3> QED BY <1>3, <1>4, <3>3 DEF Options
  <2> QED BY <2>1 DEF OptionsInv
<1>9. ReadInv'
  BY <1>1, <1>2, <1>6, <1>7, <1>8, PreambleKept, TransportKept DEF ReadInv, WaitingInv
<1> QED BY <1>1, <1>2, <1>5, <1>9 DEF LineInv, StoredInv

\* The pair of one of the executor's own options and its value.
LEMMA OptionAdded ==
  ASSUME LineInv, option \in {"--timeout", "--junit-dir"}, NEW a \in Arguments, line' = Append(line, a),
         UNCHANGED <<traceId, configEntries>>, Optioned' = Optioned + 1, ValueFits(a)
  PROVE  /\ place = "options" /\ Len(line) = 2 * Preambled + 9 + 2 * Optioned /\ Len(ends) = 2 /\ words = 4
         /\ Preambled \in Nat /\ Optioned \in 0 .. 2 /\ Preambled' = Preambled
         /\ \A i \in Options : line'[2 * i - 1] = line[2 * i - 1] /\ line'[2 * i] = line[2 * i]
         /\ line'[2 * (Preambled + 5 + Optioned) - 1] = Text(option) /\ line'[2 * (Preambled + 5 + Optioned)] = a
         /\ \A i \in Options' : i \in Options \/ i = Preambled + 5 + Optioned
         /\ Options \subseteq Options' /\ Preambled + 5 + Optioned \in Options'
         /\ OptionPair(Text(option), a)
<1>1. ReadInv /\ place # "refused" /\ line \in Seq(Arguments)
  BY DEF LineInv
<1>2. place = "options" /\ Waiting = 1
  <2>1. place # "transport"
    BY <1>1 DEF ReadInv, PlaceInv
  <2> QED BY <1>1, <2>1 DEF ReadInv, PlaceInv, Waiting
<1>3. Preambled \in Nat /\ Optioned \in 0 .. 2 /\ Preambled' = Preambled
  BY <1>1, Within DEF Preambled
<1>4. Len(line) = 2 * Preambled + 9 + 2 * Optioned /\ Len(ends) = 2 /\ words = 4
  BY <1>1, <1>2, <1>3 DEF ReadInv, PlaceInv
<1>5. Len(line') = Len(line) + 1 /\ line'[Len(line) + 1] = a /\ \A i \in 1 .. Len(line) : line'[i] = line[i]
  BY <1>1, Appended
<1>6. \A i \in Options : line'[2 * i - 1] = line[2 * i - 1] /\ line'[2 * i] = line[2 * i]
  BY <1>3, <1>4, <1>5 DEF Options
<1>7. line'[2 * (Preambled + 5 + Optioned) - 1] = line[Len(line)] /\ line'[2 * (Preambled + 5 + Optioned)] = a
  <2>1. 2 * (Preambled + 5 + Optioned) = Len(line) + 1 /\ 2 * (Preambled + 5 + Optioned) - 1 = Len(line)
    BY <1>3, <1>4
  <2>2. Len(line) \in 1 .. Len(line)
    BY <1>3, <1>4
  <2> QED BY <1>5, <2>1, <2>2
<1>8. line[Len(line)] = Text(option)
  BY <1>1 DEF ReadInv, WaitingInv
<1>9. /\ \A i \in Options' : i \in Options \/ i = Preambled + 5 + Optioned
      /\ Options \subseteq Options' /\ Preambled + 5 + Optioned \in Options'
  BY <1>3 DEF Options
<1>10. OptionPair(Text(option), a)
  BY TimeoutsFit DEF ValueFits, OptionPair, Is
<1> QED BY <1>2, <1>3, <1>4, <1>6, <1>7, <1>8, <1>9, <1>10

LEMMA TimeoutStep ==
  ASSUME LineInv, NEW a \in Arguments, ReadTimeout(a)
  PROVE  LineInv'
<1>1. /\ line' = Append(line, a) /\ place' = "options" /\ option' = "none" /\ timeout' = <<a.number>>
      /\ UNCHANGED <<traceId, configEntries, ends, words, junitDir>>
      /\ option = "--timeout" /\ ValueFits(a) /\ line \in Seq(Arguments)
  BY DEF ReadTimeout, Advance, LineInv
<1>2. ReadInv /\ place # "refused" /\ StoredInv
  BY <1>1 DEF LineInv
<1>3. timeout = <<>>
  <2>1. place # "transport"
    BY <1>1, <1>2 DEF ReadInv, PlaceInv
  <2> QED BY <1>1, <1>2, <2>1 DEF ReadInv, PlaceInv
<1>4. Optioned' = Optioned + 1 /\ Waiting' = 0
  <2>1. Len(junitDir) \in 0 .. 1 /\ Len(timeout) = 0 /\ Len(timeout') = 1
    BY <1>1, <1>2, <1>3 DEF StoredInv
  <2> QED BY <1>1, <2>1 DEF Optioned, Waiting
<1>5. line' \in Seq(Arguments) /\ Len(line') = Len(line) + 1
  BY <1>1, Appended
<1> DEFINE n == Preambled + 5 + Optioned
<1>6. /\ place = "options" /\ Len(line) = 2 * Preambled + 9 + 2 * Optioned /\ Len(ends) = 2 /\ words = 4
      /\ Preambled \in Nat /\ Optioned \in 0 .. 2 /\ Preambled' = Preambled
      /\ \A i \in Options : line'[2 * i - 1] = line[2 * i - 1] /\ line'[2 * i] = line[2 * i]
      /\ line'[2 * n - 1] = Text("--timeout") /\ line'[2 * n] = a
      /\ \A i \in Options' : i \in Options \/ i = n
      /\ Options \subseteq Options' /\ n \in Options'
      /\ OptionPair(Text("--timeout"), a)
  BY <1>1, <1>4, OptionAdded
<1>7. PlaceInv'
  <2>1. Len(line') = 2 * Preambled' + 8 + 2 * Optioned' + Waiting'
    <3>1. Len(line) = 2 * Preambled + 9 + 2 * Optioned /\ Preambled \in Nat /\ Optioned \in 0 .. 2 /\ Preambled' = Preambled
      BY <1>6
    <3> HIDE DEF n
    <3> QED BY <1>4, <1>5, <3>1
  <2> QED BY <1>1, <1>6, <2>1 DEF PlaceInv
<1> HIDE DEF n
<1>8. OptionsInv'
  <2>1. /\ \A i \in Options : OptionPair(line[2 * i - 1], line[2 * i])
        /\ \A i, j \in Options : line[2 * i - 1] = line[2 * j - 1] => i = j
        /\ \A i \in Options : OptionAt(line, i, "--junit-dir") => junitDir = <<line[2 * i]>>
        /\ junitDir # <<>> => \E i \in Options : OptionAt(line, i, "--junit-dir")
    BY <1>2, <1>6 DEF ReadInv, OptionsInv
  <2>2. \A i \in Options : line[2 * i - 1] # Text("--timeout")
    BY <1>2, <1>3, <1>6 DEF ReadInv, OptionsInv, OptionAt, Is
  <2>3. ~OptionAt(line', n, "--junit-dir")
    BY <1>6, TextsDiffer DEF OptionAt, Is
  <2>4. \A i \in Options' : OptionPair(line'[2 * i - 1], line'[2 * i])
    BY <1>6, <2>1
  <2>5. \A i, j \in Options' : line'[2 * i - 1] = line'[2 * j - 1] => i = j
    BY <1>6, <2>1, <2>2
  <2>6. \A i \in Options' : OptionAt(line', i, "--timeout") => timeout' = <<line'[2 * i].number>>
    BY <1>1, <1>6, <2>2 DEF OptionAt, Is
  <2>7. \A i \in Options' : OptionAt(line', i, "--junit-dir") => junitDir' = <<line'[2 * i]>>
    BY <1>1, <1>6, <2>1, <2>3 DEF OptionAt
  <2>8. \E i \in Options' : OptionAt(line', i, "--timeout")
    BY <1>6 DEF OptionAt, Is
  <2>9. junitDir' # <<>> => \E i \in Options' : OptionAt(line', i, "--junit-dir")
    BY <1>1, <1>6, <2>1 DEF OptionAt
  <2> QED BY <2>4, <2>5, <2>6, <2>7, <2>8, <2>9 DEF OptionsInv
<1>9. WordsInv' /\ TransportInv' /\ PreambleInv'
  BY <1>1, <1>2, <1>6, WordsKept, TransportKept, PreambleKept
<1>10. timeout' \in Seq(0 .. I64Max) /\ Len(timeout') = 1
  <2>1. a.number \in 0 .. I64Max
    BY <1>1, WidthsAssumption DEF ValueFits, TimeoutFits
  <2> QED BY <1>1, <2>1
<1>11. ReadInv'
  BY <1>1, <1>7, <1>8, <1>9 DEF ReadInv, WaitingInv
<1> QED BY <1>1, <1>2, <1>5, <1>10, <1>11 DEF LineInv, StoredInv

LEMMA JunitDirStep ==
  ASSUME LineInv, NEW a \in Arguments, ReadJunitDir(a)
  PROVE  LineInv'
<1>1. /\ line' = Append(line, a) /\ place' = "options" /\ option' = "none" /\ junitDir' = <<a>>
      /\ UNCHANGED <<traceId, configEntries, ends, words, timeout>>
      /\ option = "--junit-dir" /\ ValueFits(a) /\ line \in Seq(Arguments)
  BY DEF ReadJunitDir, Advance, LineInv
<1>2. ReadInv /\ place # "refused" /\ StoredInv
  BY <1>1 DEF LineInv
<1>3. junitDir = <<>>
  <2>1. place # "transport"
    BY <1>1, <1>2 DEF ReadInv, PlaceInv
  <2> QED BY <1>1, <1>2, <2>1 DEF ReadInv, PlaceInv
<1>4. Optioned' = Optioned + 1 /\ Waiting' = 0
  <2>1. Len(timeout) \in 0 .. 1 /\ Len(junitDir) = 0 /\ Len(junitDir') = 1
    BY <1>1, <1>2, <1>3 DEF StoredInv
  <2> QED BY <1>1, <2>1 DEF Optioned, Waiting
<1>5. line' \in Seq(Arguments) /\ Len(line') = Len(line) + 1
  BY <1>1, Appended
<1> DEFINE n == Preambled + 5 + Optioned
<1>6. /\ place = "options" /\ Len(line) = 2 * Preambled + 9 + 2 * Optioned /\ Len(ends) = 2 /\ words = 4
      /\ Preambled \in Nat /\ Optioned \in 0 .. 2 /\ Preambled' = Preambled
      /\ \A i \in Options : line'[2 * i - 1] = line[2 * i - 1] /\ line'[2 * i] = line[2 * i]
      /\ line'[2 * n - 1] = Text("--junit-dir") /\ line'[2 * n] = a
      /\ \A i \in Options' : i \in Options \/ i = n
      /\ Options \subseteq Options' /\ n \in Options'
      /\ OptionPair(Text("--junit-dir"), a)
  BY <1>1, <1>4, OptionAdded
<1>7. PlaceInv'
  <2>1. Len(line') = 2 * Preambled' + 8 + 2 * Optioned' + Waiting'
    <3>1. Len(line) = 2 * Preambled + 9 + 2 * Optioned /\ Preambled \in Nat /\ Optioned \in 0 .. 2 /\ Preambled' = Preambled
      BY <1>6
    <3> HIDE DEF n
    <3> QED BY <1>4, <1>5, <3>1
  <2> QED BY <1>1, <1>6, <2>1 DEF PlaceInv
<1> HIDE DEF n
<1>8. OptionsInv'
  <2>1. /\ \A i \in Options : OptionPair(line[2 * i - 1], line[2 * i])
        /\ \A i, j \in Options : line[2 * i - 1] = line[2 * j - 1] => i = j
        /\ \A i \in Options : OptionAt(line, i, "--timeout") => timeout = <<line[2 * i].number>>
        /\ timeout # <<>> => \E i \in Options : OptionAt(line, i, "--timeout")
    BY <1>2, <1>6 DEF ReadInv, OptionsInv
  <2>2. \A i \in Options : line[2 * i - 1] # Text("--junit-dir")
    BY <1>2, <1>3, <1>6 DEF ReadInv, OptionsInv, OptionAt, Is
  <2>3. ~OptionAt(line', n, "--timeout")
    BY <1>6, TextsDiffer DEF OptionAt, Is
  <2>4. \A i \in Options' : OptionPair(line'[2 * i - 1], line'[2 * i])
    BY <1>6, <2>1
  <2>5. \A i, j \in Options' : line'[2 * i - 1] = line'[2 * j - 1] => i = j
    BY <1>6, <2>1, <2>2
  <2>6. \A i \in Options' : OptionAt(line', i, "--junit-dir") => junitDir' = <<line'[2 * i]>>
    BY <1>1, <1>6, <2>2 DEF OptionAt, Is
  <2>7. \A i \in Options' : OptionAt(line', i, "--timeout") => timeout' = <<line'[2 * i].number>>
    BY <1>1, <1>6, <2>1, <2>3 DEF OptionAt
  <2>8. \E i \in Options' : OptionAt(line', i, "--junit-dir")
    BY <1>6 DEF OptionAt, Is
  <2>9. timeout' # <<>> => \E i \in Options' : OptionAt(line', i, "--timeout")
    BY <1>1, <1>6, <2>1 DEF OptionAt
  <2> QED BY <2>4, <2>5, <2>6, <2>7, <2>8, <2>9 DEF OptionsInv
<1>9. WordsInv' /\ TransportInv' /\ PreambleInv'
  BY <1>1, <1>2, <1>6, WordsKept, TransportKept, PreambleKept
<1>10. ReadInv'
  BY <1>1, <1>7, <1>8, <1>9 DEF ReadInv, WaitingInv
<1> QED BY <1>1, <1>2, <1>5, <1>10 DEF LineInv, StoredInv
-------------------------------------------------------------------------------
\* A line of Buck's that begins with what was read has its transport where
\* parse met one, and not before.
LEMMA TransportsMeet ==
  ASSUME LineInv, place # "refused", NEW l \in Seq(Arguments), Begins(line, l), NEW p \in Nat, NEW k \in Nat, BucksLineAt(l, p, k)
  PROVE  Preambled <= p /\ (place # "preamble" => p = Preambled)
<1>1. ReadInv /\ line \in Seq(Arguments) /\ Preambled \in Nat /\ 2 * Preambled <= Len(line)
  BY Within DEF LineInv
<1>2. Is(l[2 * p + 1], "--executor-fd") \/ Is(l[2 * p + 1], "--executor-addr")
  BY DEF BucksLineAt, Transport
<1>3. \A o, v : PreamblePair(o, v) => ~Is(o, "--executor-fd") /\ ~Is(o, "--executor-addr")
  BY TextsDiffer DEF PreamblePair, Is
<1>4. ASSUME p < Preambled PROVE FALSE
  <2>1. p + 1 \in 1 .. Preambled /\ 2 * (p + 1) - 1 = 2 * p + 1 /\ 2 * p + 1 \in 1 .. Len(line)
    BY <1>1, <1>4
  <2>2. PreamblePair(line[2 * (p + 1) - 1], line[2 * (p + 1)])
    BY <1>1, <2>1 DEF ReadInv, PreambleInv
  <2>3. line[2 * p + 1] = l[2 * p + 1]
    BY <2>1 DEF Begins
  <2> QED BY <1>2, <1>3, <2>1, <2>2, <2>3
<1>5. ASSUME Preambled < p, place # "preamble" PROVE FALSE
  <2>1. place \in {"transport", "words", "options"}
    BY <1>1, <1>5 DEF ReadInv, PlaceInv
  <2>2. Is(line[2 * Preambled + 1], "--executor-fd") \/ Is(line[2 * Preambled + 1], "--executor-addr")
    BY <1>1, <2>1 DEF ReadInv, TransportInv
  <2>3. 2 * Preambled + 1 \in 1 .. Len(line)
    BY <1>1, <2>1, Within
  <2>4. l[2 * Preambled + 1] = line[2 * Preambled + 1]
    BY <2>3 DEF Begins
  <2>5. Preambled + 1 \in 1 .. p /\ 2 * (Preambled + 1) - 1 = 2 * Preambled + 1
    BY <1>1, <1>5
  <2>6. PreamblePair(l[2 * (Preambled + 1) - 1], l[2 * (Preambled + 1)])
    BY <2>5 DEF BucksLineAt
  <2> QED BY <1>3, <2>2, <2>4, <2>5, <2>6
<1> QED BY <1>1, <1>4, <1>5

\* What Buck may write after what was read is what parse takes: an option ...
LEMMA BucksOptionFits ==
  ASSUME LineInv, option = "none", place \in {"preamble", "transport", "options"},
         NEW l \in Seq(Arguments), Begins(line, l), Len(line) < Len(l), BucksLine(l)
  PROVE  OptionFits(l[Len(line) + 1])
<1>1. PICK p, k \in 0 .. Len(l) : BucksLineAt(l, p, k)
  BY DEF BucksLine
<1>2. /\ ReadInv /\ line \in Seq(Arguments) /\ Preambled \in Nat /\ p \in Nat /\ k \in Nat /\ Waiting = 0 /\ Optioned \in 0 .. 2
      /\ Preambled <= p /\ (place # "preamble" => p = Preambled)
  <2>1. ReadInv /\ line \in Seq(Arguments) /\ place # "refused"
    BY DEF LineInv
  <2>2. p \in Nat /\ k \in Nat
    OBVIOUS
  <2>3. Preambled <= p /\ (place # "preamble" => p = Preambled)
    BY <1>1, <2>1, <2>2, TransportsMeet
  <2> QED BY <2>1, <2>2, <2>3, Within DEF Waiting
<1> DEFINE a == l[Len(line) + 1]
<1>3. CASE place = "preamble" /\ Preambled < p
  <2>1. Len(line) = 2 * Preambled
    BY <1>2, <1>3 DEF ReadInv, PlaceInv
  <2>2. Preambled + 1 \in 1 .. p /\ 2 * (Preambled + 1) - 1 = Len(line) + 1
    BY <1>2, <1>3, <2>1
  <2>3. PreamblePair(a, l[2 * (Preambled + 1)])
    BY <1>1, <2>2 DEF BucksLineAt
  <2>4. CASE Is(a, "--config-entry")
    BY <1>3, <2>4 DEF OptionFits, Is
  <2>5. CASE Is(a, "--buck-trace-id")
    <3>1. ASSUME traceId # <<>> PROVE FALSE
      <4>1. PICK i \in 1 .. Preambled : TraceAt(line, i)
        BY <1>2, <3>1 DEF ReadInv, PreambleInv
      <4>2. 2 * i - 1 \in 1 .. Len(line) /\ i \in 1 .. p /\ i # Preambled + 1
        BY <1>2, <1>3, <2>1
      <4>3. TraceAt(l, i)
        BY <4>1, <4>2 DEF TraceAt, Begins
      <4>4. TraceAt(l, Preambled + 1)
        BY <2>2, <2>5 DEF TraceAt
      <4>5. \A m, n \in 1 .. p : TraceAt(l, m) /\ TraceAt(l, n) => m = n
        BY <1>1 DEF BucksLineAt, TraceAt
      <4> QED BY <2>2, <4>2, <4>3, <4>4, <4>5
    <3> QED BY <1>3, <2>5, <3>1 DEF OptionFits
  <2> QED BY <2>3, <2>4, <2>5 DEF PreamblePair
<1>4. CASE place = "preamble" /\ Preambled = p
  <2>1. Len(line) = 2 * Preambled
    BY <1>2, <1>4 DEF ReadInv, PlaceInv
  <2>2. Is(a, "--executor-fd") \/ Is(a, "--executor-addr")
    BY <1>1, <1>4, <2>1 DEF BucksLineAt, Transport
  <2> QED BY <1>4, <2>2 DEF OptionFits, Is
<1>5. CASE place = "transport"
  <2>1. Len(line) = 2 * Preambled + 2
    BY <1>2, <1>5 DEF ReadInv, PlaceInv
  <2>2. l[2 * Preambled + 1] = line[2 * Preambled + 1] /\ l[2 * Preambled + 2] = line[2 * Preambled + 2]
    BY <1>2, <2>1 DEF Begins
  <2>3. /\ line[2 * Preambled + 2] = ends[1]
        /\ \/ Is(line[2 * Preambled + 1], "--executor-fd") /\ Descriptor(ends[1])
           \/ Is(line[2 * Preambled + 1], "--executor-addr") /\ ~Descriptor(ends[1])
    BY <1>2, <1>5 DEF ReadInv, TransportInv
  <2>4. Transport(l[2 * Preambled + 1], l[2 * Preambled + 2], a, l[2 * Preambled + 4])
    <3>1. a = l[2 * Preambled + 3]
      BY <1>2, <2>1
    <3> QED BY <1>1, <1>2, <1>5, <3>1 DEF BucksLineAt
  <2>5. Is(a, IF Descriptor(ends[1]) THEN "--orchestrator-fd" ELSE "--orchestrator-addr")
    BY <2>2, <2>3, <2>4, TextsDiffer DEF Transport, Is
  <2> QED BY <1>5, <2>5 DEF OptionFits
<1>6. CASE place = "options"
  <2>1. Len(line) = 2 * Preambled + 8 + 2 * Optioned
    BY <1>2, <1>6 DEF ReadInv, PlaceInv
  <2> DEFINE n == Preambled + 5 + Optioned
  <2>2. n \in (p + 5) .. k /\ 2 * n - 1 = Len(line) + 1
    <3>1. Len(l) = 2 * k /\ Len(l) \in Nat
      BY <1>1 DEF BucksLineAt
    <3> QED BY <1>2, <1>6, <2>1, <3>1
  <2>3. OptionPair(a, l[2 * n])
    BY <1>1, <2>2 DEF BucksLineAt
  <2>4. ASSUME NEW i \in Options PROVE l[2 * i - 1] = line[2 * i - 1] /\ line[2 * i - 1] # a
    <3>1. i \in (p + 5) .. k /\ 2 * i - 1 \in 1 .. Len(line) /\ i # n
      BY <1>2, <1>6, <2>1, <2>2 DEF Options
    <3>2. l[2 * i - 1] = line[2 * i - 1]
      BY <3>1 DEF Begins
    <3>3. l[2 * i - 1] # l[2 * n - 1]
      BY <1>1, <2>2, <3>1 DEF BucksLineAt
    <3> QED BY <2>2, <3>2, <3>3
  <2>5. Is(a, "--timeout") => timeout = <<>>
    BY <1>2, <1>6, <2>4 DEF ReadInv, OptionsInv, OptionAt, Is
  <2>6. Is(a, "--junit-dir") => junitDir = <<>>
    BY <1>2, <1>6, <2>4 DEF ReadInv, OptionsInv, OptionAt, Is
  <2> QED BY <1>6, <2>3, <2>5, <2>6 DEF OptionFits, OptionPair
<1> QED BY <1>2, <1>3, <1>4, <1>5, <1>6

\* ... a value ...
LEMMA BucksValueFits ==
  ASSUME LineInv, option # "none", NEW l \in Seq(Arguments), Begins(line, l), Len(line) < Len(l), BucksLine(l)
  PROVE  ValueFits(l[Len(line) + 1])
<1>1. PICK p, k \in 0 .. Len(l) : BucksLineAt(l, p, k)
  BY DEF BucksLine
<1>2. /\ ReadInv /\ line \in Seq(Arguments) /\ Preambled \in Nat /\ p \in Nat /\ k \in Nat /\ Waiting = 1 /\ Optioned \in 0 .. 2
      /\ Preambled <= p /\ (place # "preamble" => p = Preambled)
  <2>1. ReadInv /\ line \in Seq(Arguments) /\ place # "refused"
    BY DEF LineInv
  <2>2. p \in Nat /\ k \in Nat
    OBVIOUS
  <2>3. Preambled <= p /\ (place # "preamble" => p = Preambled)
    BY <1>1, <2>1, <2>2, TransportsMeet
  <2> QED BY <2>1, <2>2, <2>3, Within DEF Waiting
<1> DEFINE a == l[Len(line) + 1]
<1>3. line[Len(line)] = Text(option)
  BY <1>2 DEF ReadInv, WaitingInv
<1>4. \A v : v \in Address \/ Descriptor(v) \/ v.number \in 0 .. U64Max \/ v = Text("/out/junit") => Value(v)
  BY AddressesAreValues, NumbersAreValues, DirectoryIsValue, WidthsAssumption DEF Descriptor
<1>5. CASE place = "preamble"
  <2>1. Len(line) = 2 * Preambled + 1 /\ option \in {"--buck-trace-id", "--config-entry", "--executor-fd", "--executor-addr"}
    BY <1>2, <1>5 DEF ReadInv, PlaceInv
  <2>2. l[2 * Preambled + 1] = Text(option) /\ l[2 * Preambled + 2] = a
    BY <1>2, <1>3, <2>1 DEF Begins
  <2>3. CASE Preambled < p
    <3>1. Preambled + 1 \in 1 .. p /\ 2 * (Preambled + 1) - 1 = 2 * Preambled + 1 /\ 2 * (Preambled + 1) = 2 * Preambled + 2
      BY <1>2, <2>3
    <3>2. PreamblePair(Text(option), a)
      BY <1>1, <2>2, <3>1 DEF BucksLineAt
    <3> QED BY <3>2, TextsDiffer DEF PreamblePair, ValueFits, Is
  <2>4. CASE Preambled = p
    <3>1. Transport(Text(option), a, l[2 * Preambled + 3], l[2 * Preambled + 4])
      BY <1>1, <2>2, <2>4 DEF BucksLineAt
    <3>2. \/ option = "--executor-fd" /\ Descriptor(a)
          \/ option = "--executor-addr" /\ a \in Address
      BY <3>1, TextsDiffer DEF Transport, Is, Address
    <3> QED BY <1>4, <3>2 DEF ValueFits
  <2> QED BY <1>2, <2>3, <2>4
<1>6. CASE place = "transport"
  <2>1. Len(line) = 2 * Preambled + 3 /\ option = (IF Descriptor(ends[1]) THEN "--orchestrator-fd" ELSE "--orchestrator-addr")
    BY <1>2, <1>6 DEF ReadInv, PlaceInv
  <2>2. l[2 * Preambled + 2] = line[2 * Preambled + 2] /\ l[2 * Preambled + 3] = Text(option) /\ l[2 * Preambled + 4] = a
    BY <1>2, <1>3, <2>1 DEF Begins
  <2>3. line[2 * Preambled + 2] = ends[1]
    BY <1>2, <1>6 DEF ReadInv, TransportInv
  <2>4. Transport(l[2 * Preambled + 1], ends[1], Text(option), a)
    BY <1>1, <1>2, <1>6, <2>2, <2>3 DEF BucksLineAt
  <2>5. \/ option = "--orchestrator-fd" /\ Descriptor(a) /\ a # ends[1]
        \/ option = "--orchestrator-addr" /\ a # ends[1] /\ {ends[1], a} \subseteq Loopback
    BY <2>4, TextsDiffer DEF Transport, Is
  <2>6. traceId # <<>>
    <3>1. PICK i \in 1 .. p : TraceAt(l, i)
      BY <1>1 DEF BucksLineAt, TraceAt
    <3>2. i \in 1 .. Preambled /\ 2 * i - 1 \in 1 .. Len(line)
      BY <1>2, <1>6, <2>1
    <3>3. TraceAt(line, i)
      BY <3>1, <3>2 DEF Begins, TraceAt
    <3> QED BY <1>2, <3>2, <3>3 DEF ReadInv, PreambleInv
  <2> QED BY <1>4, <2>5, <2>6 DEF ValueFits, Address
<1>7. CASE place = "options"
  <2>1. Len(line) = 2 * Preambled + 9 + 2 * Optioned
    BY <1>2, <1>7 DEF ReadInv, PlaceInv
  <2> DEFINE n == Preambled + 5 + Optioned
  <2>2. n \in (p + 5) .. k /\ 2 * n - 1 = Len(line) /\ 2 * n = Len(line) + 1
    <3>1. Len(l) = 2 * k /\ Len(l) \in Nat
      BY <1>1 DEF BucksLineAt
    <3> QED BY <1>2, <1>7, <2>1, <3>1
  <2>3. l[2 * n - 1] = Text(option)
    BY <1>2, <1>3, <2>1, <2>2 DEF Begins
  <2>4. OptionPair(Text(option), a)
    BY <1>1, <2>2, <2>3 DEF BucksLineAt
  <2>5. \/ option = "--timeout" /\ TimeoutFits(a.number) /\ Value(a)
        \/ option = "--junit-dir" /\ Is(a, "/out/junit") /\ Value(a)
    BY <1>4, <2>4, TextsDiffer, TimeoutsFit DEF OptionPair, Is
  <2> QED BY <2>5 DEF ValueFits
<1> QED BY <1>2, <1>5, <1>6, <1>7 DEF ReadInv, PlaceInv

\* ... or a word.
LEMMA BucksWordFits ==
  ASSUME LineInv, place = "words", NEW l \in Seq(Arguments), Begins(line, l), Len(line) < Len(l), BucksLine(l)
  PROVE  l[Len(line) + 1] = FixedWords[words + 1]
<1>1. PICK p, k \in 0 .. Len(l) : BucksLineAt(l, p, k)
  BY DEF BucksLine
<1>2. ReadInv /\ line \in Seq(Arguments) /\ p = Preambled
  <2>1. p \in Nat /\ k \in Nat
    OBVIOUS
  <2> QED BY <1>1, <2>1, TransportsMeet DEF LineInv
<1>3. Len(line) = 2 * p + 4 + words /\ words \in 0 .. 3
  BY <1>2 DEF ReadInv, PlaceInv
<1>4. words + 1 \in 1 .. 4 /\ Len(line) + 1 = 2 * p + 4 + (words + 1)
  BY <1>3
<1> QED BY <1>1, <1>4 DEF BucksLineAt

\* So a refused argument has no place in any of Buck's lines.
LEMMA RefusalStep ==
  ASSUME LineInv, place # "refused", NEW a \in Arguments, RefuseArgument(a),
         \A l \in Seq(Arguments) : Begins(line, l) /\ Len(line) < Len(l) /\ BucksLine(l) => l[Len(line) + 1] # a
  PROVE  LineInv'
<1>1. /\ line' = Append(line, a) /\ place' = "refused" /\ option' = "none" /\ line \in Seq(Arguments) /\ StoredInv
      /\ UNCHANGED <<traceId, configEntries, ends, words, timeout, junitDir>>
  BY DEF RefuseArgument, Advance, parsed, LineInv
<1>2. /\ line' \in Seq(Arguments) /\ Len(line') = Len(line) + 1 /\ line'[Len(line) + 1] = a
      /\ \A i \in 1 .. Len(line) : line'[i] = line[i]
  BY <1>1, Appended
<1>3. ASSUME NEW l \in Seq(Arguments), Begins(line', l) PROVE ~BucksLine(l)
  <2>1. Begins(line, l) /\ Len(line) < Len(l) /\ l[Len(line) + 1] = a
    BY <1>1, <1>2, <1>3 DEF Begins
  <2> QED BY <2>1
<1>4. RefusedInv'
  BY <1>3 DEF RefusedInv
<1> QED BY <1>1, <1>2, <1>4 DEF LineInv, StoredInv

LEMMA LineStep == LineInv /\ [LineNext]_lineVars => LineInv'
<1> SUFFICES ASSUME LineInv, [LineNext]_lineVars PROVE LineInv'
  OBVIOUS
<1>1. CASE UNCHANGED lineVars
  BY <1>1 DEF lineVars, parsed, LineInv, StoredInv, RefusedInv, ReadInv, PlaceInv, WaitingInv, PreambleInv, TransportInv,
              WordsInv, OptionsInv, Preambled, Optioned, Waiting, Options, OptionAt, TraceAt
<1>2. ASSUME NEW a \in Arguments, ReadOption(a) PROVE LineInv'
  <2>1. CASE OptionFits(a) /\ Advance(a, place, a.text) /\ UNCHANGED parsed
    BY <1>2, <2>1, OptionStep DEF ReadOption
  <2>2. CASE ~OptionFits(a) /\ RefuseArgument(a)
    BY <1>2, <2>2, BucksOptionFits, RefusalStep DEF ReadOption
  <2> QED BY <1>2, <2>1, <2>2 DEF ReadOption
<1>3. ASSUME NEW a \in Arguments, ReadWord(a) PROVE LineInv'
  <2>1. CASE a # FixedWords[words + 1] /\ RefuseArgument(a)
    BY <1>3, <2>1, BucksWordFits, RefusalStep DEF ReadWord
  <2> QED BY <1>3, <2>1, WordStep DEF ReadWord
<1>4. ASSUME NEW a \in Arguments, RefuseValue(a) PROVE LineInv'
  <2>1. place # "refused"
    BY <1>4 DEF RefuseValue, LineInv
  <2> QED BY <1>4, <2>1, BucksValueFits, RefusalStep DEF RefuseValue
<1> QED BY <1>1, <1>2, <1>3, <1>4, TraceIdStep, ConfigEntryStep, ExecutorEndStep, OrchestratorEndStep, TimeoutStep, JunitDirStep
        DEF LineNext
-------------------------------------------------------------------------------
\* What was read when the line is accepted.
LEMMA AcceptedLine ==
  ASSUME LineInv, Accepted
  PROVE  /\ ReadInv /\ line \in Seq(Arguments) /\ Preambled \in Nat /\ Optioned \in 1 .. 2
         /\ place = "options" /\ Len(line) = 2 * (Preambled + 4 + Optioned) /\ words = 4
<1>1. place = "options" /\ option = "none" /\ place # "refused" /\ junitDir # <<>>
  BY DEF Accepted
<1>2. ReadInv /\ line \in Seq(Arguments) /\ StoredInv
  BY <1>1 DEF LineInv
<1>3. Preambled \in Nat /\ Waiting = 0
  BY <1>1, Within DEF Waiting
<1>4. Optioned \in 1 .. 2
  <2>1. junitDir \in Seq(Arguments) /\ Len(junitDir) \in 0 .. 1
    BY <1>2 DEF StoredInv
  <2>2. Len(junitDir) = 1
    BY <1>1, <2>1
  <2>3. Len(timeout) \in 0 .. 1
    BY <1>2 DEF StoredInv
  <2>4. \A m \in 0 .. 1 : m + 1 \in 1 .. 2
    OBVIOUS
  <2> QED BY <2>2, <2>3, <2>4 DEF Optioned
<1>5. Len(line) = 2 * Preambled + 8 + 2 * Optioned /\ words = 4
  BY <1>1, <1>2, <1>3, <1>4 DEF ReadInv, PlaceInv
<1> QED BY <1>1, <1>2, <1>3, <1>4, <1>5

LEMMA AcceptedIsBucks == LineInv /\ Accepted => BucksLine(line)
<1> SUFFICES ASSUME LineInv, Accepted PROVE BucksLine(line)
  OBVIOUS
<1> DEFINE k == Preambled + 4 + Optioned
<1>1. /\ ReadInv /\ line \in Seq(Arguments) /\ Preambled \in Nat /\ Optioned \in 1 .. 2
      /\ place = "options" /\ Len(line) = 2 * k /\ words = 4
  BY AcceptedLine
<1>2. Preambled + 5 <= k /\ Preambled \in 0 .. Len(line) /\ k \in 0 .. Len(line)
  BY <1>1
<1>3. /\ \A i \in 1 .. Preambled : PreamblePair(line[2 * i - 1], line[2 * i])
      /\ traceId # <<>>
      /\ Transport(line[2 * Preambled + 1], line[2 * Preambled + 2], line[2 * Preambled + 3], line[2 * Preambled + 4])
  BY <1>1 DEF ReadInv, PreambleInv, TransportInv
<1>4. \E i \in 1 .. Preambled : \A j \in 1 .. Preambled : Is(line[2 * j - 1], "--buck-trace-id") <=> i = j
  BY <1>1, <1>3 DEF ReadInv, PreambleInv, TraceAt
<1>5. \A i \in 1 .. 4 : line[2 * Preambled + 4 + i] = FixedWords[i]
  BY <1>1 DEF ReadInv, WordsInv
<1>6. /\ \A i \in (Preambled + 5) .. k : OptionPair(line[2 * i - 1], line[2 * i])
      /\ \A i, j \in (Preambled + 5) .. k : line[2 * i - 1] = line[2 * j - 1] => i = j
      /\ \E i \in (Preambled + 5) .. k : Is(line[2 * i - 1], "--junit-dir")
  <2>1. OptionsInv /\ junitDir # <<>>
    BY <1>1 DEF ReadInv, Accepted
  <2> QED BY <1>1, <2>1 DEF OptionsInv, Options, OptionAt
<1>7. BucksLineAt(line, Preambled, k)
  BY <1>1, <1>2, <1>3, <1>4, <1>5, <1>6 DEF BucksLineAt
<1> QED BY <1>2, <1>7 DEF BucksLine

LEMMA BucksIsAccepted == LineInv /\ BucksLine(line) => Accepted
<1> SUFFICES ASSUME LineInv, BucksLine(line) PROVE Accepted
  OBVIOUS
<1>1. line \in Seq(Arguments) /\ Begins(line, line)
  BY DEF LineInv, Begins
<1>2. place # "refused"
  BY <1>1 DEF LineInv, RefusedInv
<1>3. PICK p, k \in 0 .. Len(line) : BucksLineAt(line, p, k)
  BY DEF BucksLine
<1>4. p \in Nat /\ k \in Nat /\ Len(line) = 2 * k /\ p + 5 <= k
  BY <1>3 DEF BucksLineAt
<1>5. Preambled \in Nat /\ Preambled <= p /\ (place # "preamble" => p = Preambled)
  BY <1>1, <1>2, <1>3, <1>4, TransportsMeet, Within
<1>6. ReadInv /\ Waiting \in 0 .. 1 /\ Optioned \in 0 .. 2
  BY <1>2, Within DEF LineInv
<1>7. place = "options" /\ Len(line) = 2 * Preambled + 8 + 2 * Optioned + Waiting
  BY <1>4, <1>5, <1>6 DEF ReadInv, PlaceInv
<1>8. Waiting = 0 /\ k = Preambled + 4 + Optioned
  BY <1>4, <1>5, <1>6, <1>7
<1>9. PICK i \in (p + 5) .. k : Is(line[2 * i - 1], "--junit-dir")
  BY <1>3 DEF BucksLineAt
<1>10. i \in Options /\ OptionAt(line, i, "--junit-dir")
  BY <1>5, <1>7, <1>8, <1>9 DEF Options, OptionAt
<1>11. junitDir = <<line[2 * i]>>
  BY <1>6, <1>7, <1>10 DEF ReadInv, OptionsInv
<1>12. junitDir # <<>>
  BY <1>11
<1>13. option = "none"
  BY <1>8 DEF Waiting
<1> QED BY <1>7, <1>12, <1>13 DEF Accepted

\* No value and no word of an accepted line reads like one of its options.
LEMMA OptionsStandFirst ==
  ASSUME LineInv, Accepted, NEW i \in DOMAIN line,
         NEW o \in {"--executor-fd", "--executor-addr", "--orchestrator-fd", "--orchestrator-addr", "--timeout", "--junit-dir"},
         Is(line[i], o)
  PROVE  \/ o \in {"--executor-fd", "--executor-addr"} /\ i = 2 * Preambled + 1
         \/ o \in {"--orchestrator-fd", "--orchestrator-addr"} /\ i = 2 * Preambled + 3
         \/ o \in {"--timeout", "--junit-dir"} /\ \E n \in Options : i = 2 * n - 1
<1>1. /\ ReadInv /\ line \in Seq(Arguments) /\ Preambled \in Nat /\ Optioned \in 1 .. 2
      /\ place = "options" /\ Len(line) = 2 * (Preambled + 4 + Optioned) /\ words = 4
  BY AcceptedLine
<1>2. ~Value(line[i]) /\ line[i] = Text(o)
  BY OptionsAreDashed DEF Is
<1>3. i \in 1 .. 2 * (Preambled + 4 + Optioned)
  BY <1>1
<1>4. PICK n \in 1 .. Preambled + 4 + Optioned : i = 2 * n - 1 \/ i = 2 * n
  <2>1. \A m \in Nat : \A j \in 1 .. 2 * m : \E n \in 1 .. m : j = 2 * n - 1 \/ j = 2 * n
    <3> SUFFICES ASSUME NEW m \in Nat, NEW j \in 1 .. 2 * m PROVE \E n \in 1 .. m : j = 2 * n - 1 \/ j = 2 * n
      OBVIOUS
    <3>1. (j + 1) \div 2 \in 1 .. m /\ (j = 2 * ((j + 1) \div 2) - 1 \/ j = 2 * ((j + 1) \div 2))
      OBVIOUS
    <3> QED BY <3>1
  <2>2. Preambled + 4 + Optioned \in Nat
    BY <1>1
  <2> QED BY <1>3, <2>1, <2>2
<1>5. CASE n \in 1 .. Preambled
  <2>1. PreamblePair(line[2 * n - 1], line[2 * n])
    BY <1>1, <1>5 DEF ReadInv, PreambleInv
  <2>2. Value(line[2 * n]) /\ \E w \in {"--buck-trace-id", "--config-entry"} : line[2 * n - 1] = Text(w)
    BY <2>1 DEF PreamblePair, Is
  <2> QED BY <1>2, <1>4, <2>2, TextsDiffer
<1>6. Transport(line[2 * Preambled + 1], line[2 * Preambled + 2], line[2 * Preambled + 3], line[2 * Preambled + 4])
  BY <1>1 DEF ReadInv, TransportInv
<1>7. /\ Value(line[2 * Preambled + 2]) /\ Value(line[2 * Preambled + 4])
      /\ \E w \in {"--executor-fd", "--executor-addr"} : line[2 * Preambled + 1] = Text(w)
      /\ \E w \in {"--orchestrator-fd", "--orchestrator-addr"} : line[2 * Preambled + 3] = Text(w)
  <2>1. \A v : Descriptor(v) \/ v \in Loopback => Value(v)
    BY NumbersAreValues, AddressesAreValues, WidthsAssumption DEF Descriptor, Address
  <2> QED BY <1>6, <2>1 DEF Transport, Is
<1>8. CASE n = Preambled + 1
  BY <1>1, <1>2, <1>4, <1>7, <1>8, TextsDiffer
<1>9. CASE n = Preambled + 2
  BY <1>1, <1>2, <1>4, <1>7, <1>9, TextsDiffer
<1>10. CASE n \in {Preambled + 3, Preambled + 4}
  <2>1. \A m \in 1 .. 4 : line[2 * Preambled + 4 + m] = FixedWords[m]
    BY <1>1 DEF ReadInv, WordsInv
  <2>2. \E m \in 1 .. 4 : i = 2 * Preambled + 4 + m
    <3>1. i - (2 * Preambled + 4) \in 1 .. 4 /\ i = 2 * Preambled + 4 + (i - (2 * Preambled + 4))
      BY <1>1, <1>4, <1>10
    <3> QED BY <3>1
  <2>3. \A m \in 1 .. 4 : \E w \in {"--", "ignored", "--buck-test-info"} : FixedWords[m] = Text(w)
    BY DEF FixedWords
  <2>4. \E w \in {"--", "ignored", "--buck-test-info"} : line[i] = Text(w)
    BY <2>1, <2>2, <2>3
  <2> QED BY <1>2, <2>4, TextsDiffer
<1>11. CASE n \in Options
  <2>1. OptionPair(line[2 * n - 1], line[2 * n])
    BY <1>1, <1>11 DEF ReadInv, OptionsInv
  <2>2. Value(line[2 * n]) /\ \E w \in {"--timeout", "--junit-dir"} : line[2 * n - 1] = Text(w)
    BY <2>1, NumbersAreValues, DirectoryIsValue, WidthsAssumption DEF OptionPair, Is
  <2> QED BY <1>2, <1>4, <1>11, <2>2, TextsDiffer
<1> QED BY <1>1, <1>4, <1>5, <1>8, <1>9, <1>10, <1>11 DEF Options

LEMMA AcceptedIsTakenAsGiven == LineInv /\ Accepted => TakenAsGiven
<1> SUFFICES ASSUME LineInv, Accepted PROVE TakenAsGiven
  OBVIOUS
<1>1. /\ ReadInv /\ line \in Seq(Arguments) /\ Preambled \in Nat /\ Optioned \in 1 .. 2
      /\ place = "options" /\ Len(line) = 2 * (Preambled + 4 + Optioned) /\ words = 4
  BY AcceptedLine
<1>2. \A o \in {"--executor-fd", "--executor-addr"} : Behind(o, Connect.executor)
  <2>1. line[2 * Preambled + 2] = ends[1]
    BY <1>1 DEF ReadInv, TransportInv
  <2>2. ASSUME NEW o \in {"--executor-fd", "--executor-addr"}, NEW i \in DOMAIN line, Is(line[i], o)
        PROVE  i < Len(line) /\ line[i + 1] = ends[1]
    <3>1. i = 2 * Preambled + 1
      BY <2>2, OptionsStandFirst
    <3> QED BY <1>1, <2>1, <3>1
  <2> QED BY <2>2 DEF Behind, Connect
<1>3. \A o \in {"--orchestrator-fd", "--orchestrator-addr"} : Behind(o, Connect.orchestrator)
  <2>1. line[2 * Preambled + 4] = ends[2]
    BY <1>1 DEF ReadInv, TransportInv
  <2>2. ASSUME NEW o \in {"--orchestrator-fd", "--orchestrator-addr"}, NEW i \in DOMAIN line, Is(line[i], o)
        PROVE  i < Len(line) /\ line[i + 1] = ends[2]
    <3>1. i = 2 * Preambled + 3
      BY <2>2, OptionsStandFirst
    <3> QED BY <1>1, <2>1, <3>1
  <2> QED BY <2>2 DEF Behind, Connect
<1>4. Behind("--junit-dir", junitDir[1])
  <2>1. ASSUME NEW i \in DOMAIN line, Is(line[i], "--junit-dir") PROVE i < Len(line) /\ line[i + 1] = junitDir[1]
    <3>1. PICK n \in Options : i = 2 * n - 1
      BY <2>1, OptionsStandFirst
    <3>2. i < Len(line) /\ i + 1 = 2 * n
      BY <1>1, <3>1 DEF Options
    <3>3. junitDir = <<line[2 * n]>>
      BY <1>1, <2>1, <3>1 DEF ReadInv, OptionsInv, OptionAt
    <3> QED BY <3>2, <3>3
  <2> QED BY <2>1 DEF Behind
<1>5. timeout # <<>> => AsI64(timeout[1]) \in 0 .. I64Max
  <2>1. timeout \in Seq(0 .. I64Max)
    BY DEF LineInv, StoredInv
  <2>2. \A S, s : s \in Seq(S) /\ s # <<>> => s[1] \in S
    OBVIOUS
  <2>3. timeout # <<>> => timeout[1] \in 0 .. I64Max
    BY <2>1, <2>2
  <2> QED BY <2>3, WidthsAssumption DEF AsI64
<1>6. \A i \in DOMAIN line : Is(line[i], "--timeout") => timeout = <<line[i + 1].number>>
  <2>1. ASSUME NEW i \in DOMAIN line, Is(line[i], "--timeout") PROVE timeout = <<line[i + 1].number>>
    <3>1. PICK n \in Options : i = 2 * n - 1
      BY <2>1, OptionsStandFirst
    <3>2. i + 1 = 2 * n
      BY <1>1, <3>1 DEF Options
    <3>3. timeout = <<line[2 * n].number>>
      BY <1>1, <2>1, <3>1 DEF ReadInv, OptionsInv, OptionAt
    <3> QED BY <3>2, <3>3
  <2> QED BY <2>1
<1> QED BY <1>2, <1>3, <1>4, <1>5, <1>6 DEF TakenAsGiven

\* At every argument parse is where the arguments read so far have brought
\* it, and has stored what they gave; once it has refused one, nothing that
\* could follow makes the line one of Buck's (cli::parse).
THEOREM LineInvariance == LineSpec => []LineInv
<1>1. LineInit => LineInv
  BY LineStarts
<1>2. LineInv /\ [LineNext]_lineVars => LineInv'
  BY LineStep
<1> QED BY <1>1, <1>2, PTL DEF LineSpec

\* The executor starts on exactly the lines Buck writes: every pair in its
\* place, one trace id, two ends of one kind, the options at most once.  It
\* then speaks to each side through the end its option names, and no
\* timeout it takes is negative as the i64 of the request (cli::parse,
\* transport::connect, Orchestrator::process).
THEOREM ExecutorTakesBucksLines == LineSpec => []ExecutorLineIsBucks
<1>1. LineInv => ExecutorLineIsBucks
  BY AcceptedIsBucks, BucksIsAccepted, AcceptedIsTakenAsGiven DEF ExecutorLineIsBucks
<1> QED BY <1>1, LineInvariance, PTL

\* parse gives up at an argument only when none of Buck's lines begins with
\* what it read: it need not read on to know (cli::parse).
THEOREM RefusalsAreFinal == LineSpec => [](place = "refused" => RefusedInv)
<1>1. LineInv => (place = "refused" => RefusedInv)
  BY DEF LineInv
<1> QED BY <1>1, LineInvariance, PTL
-------------------------------------------------------------------------------
\* Induction and recursion over data: a set of naturals has a least element,
\* so a set that holds 0 and is closed under the successor holds them all,
\* and the function a step and a base determine exists and is one.

\* The order of the naturals as a set of pairs, which is what WFMin asks for.
LEMMA LessIsWellFounded == IsWellFoundedOn({p \in Nat \X Nat : p[1] < p[2]}, Nat)
BY NatLessThanWellFounded DEF OpToRel

\* A non-empty set of naturals has a least element.
LEMMA Smallest == ASSUME NEW T \in SUBSET Nat, T # {} PROVE \E n \in T : \A m \in T : n <= m
<1> DEFINE R == {p \in Nat \X Nat : p[1] < p[2]}
<1>1. IsWellFoundedOn(R, Nat)
  BY LessIsWellFounded
<1> HIDE DEF R
<1>2. PICK x \in T : \A y \in T : <<y, x>> \notin R
  BY <1>1, WFMin
<1>3. \A y \in T : ~(y < x)
  BY <1>2 DEF R
<1> QED BY <1>3

\* Induction, as a fact about sets.
LEMMA Induction == ASSUME NEW S, 0 \in S, \A n \in Nat : n \in S => n + 1 \in S PROVE Nat \subseteq S
<1>1. SUFFICES ASSUME {n \in Nat : n \notin S} # {} PROVE FALSE
  OBVIOUS
<1>2. PICK n \in {n \in Nat : n \notin S} : \A m \in {m \in Nat : m \notin S} : n <= m
  BY <1>1, Smallest
<1>3. n # 0 /\ n - 1 \in Nat /\ n - 1 \in S
  BY <1>2
<1> QED BY <1>2, <1>3

\* What a step function makes of a base, for as many steps as one likes.
Runs(T, F, base, n, h) == h \in [0 .. n -> T] /\ h[0] = base /\ \A i \in 0 .. (n - 1) : h[i + 1] = F[<<i, h[i]>>]

\* As far as two runs of a step from one base go, they agree.
LEMMA RunsAgree ==
  ASSUME NEW T, NEW F, NEW base, NEW m \in Nat, NEW n \in Nat, NEW g, NEW h, Runs(T, F, base, m, g), Runs(T, F, base, n, h)
  PROVE  \A k \in Nat : k <= m /\ k <= n => g[k] = h[k]
<1> DEFINE S == {k \in Nat : k <= m /\ k <= n => g[k] = h[k]}
<1>1. 0 \in S
  BY DEF Runs
<1>2. ASSUME NEW k \in Nat, k \in S PROVE k + 1 \in S
  <2>1. SUFFICES ASSUME k + 1 <= m, k + 1 <= n PROVE g[k + 1] = h[k + 1]
    OBVIOUS
  <2>2. g[k] = h[k] /\ k \in 0 .. (m - 1) /\ k \in 0 .. (n - 1)
    BY <1>2, <2>1
  <2> QED BY <2>2 DEF Runs
<1>3. Nat \subseteq S
  <2> HIDE DEF S
  <2> QED BY <1>1, <1>2, Induction
<1> QED BY <1>3

Trajectory(T, F, base, g) == g \in [Nat -> T] /\ g[0] = base /\ \A n \in Nat : g[n + 1] = F[<<n, g[n]>>]

\* A step and a base determine a function on the naturals.
LEMMA Recursion ==
  ASSUME NEW T, NEW F, NEW base, F \in [Nat \X T -> T], base \in T
  PROVE  \E g : Trajectory(T, F, base, g)
<1> DEFINE S == {n \in Nat : \E h : Runs(T, F, base, n, h)}
<1>1. 0 \in S
  <2>1. Runs(T, F, base, 0, [i \in 0 .. 0 |-> base])
    BY DEF Runs
  <2> QED BY <2>1
<1>2. ASSUME NEW n \in Nat, n \in S PROVE n + 1 \in S
  <2>1. PICK h : Runs(T, F, base, n, h)
    BY <1>2
  <2> DEFINE next == [i \in 0 .. (n + 1) |-> IF i = n + 1 THEN F[<<n, h[n]>>] ELSE h[i]]
  <2>2. F[<<n, h[n]>>] \in T
    BY <2>1 DEF Runs
  <2>3. next \in [0 .. (n + 1) -> T]
    BY <2>1, <2>2 DEF Runs
  <2>a. \A i \in 0 .. (n - 1) : next[i + 1] = h[i + 1] /\ next[i] = h[i] /\ h[i + 1] = F[<<i, h[i]>>]
    BY <2>1 DEF Runs
  <2>b. next[n + 1] = F[<<n, h[n]>>] /\ next[n] = h[n] /\ next[0] = base
    BY <2>1 DEF Runs
  <2>4. next[0] = base /\ \A i \in 0 .. n : next[i + 1] = F[<<i, next[i]>>]
    <3> HIDE DEF next
    <3>1. \A i \in 0 .. n : i = n \/ i \in 0 .. (n - 1)
      OBVIOUS
    <3> QED BY <2>a, <2>b, <3>1
  <2>5. Runs(T, F, base, n + 1, next)
    <3> HIDE DEF next
    <3> QED BY <2>3, <2>4 DEF Runs
  <2> QED BY <2>5
<1>3. \A n \in Nat : \E h : Runs(T, F, base, n, h)
  <2>1. Nat \subseteq S
    <3> HIDE DEF S
    <3> QED BY <1>1, <1>2, Induction
  <2> QED BY <2>1
<1> DEFINE At(n) == CHOOSE h : Runs(T, F, base, n, h)
           g == [n \in Nat |-> At(n)[n]]
<1>4. \A n \in Nat : Runs(T, F, base, n, At(n))
  BY <1>3
<1> HIDE DEF At
<1>5. \A n \in Nat : At(n)[n] \in T
  BY <1>4 DEF Runs
<1>6. ASSUME NEW n \in Nat PROVE At(n + 1)[n + 1] = F[<<n, At(n)[n]>>]
  <2>1. At(n + 1)[n] = At(n)[n]
    BY <1>4, RunsAgree
  <2>2. At(n + 1)[n + 1] = F[<<n, At(n + 1)[n]>>]
    BY <1>4 DEF Runs
  <2> QED BY <2>1, <2>2
<1>7. g \in [Nat -> T] /\ g[0] = base /\ \A n \in Nat : g[n + 1] = F[<<n, g[n]>>]
  BY <1>4, <1>5, <1>6 DEF Runs
<1>8. Trajectory(T, F, base, g)
  <2> HIDE DEF g
  <2> QED BY <1>7 DEF Trajectory
<1> QED BY <1>8

\* flatten, step by step.
Flattens(B, seqs, h) ==
  /\ h \in [0 .. Len(seqs) -> Seq(B)]
  /\ h[0] = <<>> /\ h[Len(seqs)] = FlattenSeq(seqs)
  /\ \A i \in 1 .. Len(seqs) : h[i] = h[i - 1] \o seqs[i]

\* FlattenSeq appends the sequences one after the other.
LEMMA Flattening ==
  ASSUME NEW B, NEW seqs \in Seq(Seq(B))
  PROVE  \E h : Flattens(B, seqs, h)
<1> DEFINE n == Len(seqs)
           F == [p \in Nat \X Seq(B) |-> IF p[1] + 1 \in 1 .. n THEN p[2] \o seqs[p[1] + 1] ELSE p[2]]
<1>0. n \in Nat /\ n = Len(seqs) /\ \A i \in 1 .. n : seqs[i] \in Seq(B)
  OBVIOUS
<1> HIDE DEF n
<1>1. F \in [Nat \X Seq(B) -> Seq(B)]
  <2>1. \A p \in Nat \X Seq(B) : p[1] + 1 \in 1 .. n => p[2] \o seqs[p[1] + 1] \in Seq(B)
    BY <1>0
  <2> QED BY <2>1
<1>a. \A i \in Nat : \A s \in Seq(B) : i + 1 \in 1 .. n => F[<<i, s>>] = s \o seqs[i + 1]
  OBVIOUS
<1> HIDE DEF F
<1>2. PICK g \in [Nat -> Seq(B)] : g[0] = <<>> /\ \A i \in Nat : g[i + 1] = F[<<i, g[i]>>]
  <2>1. <<>> \in Seq(B)
    OBVIOUS
  <2>2. \E g : Trajectory(Seq(B), F, <<>>, g)
    BY <1>1, <2>1, Recursion
  <2> QED BY <2>2 DEF Trajectory
<1>b. \A i \in Nat : i + 1 \in 1 .. n => g[i + 1] = g[i] \o seqs[i + 1]
  BY <1>2, <1>a
<1>3. \A i \in 1 .. n : g[i] = g[i - 1] \o seqs[i]
  <2> SUFFICES ASSUME NEW i \in 1 .. n PROVE g[i] = g[i - 1] \o seqs[i]
    OBVIOUS
  <2>1. i - 1 \in Nat /\ (i - 1) + 1 = i
    BY <1>0
  <2> QED BY <1>b, <2>1
<1>4. g[n] = FlattenSeq(seqs)
  <2>1. CASE n = 0
    <3>1. seqs = <<>>
      <4>1. Len(seqs) = 0
        BY <1>0, <2>1
      <4> QED BY <4>1
    <3> QED BY <1>2, <2>1, <3>1 DEF FlattenSeq
  <2>2. CASE n # 0
    <3> DEFINE D(f) == [i \in 1 .. n |-> IF i = 1 THEN seqs[i] ELSE f[i - 1] \o seqs[i]]
               w == [i \in 1 .. n |-> g[i]]
               flatten == CHOOSE f : f = D(f)
    <3>1. w = D(w)
      <4>1. \A i \in 1 .. n : i # 1 => i - 1 \in 1 .. n
        BY <1>0
      <4>2. seqs[1] \in Seq(B) /\ g[1] = g[0] \o seqs[1]
        <5>1. 1 \in 1 .. n /\ 1 - 1 = 0
          BY <1>0, <2>2
        <5> QED BY <1>0, <1>3, <5>1
      <4>3. g[1] = seqs[1]
        BY <1>2, <4>2
      <4>4. ASSUME NEW i \in 1 .. n PROVE w[i] = IF i = 1 THEN seqs[i] ELSE w[i - 1] \o seqs[i]
        BY <1>3, <4>1, <4>3
      <4> QED BY <4>4
    <3>2. flatten = D(flatten)
      <4> HIDE DEF D, w
      <4> QED BY <3>1
    <3>3. FlattenSeq(seqs) = flatten[n]
      <4>1. seqs # <<>>
        BY <1>0, <2>2
      <4> QED BY <1>0, <4>1 DEF FlattenSeq
    <3>4. \A i \in 1 .. n : flatten[i] = IF i = 1 THEN seqs[i] ELSE flatten[i - 1] \o seqs[i]
      <4> HIDE DEF flatten
      <4> QED BY <3>2
    <3> HIDE DEF flatten
    <3> DEFINE S == {i \in Nat : i + 1 <= n => flatten[i + 1] = g[i + 1]}
    <3>5. 0 \in S
      <4>1. 1 \in 1 .. n /\ 1 - 1 = 0
        BY <1>0, <2>2
      <4>2. g[1] = g[0] \o seqs[1] /\ flatten[1] = seqs[1] /\ seqs[1] \in Seq(B)
        BY <1>0, <1>3, <3>4, <4>1
      <4>3. g[1] = seqs[1]
        BY <1>2, <4>2
      <4> QED BY <4>2, <4>3
    <3>6. ASSUME NEW i \in Nat, i \in S PROVE i + 1 \in S
      <4> SUFFICES ASSUME i + 2 <= n PROVE flatten[i + 2] = g[i + 2]
        OBVIOUS
      <4>1. i + 2 \in 1 .. n /\ i + 2 # 1 /\ (i + 2) - 1 = i + 1
        BY <1>0
      <4>2. flatten[i + 1] = g[i + 1]
        BY <1>0, <3>6
      <4>3. flatten[i + 2] = flatten[i + 1] \o seqs[i + 2]
        BY <3>4, <4>1
      <4>4. g[i + 2] = g[i + 1] \o seqs[i + 2]
        BY <1>3, <4>1
      <4> QED BY <4>2, <4>3, <4>4
    <3>7. Nat \subseteq S
      <4> HIDE DEF S
      <4> QED BY <3>5, <3>6, Induction
    <3>8. n - 1 \in Nat /\ (n - 1) + 1 = n
      BY <1>0, <2>2
    <3>9. flatten[n] = g[n]
      <4>1. n - 1 \in S
        BY <3>7, <3>8
      <4>2. flatten[(n - 1) + 1] = g[(n - 1) + 1]
        BY <1>0, <3>8, <4>1
      <4> QED BY <3>8, <4>2
    <3> QED BY <3>3, <3>9
  <2> QED BY <2>1, <2>2
<1> DEFINE h == [i \in 0 .. n |-> g[i]]
<1>5. h \in [0 .. n -> Seq(B)]
  BY <1>0, <1>2
<1>6. \A i \in 0 .. n : h[i] = g[i]
  OBVIOUS
<1> HIDE DEF h
<1>7. h[0] = <<>> /\ h[n] = FlattenSeq(seqs)
  BY <1>0, <1>2, <1>4, <1>6
<1>8. \A i \in 1 .. n : h[i] = h[i - 1] \o seqs[i]
  <2> SUFFICES ASSUME NEW i \in 1 .. n PROVE h[i] = h[i - 1] \o seqs[i]
    OBVIOUS
  <2>1. i \in 0 .. n /\ i - 1 \in 0 .. n
    BY <1>0
  <2> QED BY <1>3, <1>6, <2>1
<1>9. Flattens(B, seqs, h)
  BY <1>0, <1>5, <1>7, <1>8 DEF Flattens
<1> QED BY <1>9

-------------------------------------------------------------------------------
\* Flattening: where each piece of a sequence of sequences lies in the whole.

\* Where the pieces of a flattened sequence begin.
Lays(P, s, at) ==
  /\ at \in [1 .. Len(P) + 1 -> Nat]
  /\ at[1] = 0 /\ at[Len(P) + 1] = Len(s)
  /\ \A i \in 1 .. Len(P) : at[i + 1] = at[i] + Len(P[i])
  /\ \A i, k \in 1 .. Len(P) + 1 : i <= k => at[i] <= at[k]
  /\ \A i \in 1 .. Len(P) : \A j \in 1 .. Len(P[i]) : s[at[i] + j] = P[i][j]

\* A concatenation, element by element.
LEMMA Joined ==
  ASSUME NEW B, NEW s \in Seq(B), NEW t \in Seq(B)
  PROVE  /\ s \o t \in Seq(B) /\ Len(s) \in Nat /\ Len(t) \in Nat /\ Len(s \o t) = Len(s) + Len(t)
         /\ \A j \in 1 .. Len(s) : (s \o t)[j] = s[j]
         /\ \A j \in 1 .. Len(t) : (s \o t)[Len(s) + j] = t[j]
OBVIOUS

\* Sequences with the same elements are equal.
LEMMA SameSeq == ASSUME NEW B, NEW s \in Seq(B), NEW t \in Seq(B), Len(s) = Len(t), \A j \in 1 .. Len(t) : s[j] = t[j] PROVE s = t
  OBVIOUS

\* What is appended comes last, and the rest stays.
LEMMA AppendHas ==
  ASSUME NEW B, NEW s \in Seq(B), NEW x \in B
  PROVE  /\ Append(s, x) \in Seq(B) /\ Len(Append(s, x)) = Len(s) + 1
         /\ (\A i \in 1 .. Len(s) : Append(s, x)[i] = s[i]) /\ Append(s, x)[Len(s) + 1] = x
  BY AppendProperties

\* The pieces of a flattened sequence lie in it one after the other.
LEMMA Layout ==
  ASSUME NEW B, NEW P \in Seq(Seq(B))
  PROVE  FlattenSeq(P) \in Seq(B) /\ \E at : Lays(P, FlattenSeq(P), at)
<1> DEFINE n == Len(P)
<1>0. n \in Nat /\ n = Len(P) /\ \A i \in 1 .. n : P[i] \in Seq(B) /\ Len(P[i]) \in Nat
  OBVIOUS
<1> HIDE DEF n
<1>1. PICK h : Flattens(B, P, h)
  BY Flattening
<1>2. /\ h \in [0 .. n -> Seq(B)] /\ h[0] = <<>> /\ h[n] = FlattenSeq(P)
      /\ \A i \in 1 .. n : h[i] = h[i - 1] \o P[i]
  BY <1>0, <1>1 DEF Flattens
<1>3. ASSUME NEW i \in 1 .. n
      PROVE  /\ i - 1 \in 0 .. n /\ h[i - 1] \in Seq(B) /\ h[i] \in Seq(B)
             /\ Len(h[i - 1]) \in Nat /\ Len(h[i]) = Len(h[i - 1]) + Len(P[i])
             /\ \A j \in 1 .. Len(h[i - 1]) : h[i][j] = h[i - 1][j]
             /\ \A j \in 1 .. Len(P[i]) : h[i][Len(h[i - 1]) + j] = P[i][j]
  <2>1. i - 1 \in 0 .. n /\ i \in 0 .. n
    BY <1>0
  <2>2. h[i - 1] \in Seq(B) /\ P[i] \in Seq(B) /\ h[i] = h[i - 1] \o P[i] /\ h[i] \in Seq(B)
    BY <1>0, <1>2, <2>1
  <2>3. /\ Len(h[i - 1]) \in Nat /\ Len(h[i]) = Len(h[i - 1]) + Len(P[i])
        /\ \A j \in 1 .. Len(h[i - 1]) : h[i][j] = h[i - 1][j]
        /\ \A j \in 1 .. Len(P[i]) : h[i][Len(h[i - 1]) + j] = P[i][j]
    <3> DEFINE u == h[i - 1]
               v == P[i]
    <3>1. u \in Seq(B) /\ v \in Seq(B) /\ h[i] = u \o v
      BY <2>2
    <3> HIDE DEF u, v
    <3>2. /\ Len(u) \in Nat /\ Len(u \o v) = Len(u) + Len(v)
          /\ \A j \in 1 .. Len(u) : (u \o v)[j] = u[j]
          /\ \A j \in 1 .. Len(v) : (u \o v)[Len(u) + j] = v[j]
      BY <3>1, Joined
    <3>3. /\ Len(u) \in Nat /\ Len(h[i]) = Len(u) + Len(v)
          /\ \A j \in 1 .. Len(u) : h[i][j] = u[j]
          /\ \A j \in 1 .. Len(v) : h[i][Len(u) + j] = v[j]
      BY <3>1, <3>2
    <3> QED BY <3>3 DEF u, v
  <2> QED BY <2>1, <2>2, <2>3
<1> DEFINE Kept(i, k) == /\ Len(h[i]) <= Len(h[k])
                         /\ \A j \in 1 .. Len(h[i]) : h[k][j] = h[i][j]
           S == {k \in Nat : k <= n => \A i \in 0 .. n : i <= k => Kept(i, k)}
<1>a. \A i \in 0 .. n : Len(h[i]) \in Nat /\ Kept(i, i)
  BY <1>2
<1>4. 0 \in S
  BY <1>0, <1>a
<1>5. ASSUME NEW k \in Nat, k \in S PROVE k + 1 \in S
  <2> SUFFICES ASSUME k + 1 <= n, NEW i \in 0 .. n, i <= k + 1 PROVE Kept(i, k + 1)
    OBVIOUS
  <2>1. CASE i = k + 1
    BY <1>a, <2>1
  <2>2. CASE i <= k
    <3>1. k \in 0 .. n /\ k + 1 \in 1 .. n /\ (k + 1) - 1 = k
      BY <1>0
    <3>2. Kept(i, k)
      BY <1>5, <2>2, <3>1
    <3> DEFINE c == k + 1
    <3>a. c \in 1 .. n /\ c - 1 = k
      BY <3>1
    <3> HIDE DEF c
    <3>3. /\ Len(h[c]) = Len(h[k]) + Len(P[c]) /\ Len(P[c]) \in Nat
          /\ \A j \in 1 .. Len(h[k]) : h[c][j] = h[k][j]
      BY <1>0, <1>3, <3>a
    <3>4. Len(h[i]) \in Nat /\ Len(h[k]) \in Nat
      BY <1>a, <3>1
    <3>b. Len(h[i]) <= Len(h[k]) /\ \A j \in 1 .. Len(h[i]) : h[k][j] = h[i][j]
      BY <3>2
    <3> DEFINE x == Len(h[i])
               y == Len(h[k])
               z == Len(P[c])
    <3>d. x \in Nat /\ y \in Nat /\ z \in Nat /\ x <= y
      BY <3>3, <3>4, <3>b
    <3>5. Len(h[i]) <= Len(h[c])
      <4>1. Len(h[c]) = y + z
        BY <3>3
      <4> HIDE DEF x, y, z
      <4>2. x <= y + z
        BY <3>d
      <4> QED BY <4>1, <4>2 DEF x
    <3>6. \A j \in 1 .. Len(h[i]) : j \in 1 .. Len(h[k]) /\ h[c][j] = h[i][j]
      BY <3>b, <3>3, <3>4
    <3> QED BY <3>5, <3>6 DEF c
  <2> QED BY <2>1, <2>2
<1>6. \A i, k \in 0 .. n : i <= k => Kept(i, k)
  <2>1. Nat \subseteq S
    <3> HIDE DEF S
    <3> QED BY <1>4, <1>5, Induction
  <2> SUFFICES ASSUME NEW i \in 0 .. n, NEW k \in 0 .. n, i <= k PROVE Kept(i, k)
    OBVIOUS
  <2>2. k \in S
    BY <2>1
  <2> HIDE DEF Kept
  <2> QED BY <2>2
<1> DEFINE at == [i \in 1 .. n + 1 |-> Len(h[i - 1])]
<1>7. \A i \in 1 .. n + 1 : i - 1 \in 0 .. n /\ at[i] = Len(h[i - 1]) /\ at[i] \in Nat
  BY <1>0, <1>a
<1>8. at \in [1 .. n + 1 -> Nat]
  BY <1>7
<1> HIDE DEF at
<1>9. at[1] = 0 /\ at[n + 1] = Len(FlattenSeq(P))
  <2>1. 1 \in 1 .. n + 1 /\ n + 1 \in 1 .. n + 1 /\ 1 - 1 = 0 /\ (n + 1) - 1 = n
    BY <1>0
  <2> QED BY <1>2, <1>7, <2>1
<1>10. \A i \in 1 .. n : at[i + 1] = at[i] + Len(P[i])
  <2> SUFFICES ASSUME NEW i \in 1 .. n PROVE at[i + 1] = at[i] + Len(P[i])
    OBVIOUS
  <2>1. i \in 1 .. n + 1 /\ i + 1 \in 1 .. n + 1 /\ (i + 1) - 1 = i
    BY <1>0
  <2> QED BY <1>3, <1>7, <2>1
<1>11. \A i, k \in 1 .. n + 1 : i <= k => at[i] <= at[k]
  <2> SUFFICES ASSUME NEW i \in 1 .. n + 1, NEW k \in 1 .. n + 1, i <= k PROVE at[i] <= at[k]
    OBVIOUS
  <2>1. i - 1 \in 0 .. n /\ k - 1 \in 0 .. n /\ i - 1 <= k - 1
    BY <1>0
  <2>2. Kept(i - 1, k - 1)
    BY <1>6, <2>1
  <2> QED BY <1>7, <2>2
<1>12. ASSUME NEW i \in 1 .. n, NEW j \in 1 .. Len(P[i]) PROVE FlattenSeq(P)[at[i] + j] = P[i][j]
  <2>1. i \in 0 .. n /\ n \in 0 .. n /\ i <= n /\ i \in 1 .. n + 1
    BY <1>0
  <2>2. Kept(i, n)
    BY <1>6, <2>1
  <2>3. at[i] + j \in 1 .. Len(h[i]) /\ h[i][at[i] + j] = P[i][j]
    <3>1. at[i] = Len(h[i - 1]) /\ at[i] \in Nat /\ Len(P[i]) \in Nat
      BY <1>0, <1>7, <2>1
    <3>2. Len(h[i]) = Len(h[i - 1]) + Len(P[i])
      BY <1>3
    <3>3. at[i] + j \in 1 .. Len(h[i])
      <4> DEFINE x == at[i]
                 y == Len(P[i])
      <4>1. j \in Nat /\ 1 <= j /\ j <= y /\ x \in Nat /\ y \in Nat
        BY <3>1
      <4>2. Len(h[i]) = x + y
        BY <3>1, <3>2
      <4> HIDE DEF x, y
      <4>3. x + j \in 1 .. (x + y)
        BY <4>1
      <4> QED BY <4>2, <4>3 DEF x
    <3> QED BY <1>3, <3>1, <3>3
  <2> QED BY <1>2, <2>2, <2>3
<1>13. Lays(P, FlattenSeq(P), at)
  BY <1>0, <1>8, <1>9, <1>10, <1>11, <1>12 DEF Lays
<1>14. FlattenSeq(P) \in Seq(B)
  <2>1. n \in 0 .. n
    BY <1>0
  <2> QED BY <1>2, <2>1
<1> QED BY <1>13, <1>14

SameLengths(P, Q, a, b) == \A i \in 1 .. Len(P) : i <= Len(Q) /\ a[i] = b[i] => Len(P[i]) = Len(Q[i])

\* When the sequences are as long as each other and pieces that begin
\* together are as long as each other, the pieces begin at the same places.
LEMMA SamePlaces ==
  ASSUME NEW B, NEW P \in Seq(Seq(B)), NEW Q \in Seq(Seq(B)), NEW s, NEW t, NEW a, NEW b,
         Lays(P, s, a), Lays(Q, t, b), Len(s) = Len(t),
         \A i \in 1 .. Len(P) : P[i] # <<>>, \A i \in 1 .. Len(Q) : Q[i] # <<>>, SameLengths(P, Q, a, b)
  PROVE  Len(P) = Len(Q) /\ a = b
<1> DEFINE n == Len(P)
           m == Len(Q)
<1>0. n \in Nat /\ n = Len(P) /\ m \in Nat /\ m = Len(Q)
  OBVIOUS
<1>1. \A i \in 1 .. n : Len(P[i]) \in Nat /\ Len(P[i]) > 0
  BY DEF n
<1>2. \A i \in 1 .. m : Len(Q[i]) \in Nat /\ Len(Q[i]) > 0
  BY DEF m
<1> HIDE DEF n, m
<1>3. /\ a \in [1 .. n + 1 -> Nat] /\ a[1] = 0 /\ a[n + 1] = Len(s)
      /\ \A i \in 1 .. n : a[i + 1] = a[i] + Len(P[i])
      /\ \A i, k \in 1 .. n + 1 : i <= k => a[i] <= a[k]
  BY <1>0 DEF Lays
<1>4. /\ b \in [1 .. m + 1 -> Nat] /\ b[1] = 0 /\ b[m + 1] = Len(s)
      /\ \A i \in 1 .. m : b[i + 1] = b[i] + Len(Q[i])
      /\ \A i, k \in 1 .. m + 1 : i <= k => b[i] <= b[k]
  BY <1>0 DEF Lays
<1>5. ASSUME NEW i \in 1 .. n PROVE a[i] < a[n + 1] /\ a[i] \in Nat
  <2>1. i \in 1 .. n + 1 /\ i + 1 \in 1 .. n + 1 /\ n + 1 \in 1 .. n + 1 /\ i + 1 <= n + 1
    BY <1>0
  <2>2. a[i] \in Nat /\ a[i + 1] \in Nat /\ a[n + 1] \in Nat /\ a[i + 1] <= a[n + 1]
    BY <1>3, <2>1
  <2>3. a[i + 1] = a[i] + Len(P[i]) /\ Len(P[i]) \in Nat /\ Len(P[i]) > 0
    BY <1>1, <1>3
  <2> QED BY <2>2, <2>3
<1>6. ASSUME NEW i \in 1 .. m PROVE b[i] < b[m + 1] /\ b[i] \in Nat
  <2>1. i \in 1 .. m + 1 /\ i + 1 \in 1 .. m + 1 /\ m + 1 \in 1 .. m + 1 /\ i + 1 <= m + 1
    BY <1>0
  <2>2. b[i] \in Nat /\ b[i + 1] \in Nat /\ b[m + 1] \in Nat /\ b[i + 1] <= b[m + 1]
    BY <1>4, <2>1
  <2>3. b[i + 1] = b[i] + Len(Q[i]) /\ Len(Q[i]) \in Nat /\ Len(Q[i]) > 0
    BY <1>2, <1>4
  <2> QED BY <2>2, <2>3
<1> DEFINE S == {i \in Nat : i <= n => i <= m /\ a[i + 1] = b[i + 1]}
<1>7. 0 \in S
  BY <1>0, <1>3, <1>4
<1>8. ASSUME NEW i \in Nat, i \in S PROVE i + 1 \in S
  <2> SUFFICES ASSUME i + 1 <= n PROVE i + 1 <= m /\ a[i + 2] = b[i + 2]
    OBVIOUS
  <2>1. i <= m /\ a[i + 1] = b[i + 1] /\ i + 1 \in 1 .. n
    BY <1>0, <1>8
  <2>2. i # m
    <3>1. a[i + 1] < a[n + 1]
      BY <1>5, <2>1
    <3> QED BY <1>3, <1>4, <2>1, <3>1
  <2>3. i + 1 <= m /\ i + 1 \in 1 .. m
    BY <1>0, <2>1, <2>2
  <2>4. Len(P[i + 1]) = Len(Q[i + 1])
    BY <1>0, <2>1, <2>3 DEF SameLengths
  <2>5. a[(i + 1) + 1] = a[i + 1] + Len(P[i + 1]) /\ b[(i + 1) + 1] = b[i + 1] + Len(Q[i + 1])
    BY <1>3, <1>4, <2>1, <2>3
  <2>6. (i + 1) + 1 = i + 2
    OBVIOUS
  <2> QED BY <2>1, <2>3, <2>4, <2>5, <2>6
<1>9. \A i \in 0 .. n : i <= m /\ a[i + 1] = b[i + 1]
  <2>1. Nat \subseteq S
    <3> HIDE DEF S
    <3> QED BY <1>7, <1>8, Induction
  <2> QED BY <1>0, <2>1
<1>10. n = m
  <2>0. n \in 0 .. n
    BY <1>0
  <2>1. n <= m /\ a[n + 1] = b[n + 1]
    BY ONLY <2>0, <1>9
  <2>2. SUFFICES ASSUME n < m PROVE FALSE
    BY <1>0, <2>1
  <2>3. n + 1 \in 1 .. m
    BY <1>0, <2>2
  <2>4. b[n + 1] < b[m + 1]
    BY <1>6, <2>3
  <2> QED BY <1>3, <1>4, <2>1, <2>4
<1>11. \A i \in 1 .. n + 1 : a[i] = b[i]
  <2> SUFFICES ASSUME NEW i \in 1 .. n + 1 PROVE a[i] = b[i]
    OBVIOUS
  <2>1. i - 1 \in 0 .. n /\ (i - 1) + 1 = i
    BY <1>0
  <2> QED BY <1>9, <2>1
<1>12. a = b
  <2>1. b \in [1 .. n + 1 -> Nat]
    BY <1>4, <1>10
  <2>2. a \in [1 .. n + 1 -> Nat]
    BY <1>3
  <2> DEFINE D == 1 .. n + 1
  <2>3. b \in [D -> Nat] /\ a \in [D -> Nat] /\ \A i \in D : a[i] = b[i]
    BY <1>11, <2>1, <2>2
  <2> HIDE DEF D
  <2> QED BY <2>3
<1> QED BY <1>0, <1>10, <1>12

-------------------------------------------------------------------------------
\* One byte and its escape.

Byte == 0 .. 255
Plain == Unreserved \cup {Percent}
HexDigits == Digits \cup 65 .. 70

\* A hexadecimal digit gives its value back, whatever its case.
LEMMA HexDigitBack ==
  /\ \A n \in 0 .. 15 : HexDigit(n) \in HexDigits /\ HexValue(HexDigit(n)) = n
  /\ \A n, m \in 0 .. 15 : Folded(HexDigit(n)) = Folded(HexDigit(m)) => n = m
  /\ \A n, m \in 0 .. 15 : LowerHexDigit(n) = LowerHexDigit(m) => n = m
<1>1. \A n \in 0 .. 15 : HexDigit(n) \in HexDigits /\ HexValue(HexDigit(n)) = n
  BY DEF HexDigit, HexValue, HexDigits, Digits
<1>2. \A n, m \in 0 .. 15 : Folded(HexDigit(n)) = Folded(HexDigit(m)) => n = m
  BY DEF HexDigit, Folded, Upper
<1>3. \A n, m \in 0 .. 15 : LowerHexDigit(n) = LowerHexDigit(m) => n = m
  BY DEF LowerHexDigit
<1> QED BY <1>1, <1>2, <1>3

\* A byte is its two halves.
LEMMA Nibbles ==
  /\ \A b \in Byte : b \div 16 \in 0 .. 15 /\ b % 16 \in 0 .. 15 /\ b = 16 * (b \div 16) + (b % 16)
  /\ \A b, c \in Byte : b \div 16 = c \div 16 /\ b % 16 = c % 16 => b = c
<1>1. \A b \in Byte : b \div 16 \in 0 .. 15 /\ b % 16 \in 0 .. 15 /\ b = 16 * (b \div 16) + (b % 16)
  BY DEF Byte
<1>2. \A b, c \in Byte : b \div 16 = c \div 16 /\ b % 16 = c % 16 => b = c
  BY DEF Byte
<1> QED BY <1>1, <1>2

\* A byte that is not unreserved is a percent sign and two digits.
LEMMA EscapeForms ==
  ASSUME NEW b \in Byte
  PROVE  /\ Escape(b) \in Seq(Plain)
         /\ b \in Unreserved => Escape(b) = <<b>> /\ Len(Escape(b)) = 1 /\ Escape(b)[1] = b
         /\ b \notin Unreserved =>
              /\ Escape(b) = <<Percent, HexDigit(b \div 16), HexDigit(b % 16)>>
              /\ Len(Escape(b)) = 3 /\ Escape(b)[1] = Percent
              /\ Escape(b)[2] = HexDigit(b \div 16) /\ Escape(b)[3] = HexDigit(b % 16)
<1>1. CASE b \in Unreserved
  BY <1>1 DEF Escape, Plain
<1>2. CASE b \notin Unreserved
  <2>1. HexDigit(b \div 16) \in Plain /\ HexDigit(b % 16) \in Plain
    <3>1. HexDigit(b \div 16) \in HexDigits /\ HexDigit(b % 16) \in HexDigits
      BY HexDigitBack, Nibbles
    <3> QED BY <3>1 DEF HexDigits, Plain, Unreserved, Upper, Digits
  <2>2. Percent \in Plain
    BY DEF Plain
  <2> DEFINE x == HexDigit(b \div 16)
             y == HexDigit(b % 16)
  <2>3. Escape(b) = <<Percent, x, y>>
    BY <1>2 DEF Escape
  <2> HIDE DEF x, y
  <2>4. <<Percent, x, y>> \in Seq(Plain)
    BY <2>1, <2>2 DEF x, y
  <2> QED BY <1>2, <2>3, <2>4 DEF x, y
<1> QED BY <1>1, <1>2

\* An escape is one byte or three.
LEMMA EscapeWidth == ASSUME NEW b \in Byte PROVE Len(Escape(b)) \in {1, 3} /\ 1 \in 1 .. Len(Escape(b))
BY EscapeForms

\* No encoded byte is a slash, a NUL or a semicolon.
LEMMA PlainFacts == ~(Percent \in Unreserved) /\ 47 \notin Plain /\ 0 \notin Plain /\ Semicolon \notin Plain /\ Plain \subseteq Byte
BY DEF Plain, Percent, Unreserved, Semicolon, Upper, Lower, Digits, Byte

\* An escape begins with a percent sign, whatever the case: its length shows.
LEMMA SameWidth ==
  ASSUME NEW b \in Byte, NEW c \in Byte, Folded(Escape(b)[1]) = Folded(Escape(c)[1])
  PROVE  Len(Escape(b)) = Len(Escape(c))
<1>1. \A x \in Unreserved : Folded(x) # Percent
  BY DEF Folded, Unreserved, Percent, Upper, Lower, Digits
<1>2. Folded(Percent) = Percent
  BY DEF Folded, Percent, Upper
<1> QED BY <1>1, <1>2, EscapeForms

\* Escapes that are equal but for case are of bytes that are.
LEMMA EscapeBack ==
  ASSUME NEW b \in Byte, NEW c \in Byte, Len(Escape(b)) = Len(Escape(c)),
         \A j \in 1 .. Len(Escape(b)) : Folded(Escape(b)[j]) = Folded(Escape(c)[j])
  PROVE  Folded(b) = Folded(c)
<1>1. CASE b \in Unreserved /\ c \in Unreserved
  <2>1. 1 \in 1 .. Len(Escape(b))
    BY <1>1, EscapeForms
  <2> QED BY <1>1, <2>1, EscapeForms
<1>2. CASE b \notin Unreserved /\ c \notin Unreserved
  <2>1. 2 \in 1 .. Len(Escape(b)) /\ 3 \in 1 .. Len(Escape(b))
    BY <1>2, EscapeForms
  <2>2. Folded(HexDigit(b \div 16)) = Folded(HexDigit(c \div 16)) /\ Folded(HexDigit(b % 16)) = Folded(HexDigit(c % 16))
    BY <1>2, <2>1, EscapeForms
  <2>3. b \div 16 = c \div 16 /\ b % 16 = c % 16
    BY <2>2, HexDigitBack, Nibbles
  <2> QED BY <2>3, Nibbles
<1>3. b \in Unreserved <=> c \in Unreserved
  BY EscapeForms
<1> QED BY <1>1, <1>2, <1>3

\* Two bytes that differ in nothing but case have escapes that do.
LEMMA EscapeFolds ==
  ASSUME NEW b \in Byte, NEW c \in Byte, Folded(b) = Folded(c)
  PROVE  Len(Escape(b)) = Len(Escape(c)) /\ \A j \in 1 .. Len(Escape(b)) : Folded(Escape(b)[j]) = Folded(Escape(c)[j])
<1>1. CASE b = c
  BY <1>1
<1>2. CASE b # c
  <2>1. b \in Unreserved /\ c \in Unreserved
    BY <1>2 DEF Folded, Unreserved, Upper, Lower, Byte
  <2>2. \A j \in 1 .. 1 : j = 1
    OBVIOUS
  <2> QED BY <2>1, <2>2, EscapeForms
<1> QED BY <1>1, <1>2

\* Equal escapes are of one byte.
LEMMA EscapeSame ==
  ASSUME NEW b \in Byte, NEW c \in Byte, Len(Escape(b)) = Len(Escape(c)),
         \A j \in 1 .. Len(Escape(b)) : Escape(b)[j] = Escape(c)[j]
  PROVE  b = c
<1>1. CASE b \in Unreserved /\ c \in Unreserved
  <2>1. 1 \in 1 .. Len(Escape(b))
    BY <1>1, EscapeForms
  <2> QED BY <1>1, <2>1, EscapeForms
<1>2. CASE b \notin Unreserved /\ c \notin Unreserved
  <2>1. 2 \in 1 .. Len(Escape(b)) /\ 3 \in 1 .. Len(Escape(b))
    BY <1>2, EscapeForms
  <2>2. HexDigit(b \div 16) = HexDigit(c \div 16) /\ HexDigit(b % 16) = HexDigit(c % 16)
    BY <1>2, <2>1, EscapeForms
  <2>3. b \div 16 = c \div 16 /\ b % 16 = c % 16
    BY <2>2, HexDigitBack, Nibbles
  <2> QED BY <2>3, Nibbles
<1>3. b \in Unreserved <=> c \in Unreserved
  BY EscapeForms
<1> QED BY <1>1, <1>2, <1>3

-------------------------------------------------------------------------------
\* Folding case, and Encode byte by byte: what is encoded can be told from
\* what was made of it, up to case when the case is lost.

\* Folded texts are equal when they are byte by byte.
LEMMA FoldSame ==
  ASSUME NEW s \in Seq(Byte), NEW t \in Seq(Byte)
  PROVE  FoldCase(s) = FoldCase(t) <=> Len(s) = Len(t) /\ \A i \in 1 .. Len(s) : Folded(s[i]) = Folded(t[i])
<1> DEFINE n == Len(s)
           m == Len(t)
<1>1. n \in Nat /\ n = Len(s) /\ DOMAIN s = 1 .. n /\ m \in Nat /\ m = Len(t) /\ DOMAIN t = 1 .. m
  OBVIOUS
<1> HIDE DEF n, m
<1>2. FoldCase(s) = [i \in 1 .. n |-> Folded(s[i])] /\ FoldCase(t) = [i \in 1 .. m |-> Folded(t[i])]
  BY <1>1 DEF FoldCase
<1>3. ASSUME FoldCase(s) = FoldCase(t) PROVE n = m /\ \A i \in 1 .. n : Folded(s[i]) = Folded(t[i])
  <2>1. 1 .. n = 1 .. m
    <3>1. DOMAIN FoldCase(s) = 1 .. n /\ DOMAIN FoldCase(t) = 1 .. m
      BY <1>2
    <3> QED BY <1>3, <3>1
  <2>2. n = m
    BY <1>1, <2>1
  <2>3. \A i \in 1 .. n : FoldCase(s)[i] = Folded(s[i]) /\ FoldCase(t)[i] = Folded(t[i])
    BY <1>2, <2>2
  <2> QED BY <1>3, <2>2, <2>3
<1>4. ASSUME n = m, \A i \in 1 .. n : Folded(s[i]) = Folded(t[i]) PROVE FoldCase(s) = FoldCase(t)
  BY <1>2, <1>4
<1> QED BY <1>1, <1>3, <1>4

\* Folding a concatenation folds its parts.
LEMMA FoldJoin ==
  ASSUME NEW s \in Seq(Byte), NEW t \in Seq(Byte), NEW u \in Seq(Byte), NEW v \in Seq(Byte),
         FoldCase(s) = FoldCase(u), FoldCase(t) = FoldCase(v)
  PROVE  FoldCase(s \o t) = FoldCase(u \o v)
<1>1. Len(s) = Len(u) /\ \A i \in 1 .. Len(s) : Folded(s[i]) = Folded(u[i])
  BY FoldSame
<1>2. Len(t) = Len(v) /\ \A i \in 1 .. Len(t) : Folded(t[i]) = Folded(v[i])
  BY FoldSame
<1> DEFINE n == Len(s)
           m == Len(t)
           x == s \o t
           y == u \o v
<1>3. /\ n \in Nat /\ m \in Nat /\ x \in Seq(Byte) /\ Len(x) = n + m
      /\ \A j \in 1 .. n : x[j] = s[j]
      /\ \A j \in 1 .. m : x[n + j] = t[j]
  BY Joined
<1>4. /\ y \in Seq(Byte) /\ Len(y) = n + m
      /\ \A j \in 1 .. n : y[j] = u[j]
      /\ \A j \in 1 .. m : y[n + j] = v[j]
  BY <1>1, <1>2, Joined
<1>5. \A i \in 1 .. n : Folded(s[i]) = Folded(u[i])
  BY <1>1
<1>6. \A i \in 1 .. m : Folded(t[i]) = Folded(v[i])
  BY <1>2
<1> HIDE DEF n, m, x, y
<1>7. ASSUME NEW i \in 1 .. Len(x) PROVE Folded(x[i]) = Folded(y[i])
  <2>1. CASE i <= n
    BY <1>3, <1>4, <1>5, <2>1
  <2>2. CASE i > n
    <3>1. i - n \in 1 .. m /\ n + (i - n) = i
      BY <1>3, <2>2
    <3> QED BY <1>3, <1>4, <1>6, <3>1
  <2> QED BY <1>3, <2>1, <2>2
<1>8. FoldCase(x) = FoldCase(y)
  BY <1>3, <1>4, <1>7, FoldSame
<1> QED BY <1>8 DEF x, y

\* A folded concatenation is cut where the lengths say.
LEMMA FoldCut ==
  ASSUME NEW s \in Seq(Byte), NEW t \in Seq(Byte), NEW u \in Seq(Byte), NEW v \in Seq(Byte),
         FoldCase(s \o t) = FoldCase(u \o v), Len(s) = Len(u) \/ Len(t) = Len(v)
  PROVE  FoldCase(s) = FoldCase(u) /\ FoldCase(t) = FoldCase(v)
<1> DEFINE n == Len(s)
           m == Len(t)
           x == s \o t
           y == u \o v
<1>1. /\ n \in Nat /\ m \in Nat /\ x \in Seq(Byte) /\ Len(x) = n + m
      /\ \A j \in 1 .. n : x[j] = s[j]
      /\ \A j \in 1 .. m : x[n + j] = t[j]
  BY Joined
<1>2. /\ Len(u) \in Nat /\ Len(v) \in Nat /\ y \in Seq(Byte) /\ Len(y) = Len(u) + Len(v)
      /\ \A j \in 1 .. Len(u) : y[j] = u[j]
      /\ \A j \in 1 .. Len(v) : y[Len(u) + j] = v[j]
  BY Joined
<1>3. Len(x) = Len(y) /\ \A i \in 1 .. Len(x) : Folded(x[i]) = Folded(y[i])
  BY <1>1, <1>2, FoldSame
<1>a. n = Len(s) /\ m = Len(t)
  OBVIOUS
<1> HIDE DEF n, m, x, y
<1>4. Len(u) = n /\ Len(v) = m
  BY <1>1, <1>2, <1>3, <1>a
<1>5. \A i \in 1 .. n : Folded(s[i]) = Folded(u[i])
  <2> SUFFICES ASSUME NEW i \in 1 .. n PROVE Folded(s[i]) = Folded(u[i])
    OBVIOUS
  <2>1. i \in 1 .. Len(x)
    BY <1>1
  <2> QED BY <1>1, <1>2, <1>3, <1>4, <2>1
<1>6. \A i \in 1 .. m : Folded(t[i]) = Folded(v[i])
  <2> SUFFICES ASSUME NEW i \in 1 .. m PROVE Folded(t[i]) = Folded(v[i])
    OBVIOUS
  <2>1. n + i \in 1 .. Len(x)
    BY <1>1
  <2>2. x[n + i] = t[i] /\ y[n + i] = v[i]
    BY <1>1, <1>2, <1>4
  <2> QED BY <1>3, <2>1, <2>2
<1> QED BY <1>a, <1>4, <1>5, <1>6, FoldSame

\* The escapes a name is made of.
Pieces(bytes) == [i \in DOMAIN bytes |-> Escape(bytes[i])]

\* There is one escape for each byte, none of them empty.
LEMMA PiecesType ==
  ASSUME NEW X \in Seq(Byte)
  PROVE  /\ Pieces(X) \in Seq(Seq(Plain)) /\ Len(Pieces(X)) = Len(X)
         /\ \A i \in 1 .. Len(X) : X[i] \in Byte /\ Pieces(X)[i] = Escape(X[i]) /\ Pieces(X)[i] # <<>>
<1> DEFINE n == Len(X)
<1>1. n \in Nat /\ n = Len(X) /\ DOMAIN X = 1 .. n /\ \A i \in 1 .. n : X[i] \in Byte
  OBVIOUS
<1> HIDE DEF n
<1>2. \A i \in 1 .. n : Escape(X[i]) \in Seq(Plain) /\ Escape(X[i]) # <<>>
  <2> SUFFICES ASSUME NEW i \in 1 .. n PROVE Escape(X[i]) \in Seq(Plain) /\ Escape(X[i]) # <<>>
    OBVIOUS
  <2>1. X[i] \in Byte
    BY <1>1
  <2>2. Len(Escape(X[i])) # 0
    <3> DEFINE x == X[i]
    <3>1. x \in Byte
      BY <2>1
    <3> HIDE DEF x
    <3>2. Len(Escape(x)) # 0
      BY <3>1, EscapeWidth
    <3> QED BY <3>2 DEF x
  <2>3. Len(<<>>) = 0
    OBVIOUS
  <2>4. Escape(X[i]) \in Seq(Plain)
    BY <2>1, EscapeForms
  <2> QED BY <2>2, <2>3, <2>4
<1>3. Pieces(X) = [i \in 1 .. n |-> Escape(X[i])]
  BY <1>1 DEF Pieces
<1>4. Pieces(X) \in Seq(Seq(Plain)) /\ Len(Pieces(X)) = n
  BY <1>1, <1>2, <1>3
<1>5. \A i \in 1 .. n : Pieces(X)[i] = Escape(X[i])
  BY <1>3
<1> QED BY <1>1, <1>2, <1>4, <1>5

\* An encoded text is the escapes of its bytes, one after the other.
LEMMA Encoded ==
  ASSUME NEW X \in Seq(Byte)
  PROVE  /\ Encode(X) \in Seq(Plain) /\ Encode(X) \in Seq(Byte)
         /\ \E at : Lays(Pieces(X), Encode(X), at)
<1>1. Encode(X) = FlattenSeq(Pieces(X))
  BY DEF Encode, Pieces
<1>2. FlattenSeq(Pieces(X)) \in Seq(Plain) /\ \E at : Lays(Pieces(X), FlattenSeq(Pieces(X)), at)
  BY PiecesType, Layout
<1>3. \A s \in Seq(Plain) : s \in Seq(Byte)
  BY PlainFacts
<1> QED BY <1>1, <1>2, <1>3

\* What is encoded can be read back: the text, or, from a folded name, the text but for case.
LEMMA EncodeBack ==
  ASSUME NEW X \in Seq(Byte), NEW Y \in Seq(Byte), FoldCase(Encode(X)) = FoldCase(Encode(Y))
  PROVE  FoldCase(X) = FoldCase(Y) /\ (Encode(X) = Encode(Y) => X = Y)
<1> DEFINE P == Pieces(X)
           Q == Pieces(Y)
           s == Encode(X)
           t == Encode(Y)
<1>1. PICK a : Lays(P, s, a)
  BY Encoded
<1>2. PICK b : Lays(Q, t, b)
  BY Encoded
<1>3. Len(s) = Len(t) /\ \A i \in 1 .. Len(s) : Folded(s[i]) = Folded(t[i])
  BY Encoded, FoldSame
<1>4. /\ P \in Seq(Seq(Plain)) /\ Len(P) = Len(X)
      /\ \A i \in 1 .. Len(X) : X[i] \in Byte /\ P[i] = Escape(X[i]) /\ P[i] # <<>>
  BY PiecesType
<1>5. /\ Q \in Seq(Seq(Plain)) /\ Len(Q) = Len(Y)
      /\ \A i \in 1 .. Len(Y) : Y[i] \in Byte /\ Q[i] = Escape(Y[i]) /\ Q[i] # <<>>
  BY PiecesType
<1>a. s = Encode(X) /\ t = Encode(Y) /\ Len(X) \in Nat /\ Len(Y) \in Nat
  OBVIOUS
<1> HIDE DEF P, Q, s, t
\* A byte of an escape, at its place in the whole.
<1>6. /\ \A i \in 1 .. Len(X) : \A j \in 1 .. Len(P[i]) : a[i] + j \in 1 .. Len(s) /\ s[a[i] + j] = P[i][j]
  <2> SUFFICES ASSUME NEW i \in 1 .. Len(X), NEW j \in 1 .. Len(P[i]) PROVE a[i] + j \in 1 .. Len(s) /\ s[a[i] + j] = P[i][j]
    OBVIOUS
  <2> DEFINE n == Len(X)
             x == a[i]
             y == Len(P[i])
  <2>1. n \in Nat /\ n = Len(P) /\ i \in 1 .. n
    BY <1>4, <1>a
  <2> HIDE DEF n
  <2>2. i \in 1 .. n + 1 /\ i + 1 \in 1 .. n + 1 /\ n + 1 \in 1 .. n + 1 /\ i + 1 <= n + 1
    BY <2>1
  <2>3. a[i + 1] <= a[n + 1] /\ a[n + 1] = Len(s) /\ a[i + 1] = x + y /\ x \in Nat /\ a[i + 1] \in Nat /\ a[n + 1] \in Nat
    BY <1>1, <2>1, <2>2 DEF Lays
  <2>4. y \in Nat /\ j \in 1 .. y
    BY <1>4, <2>1
  <2>5. s[x + j] = P[i][j]
    BY <1>1, <2>1 DEF Lays
  <2> HIDE DEF x, y
  <2>6. x + j \in 1 .. Len(s)
    BY <2>3, <2>4
  <2> QED BY <2>5, <2>6 DEF x
<1>7. \A i \in 1 .. Len(Y) : \A j \in 1 .. Len(Q[i]) : t[b[i] + j] = Q[i][j]
  BY <1>2, <1>5 DEF Lays
<1>8. ASSUME NEW i \in 1 .. Len(P), i <= Len(Q), a[i] = b[i] PROVE Len(P[i]) = Len(Q[i])
  <2>1. i \in 1 .. Len(X) /\ i \in 1 .. Len(Y)
    BY <1>4, <1>5, <1>8, <1>a
  <2>2. X[i] \in Byte /\ P[i] = Escape(X[i]) /\ Y[i] \in Byte /\ Q[i] = Escape(Y[i])
    BY <1>4, <1>5, <2>1
  <2>3. 1 \in 1 .. Len(P[i]) /\ 1 \in 1 .. Len(Q[i])
    BY <2>2, EscapeWidth
  <2>4. s[a[i] + 1] = Escape(X[i])[1] /\ t[b[i] + 1] = Escape(Y[i])[1] /\ a[i] + 1 \in 1 .. Len(s)
    BY <1>6, <1>7, <2>1, <2>2, <2>3
  <2>5. Folded(Escape(X[i])[1]) = Folded(Escape(Y[i])[1])
    BY <1>3, <1>8, <2>4
  <2> QED BY <2>2, <2>5, SameWidth
<1>9. Len(P) = Len(Q) /\ a = b
  <2>1. /\ \A i \in 1 .. Len(P) : P[i] # <<>>
        /\ \A i \in 1 .. Len(Q) : Q[i] # <<>>
        /\ SameLengths(P, Q, a, b)
    BY <1>4, <1>5, <1>8 DEF SameLengths
  <2>2. P \in Seq(Seq(Plain)) /\ Q \in Seq(Seq(Plain)) /\ Len(s) = Len(t)
    BY <1>3, <1>4, <1>5
  <2> QED BY <1>1, <1>2, <2>1, <2>2, SamePlaces
<1>10. Len(X) = Len(Y)
  BY <1>4, <1>5, <1>9
<1>11. ASSUME NEW i \in 1 .. Len(X)
       PROVE  /\ X[i] \in Byte /\ Y[i] \in Byte /\ Len(Escape(X[i])) = Len(Escape(Y[i]))
              /\ \A j \in 1 .. Len(Escape(X[i])) :
                   a[i] + j \in 1 .. Len(s) /\ s[a[i] + j] = Escape(X[i])[j] /\ t[a[i] + j] = Escape(Y[i])[j]
  <2>1. X[i] \in Byte /\ P[i] = Escape(X[i]) /\ Y[i] \in Byte /\ Q[i] = Escape(Y[i])
    BY <1>4, <1>5, <1>10
  <2>2. Len(P[i]) = Len(Q[i])
    BY <1>4, <1>5, <1>8, <1>9, <1>10
  <2> QED BY <1>6, <1>7, <1>9, <1>10, <2>1, <2>2
<1>12. \A i \in 1 .. Len(X) : Folded(X[i]) = Folded(Y[i])
  <2> SUFFICES ASSUME NEW i \in 1 .. Len(X) PROVE Folded(X[i]) = Folded(Y[i])
    OBVIOUS
  <2> DEFINE x == X[i]
             y == Y[i]
  <2>1. /\ x \in Byte /\ y \in Byte /\ Len(Escape(x)) = Len(Escape(y))
        /\ \A j \in 1 .. Len(Escape(x)) :
             a[i] + j \in 1 .. Len(s) /\ s[a[i] + j] = Escape(x)[j] /\ t[a[i] + j] = Escape(y)[j]
    BY <1>11
  <2> HIDE DEF x, y
  <2>2. \A j \in 1 .. Len(Escape(x)) : Folded(Escape(x)[j]) = Folded(Escape(y)[j])
    BY <1>3, <2>1
  <2>3. Folded(x) = Folded(y)
    BY <2>1, <2>2, EscapeBack
  <2> QED BY <2>3 DEF x, y
<1>13. ASSUME s = t PROVE X = Y
  <2>1. ASSUME NEW i \in 1 .. Len(X) PROVE X[i] = Y[i]
    <3> DEFINE x == X[i]
               y == Y[i]
    <3>1. /\ x \in Byte /\ y \in Byte /\ Len(Escape(x)) = Len(Escape(y))
          /\ \A j \in 1 .. Len(Escape(x)) : s[a[i] + j] = Escape(x)[j] /\ t[a[i] + j] = Escape(y)[j]
      BY <1>11
    <3> HIDE DEF x, y
    <3>2. \A j \in 1 .. Len(Escape(x)) : Escape(x)[j] = Escape(y)[j]
      BY <1>13, <3>1
    <3>3. x = y
      BY <3>1, <3>2, EscapeSame
    <3> QED BY <3>3 DEF x, y
  <2>2. X \in Seq(Byte) /\ Y \in Seq(Byte) /\ Len(X) = Len(Y) /\ \A j \in 1 .. Len(Y) : X[j] = Y[j]
    BY <1>10, <2>1
  <2> QED BY ONLY <2>2, SameSeq
<1> QED BY <1>10, <1>12, <1>13, <1>a, FoldSame

\* Texts that differ in nothing but case are encoded so.
LEMMA EncodeFolds ==
  ASSUME NEW X \in Seq(Byte), NEW Y \in Seq(Byte), FoldCase(X) = FoldCase(Y)
  PROVE  FoldCase(Encode(X)) = FoldCase(Encode(Y))
<1> DEFINE P == Pieces(X)
           Q == Pieces(Y)
           n == Len(X)
<1>1. n = Len(Y) /\ \A i \in 1 .. n : Folded(X[i]) = Folded(Y[i])
  BY FoldSame
<1>2. /\ P \in Seq(Seq(Plain)) /\ Len(P) = n
      /\ \A i \in 1 .. n : X[i] \in Byte /\ P[i] = Escape(X[i])
  BY PiecesType
<1>3. /\ Q \in Seq(Seq(Plain)) /\ Len(Q) = n
      /\ \A i \in 1 .. n : Y[i] \in Byte /\ Q[i] = Escape(Y[i])
  BY <1>1, PiecesType
<1>a. Encode(X) = FlattenSeq(P) /\ Encode(Y) = FlattenSeq(Q) /\ n \in Nat
  BY DEF Encode, Pieces
<1> HIDE DEF P, Q, n
<1>4. PICK g : Flattens(Plain, P, g)
  BY <1>2, Flattening
<1>5. PICK h : Flattens(Plain, Q, h)
  BY <1>3, Flattening
<1>6. /\ g \in [0 .. n -> Seq(Plain)] /\ g[0] = <<>> /\ g[n] = Encode(X)
      /\ \A i \in 1 .. n : g[i] = g[i - 1] \o P[i]
  BY <1>2, <1>4, <1>a DEF Flattens
<1>7. /\ h \in [0 .. n -> Seq(Plain)] /\ h[0] = <<>> /\ h[n] = Encode(Y)
      /\ \A i \in 1 .. n : h[i] = h[i - 1] \o Q[i]
  BY <1>3, <1>5, <1>a DEF Flattens
<1>b. \A s \in Seq(Plain) : s \in Seq(Byte)
  BY PlainFacts
<1> DEFINE S == {i \in Nat : i <= n => FoldCase(g[i]) = FoldCase(h[i])}
<1>8. 0 \in S
  BY <1>6, <1>7
<1>9. ASSUME NEW i \in Nat, i \in S PROVE i + 1 \in S
  <2> DEFINE c == i + 1
  <2> SUFFICES ASSUME c <= n PROVE FoldCase(g[c]) = FoldCase(h[c])
    OBVIOUS
  <2>1. c \in 1 .. n /\ c - 1 = i /\ i \in 0 .. n /\ i <= n
    BY <1>a
  <2>2. FoldCase(g[i]) = FoldCase(h[i])
    BY <1>9, <2>1
  <2> HIDE DEF c
  <2>3. g[c] = g[i] \o P[c] /\ h[c] = h[i] \o Q[c] /\ g[i] \in Seq(Byte) /\ h[i] \in Seq(Byte)
    BY <1>6, <1>7, <1>b, <2>1
  <2>4. P[c] \in Seq(Byte) /\ Q[c] \in Seq(Byte)
    BY <1>2, <1>3, <1>b, <2>1, EscapeForms
  <2>5. FoldCase(P[c]) = FoldCase(Q[c])
    <3>1. Folded(X[c]) = Folded(Y[c]) /\ X[c] \in Byte /\ Y[c] \in Byte
      BY <1>1, <1>2, <1>3, <2>1
    <3> DEFINE x == X[c]
               y == Y[c]
    <3>a. x \in Byte /\ y \in Byte /\ Folded(x) = Folded(y) /\ P[c] = Escape(x) /\ Q[c] = Escape(y)
      BY <1>2, <1>3, <2>1, <3>1
    <3> HIDE DEF x, y
    <3>2. Len(P[c]) = Len(Q[c]) /\ \A j \in 1 .. Len(P[c]) : Folded(P[c][j]) = Folded(Q[c][j])
      <4>1. Len(Escape(x)) = Len(Escape(y)) /\ \A j \in 1 .. Len(Escape(x)) : Folded(Escape(x)[j]) = Folded(Escape(y)[j])
        BY <3>a, EscapeFolds
      <4> QED BY <3>a, <4>1
    <3> QED BY <2>4, <3>2, FoldSame
  <2>6. FoldCase(g[i] \o P[c]) = FoldCase(h[i] \o Q[c])
    BY <2>2, <2>3, <2>4, <2>5, FoldJoin
  <2> QED BY <2>3, <2>6
<1>10. n \in S
  <2>1. Nat \subseteq S
    <3> HIDE DEF S
    <3> QED BY <1>8, <1>9, Induction
  <2> QED BY <1>a, <2>1
<1> QED BY <1>6, <1>7, <1>10, <1>a

-------------------------------------------------------------------------------
\* One tagged field of a report's name.

Abut(s, t, u, v) == s \o t = u \o v

\* Equal concatenations are cut where the lengths say.
LEMMA CutSame ==
  ASSUME NEW s \in Seq(Byte), NEW t \in Seq(Byte), NEW u \in Seq(Byte), NEW v \in Seq(Byte), Abut(s, t, u, v), Len(s) = Len(u) \/ Len(t) = Len(v)
  PROVE  s = u /\ t = v
<1> DEFINE n == Len(s)
           m == Len(t)
           x == s \o t
<1>1. /\ n \in Nat /\ m \in Nat /\ x \in Seq(Byte) /\ Len(x) = n + m
      /\ \A j \in 1 .. n : x[j] = s[j]
      /\ \A j \in 1 .. m : x[n + j] = t[j]
  BY Joined
<1>2. /\ Len(u) \in Nat /\ Len(v) \in Nat /\ Len(x) = Len(u) + Len(v)
      /\ \A j \in 1 .. Len(u) : x[j] = u[j]
      /\ \A j \in 1 .. Len(v) : x[Len(u) + j] = v[j]
  <2>1. x = u \o v
    BY DEF Abut
  <2> QED BY <2>1, Joined
<1>a. n = Len(s) /\ m = Len(t)
  OBVIOUS
<1> HIDE DEF n, m, x
<1>3. Len(u) = n /\ Len(v) = m
  BY <1>1, <1>2, <1>a
<1>4. \A i \in 1 .. n : s[i] = u[i]
  BY <1>1, <1>2, <1>3
<1>5. \A i \in 1 .. m : t[i] = v[i]
  BY <1>1, <1>2, <1>3
<1>6. s = u
  BY <1>3, <1>4, <1>a
<1>7. t = v
  BY <1>3, <1>5, <1>a
<1> QED BY <1>6, <1>7

\* Concatenation is associative.
LEMMA Associates ==
  ASSUME NEW B, NEW s \in Seq(B), NEW t \in Seq(B), NEW u \in Seq(B)
  PROVE  (s \o t) \o u = s \o (t \o u)
OBVIOUS

\* A tagged field: the tag, eight bytes of length beginning with a NUL, the text.
LEMMA TaggedForm ==
  ASSUME NEW tag \in Byte, NEW v \in Seq(Byte)
  PROVE  /\ Tagged(tag, v) \in Seq(Byte) /\ Len(Tagged(tag, v)) = 9 + Len(v) /\ Len(v) \in Nat
         /\ Tagged(tag, v)[2] = 0
         /\ Len(v) <= 255 => Tagged(tag, v)[9] = Len(v)
         /\ \A j \in 1 .. Len(v) : Tagged(tag, v)[9 + j] = v[j]
<1> DEFINE n == Len(v)
           head == <<tag>> \o BigEndian(n)
<1>1. n \in Nat
  OBVIOUS
<1> HIDE DEF n
<1>2. BigEndian(n) \in Seq(Byte) /\ Len(BigEndian(n)) = 8 /\ BigEndian(n)[1] = 0 /\ BigEndian(n)[8] = n % 256
  <2>1. n % 256 \in Byte /\ (n \div 256) % 256 \in Byte /\ 0 \in Byte
    BY <1>1 DEF Byte
  <2> DEFINE x == n % 256
             y == (n \div 256) % 256
             big == [i \in 1 .. 8 |-> IF i = 8 THEN x ELSE IF i = 7 THEN y ELSE 0]
  <2>2. BigEndian(n) = big
    BY DEF BigEndian
  <2>3. x \in Byte /\ y \in Byte /\ 0 \in Byte
    BY <2>1
  <2> HIDE DEF x, y
  <2>4. big \in [1 .. 8 -> Byte] /\ big[1] = 0 /\ big[8] = x
    BY <2>3
  <2> HIDE DEF big
  <2>5. big \in Seq(Byte) /\ Len(big) = 8
    <3> DEFINE k == 8
    <3>1. k \in Nat /\ big \in [1 .. k -> Byte]
      BY <2>4
    <3> HIDE DEF k
    <3>2. big \in Seq(Byte) /\ Len(big) = k
      BY <3>1
    <3> QED BY <3>2 DEF k
  <2> QED BY <2>2, <2>4, <2>5 DEF x
<1>3. <<tag>> \in Seq(Byte) /\ Len(<<tag>>) = 1
  OBVIOUS
<1> DEFINE w == BigEndian(n)
           t == <<tag>>
<1>4. head = t \o w
  OBVIOUS
<1>5. w \in Seq(Byte) /\ Len(w) = 8 /\ t \in Seq(Byte) /\ Len(t) = 1 /\ w[1] = 0 /\ w[8] = n % 256
  BY <1>2, <1>3
<1>6. Tagged(tag, v) = head \o v
  BY DEF Tagged, n
<1> HIDE DEF w, t, head
<1>7. head \in Seq(Byte) /\ Len(head) = 9 /\ head[2] = 0 /\ head[9] = n % 256
  <2>1. t \o w \in Seq(Byte) /\ Len(t \o w) = 1 + 8 /\ \A j \in 1 .. 8 : (t \o w)[1 + j] = w[j]
    <3>1. t \in Seq(Byte) /\ w \in Seq(Byte)
      BY <1>5
    <3>2. /\ t \o w \in Seq(Byte) /\ Len(t \o w) = Len(t) + Len(w)
          /\ \A j \in 1 .. Len(w) : (t \o w)[Len(t) + j] = w[j]
      BY <3>1, Joined
    <3>3. Len(t) = 1 /\ Len(w) = 8
      BY <1>5
    <3> QED BY ONLY <3>2, <3>3
  <2>2. (t \o w)[1 + 1] = w[1] /\ (t \o w)[1 + 8] = w[8]
    <3>1. \A j \in 1 .. 8 : (t \o w)[1 + j] = w[j]
      BY <2>1
    <3>2. 1 \in 1 .. 8 /\ 8 \in 1 .. 8
      OBVIOUS
    <3> QED BY ONLY <3>1, <3>2
  <2>3. 1 + 1 = 2 /\ 1 + 8 = 9
    OBVIOUS
  <2> QED BY <1>4, <1>5, <2>1, <2>2, <2>3
<1>8. /\ head \o v \in Seq(Byte) /\ Len(head \o v) = 9 + n
      /\ \A j \in 1 .. 9 : (head \o v)[j] = head[j]
      /\ \A j \in 1 .. n : (head \o v)[9 + j] = v[j]
  <2>1. head \in Seq(Byte) /\ v \in Seq(Byte)
    BY <1>7
  <2>2. /\ head \o v \in Seq(Byte) /\ Len(head \o v) = Len(head) + Len(v)
        /\ \A j \in 1 .. Len(head) : (head \o v)[j] = head[j]
        /\ \A j \in 1 .. Len(v) : (head \o v)[Len(head) + j] = v[j]
    BY <2>1, Joined
  <2> QED BY <1>7, <2>2 DEF n
<1>9. n <= 255 => n % 256 = n
  BY <1>1
<1>10. Tagged(tag, v)[2] = 0 /\ Tagged(tag, v)[9] = n % 256
  <2>1. 2 \in 1 .. 9 /\ 9 \in 1 .. 9
    OBVIOUS
  <2>2. (head \o v)[2] = head[2] /\ (head \o v)[9] = head[9]
    BY <1>8, <2>1
  <2> QED BY <1>6, <1>7, <2>2
<1> QED BY <1>1, <1>6, <1>8, <1>9, <1>10 DEF n

Alike(tag, v, r, w, q) == Tagged(tag, v) \o r = Tagged(tag, w) \o q

\* The length says where the first field ends.
LEMMA FieldSame ==
  ASSUME NEW tag \in Byte, NEW v \in Seq(Byte), NEW w \in Seq(Byte), NEW r \in Seq(Byte), NEW q \in Seq(Byte),
         Len(v) <= 255, Len(w) <= 255, Alike(tag, v, r, w, q)
  PROVE  v = w /\ r = q
<1> DEFINE s == Tagged(tag, v)
           u == Tagged(tag, w)
<1>1. /\ s \in Seq(Byte) /\ Len(s) = 9 + Len(v) /\ Len(v) \in Nat
      /\ s[9] = Len(v)
      /\ \A j \in 1 .. Len(v) : s[9 + j] = v[j]
  BY TaggedForm
<1>2. /\ u \in Seq(Byte) /\ Len(u) = 9 + Len(w) /\ Len(w) \in Nat
      /\ u[9] = Len(w)
      /\ \A j \in 1 .. Len(w) : u[9 + j] = w[j]
  BY TaggedForm
<1>3. s \o r = u \o q
  BY DEF Alike
<1> HIDE DEF s, u
<1>4. (s \o r)[9] = s[9] /\ (u \o q)[9] = u[9]
  BY <1>1, <1>2, Joined
<1>5. Len(v) = Len(w) /\ Len(s) = Len(u)
  BY <1>1, <1>2, <1>3, <1>4
<1>6. s = u /\ r = q
  <2>1. s \in Seq(Byte) /\ r \in Seq(Byte) /\ u \in Seq(Byte) /\ q \in Seq(Byte) /\ Abut(s, r, u, q) /\ Len(s) = Len(u)
    BY <1>1, <1>2, <1>3, <1>5 DEF Abut
  <2> QED BY <2>1, CutSame
<1>7. v = w
  BY <1>1, <1>2, <1>5, <1>6
<1> QED BY <1>6, <1>7

\* Only a NUL folds to a NUL.
LEMMA FoldedNul == \A b \in Byte : Folded(b) = 0 => b = 0
BY DEF Folded, Byte, Upper

\* A text without NULs does not end before the one of another field that folds alike: there the next field's length has a NUL.
LEMMA FieldFolds ==
  ASSUME NEW tag \in Byte, NEW v \in Seq(Byte), NEW w \in Seq(Byte), NEW r \in Seq(Byte), NEW q \in Seq(Byte),
         Len(v) <= 255, Len(w) <= 255, FoldCase(Tagged(tag, v) \o r) = FoldCase(Tagged(tag, w) \o q),
         Len(v) < Len(w) => Len(r) >= 2 /\ r[2] = 0, \A i \in 1 .. Len(w) : w[i] # 0
  PROVE  ~(Len(v) < Len(w))
<1> SUFFICES ASSUME Len(v) < Len(w) PROVE FALSE
  OBVIOUS
<1> DEFINE s == Tagged(tag, v)
           u == Tagged(tag, w)
           x == s \o r
           y == u \o q
<1>1. /\ s \in Seq(Byte) /\ Len(s) = 9 + Len(v) /\ Len(v) \in Nat
      /\ s[9] = Len(v)
  BY TaggedForm
<1>2. /\ u \in Seq(Byte) /\ Len(u) = 9 + Len(w) /\ Len(w) \in Nat
      /\ u[9] = Len(w)
      /\ \A j \in 1 .. Len(w) : u[9 + j] = w[j]
  BY TaggedForm
<1> HIDE DEF s, u
<1>3. /\ x \in Seq(Byte) /\ Len(r) \in Nat /\ Len(x) = Len(s) + Len(r) /\ \A j \in 1 .. Len(s) : x[j] = s[j]
      /\ \A j \in 1 .. Len(r) : x[Len(s) + j] = r[j]
  <2>1. s \in Seq(Byte) /\ r \in Seq(Byte)
    BY <1>1
  <2> QED BY <2>1, Joined
<1>4. y \in Seq(Byte) /\ Len(y) = Len(u) + Len(q) /\ Len(q) \in Nat /\ \A j \in 1 .. Len(u) : y[j] = u[j]
  <2>1. u \in Seq(Byte) /\ q \in Seq(Byte)
    BY <1>2
  <2> QED BY <2>1, Joined
<1>5. FoldCase(x) = FoldCase(y)
  BY DEF s, u
<1> HIDE DEF x, y
<1>6. Len(x) = Len(y) /\ \A i \in 1 .. Len(x) : Folded(x[i]) = Folded(y[i])
  BY <1>3, <1>4, <1>5, FoldSame
<1>7. Folded(Len(v)) = Folded(Len(w))
  <2>1. 9 \in 1 .. Len(x) /\ 9 \in 1 .. Len(s) /\ 9 \in 1 .. Len(u)
    BY <1>1, <1>2, <1>3
  <2> QED BY <1>1, <1>2, <1>3, <1>4, <1>6, <2>1
<1>8. Len(w) = Len(v) + 32
  BY <1>1, <1>2, <1>7 DEF Folded, Upper
<1> DEFINE k == Len(s) + 2
<1>9. k \in 1 .. Len(x) /\ x[k] = 0
  BY <1>1, <1>3
<1>10. Len(v) + 2 \in 1 .. Len(w) /\ k = 9 + (Len(v) + 2) /\ k \in 1 .. Len(u)
  BY <1>1, <1>2, <1>8
<1>11. y[k] = w[Len(v) + 2] /\ w[Len(v) + 2] \in Byte
  <2>1. y[k] = u[k]
    BY <1>4, <1>10
  <2>2. u[k] = w[Len(v) + 2]
    BY <1>2, <1>10
  <2> QED BY <1>10, <2>1, <2>2
<1>12. Folded(y[k]) = Folded(0)
  BY <1>6, <1>9
<1>13. Folded(0) = 0
  BY DEF Folded, Upper
<1>14. y[k] = 0
  BY <1>11, <1>12, <1>13, FoldedNul
<1> QED BY <1>10, <1>11, <1>14

\* A field and what follows it, up to case.
LEMMA FieldsFold ==
  ASSUME NEW tag \in Byte, NEW v \in Seq(Byte), NEW w \in Seq(Byte), NEW r \in Seq(Byte), NEW q \in Seq(Byte),
         Len(v) <= 255, Len(w) <= 255, FoldCase(Tagged(tag, v) \o r) = FoldCase(Tagged(tag, w) \o q),
         Len(r) >= 2 /\ r[2] = 0, Len(q) >= 2 /\ q[2] = 0,
         \A i \in 1 .. Len(v) : v[i] # 0, \A i \in 1 .. Len(w) : w[i] # 0
  PROVE  FoldCase(v) = FoldCase(w) /\ FoldCase(r) = FoldCase(q)
<1> DEFINE s == Tagged(tag, v)
           u == Tagged(tag, w)
<1>1. ~(Len(v) < Len(w)) /\ ~(Len(w) < Len(v))
  BY FieldFolds
<1>2. /\ s \in Seq(Byte) /\ Len(s) = 9 + Len(v) /\ Len(v) \in Nat
      /\ \A j \in 1 .. Len(v) : s[9 + j] = v[j]
  BY TaggedForm
<1>3. /\ u \in Seq(Byte) /\ Len(u) = 9 + Len(w) /\ Len(w) \in Nat
      /\ \A j \in 1 .. Len(w) : u[9 + j] = w[j]
  BY TaggedForm
<1>a. FoldCase(s \o r) = FoldCase(u \o q)
  OBVIOUS
<1> HIDE DEF s, u
<1>4. Len(v) = Len(w) /\ Len(s) = Len(u)
  BY <1>1, <1>2, <1>3
<1>5. FoldCase(s) = FoldCase(u) /\ FoldCase(r) = FoldCase(q)
  BY <1>2, <1>3, <1>4, <1>a, FoldCut
<1>6. \A i \in 1 .. Len(s) : Folded(s[i]) = Folded(u[i])
  BY <1>2, <1>3, <1>5, FoldSame
<1>7. \A i \in 1 .. Len(v) : Folded(v[i]) = Folded(w[i])
  <2> SUFFICES ASSUME NEW i \in 1 .. Len(v) PROVE Folded(v[i]) = Folded(w[i])
    OBVIOUS
  <2>1. 9 + i \in 1 .. Len(s)
    BY <1>2
  <2>2. s[9 + i] = v[i] /\ u[9 + i] = w[i]
    BY <1>2, <1>3, <1>4
  <2> QED BY <1>6, <2>1, <2>2
<1> QED BY <1>4, <1>5, <1>7, FoldSame

-------------------------------------------------------------------------------
\* The four fields of a report's name, and the name.

\* Encoding never shortens.
LEMMA Wide == ASSUME NEW X \in Seq(Byte) PROVE Len(Encode(X)) \in Nat /\ Len(X) <= Len(Encode(X))
<1> DEFINE n == Len(X)
           P == Pieces(X)
           s == Encode(X)
<1>1. PICK at : Lays(P, s, at)
  BY Encoded
<1>2. n \in Nat /\ Len(P) = n /\ \A i \in 1 .. n : Len(P[i]) \in Nat /\ Len(P[i]) >= 1
  <2>1. Len(P) = n /\ \A i \in 1 .. n : X[i] \in Byte /\ P[i] = Escape(X[i])
    BY PiecesType
  <2>2. \A b \in Byte : Len(Escape(b)) \in Nat /\ Len(Escape(b)) >= 1
    BY EscapeWidth
  <2> QED BY <2>1, <2>2
<1>3. s \in Seq(Byte)
  BY Encoded
<1>a. n = Len(X)
  OBVIOUS
<1> HIDE DEF n, P, s
<1>4. /\ at \in [1 .. n + 1 -> Nat] /\ at[1] = 0 /\ at[n + 1] = Len(s)
      /\ \A i \in 1 .. n : at[i + 1] = at[i] + Len(P[i])
  BY <1>1, <1>2 DEF Lays
<1> DEFINE S == {i \in Nat : i <= n => i <= at[i + 1]}
<1>5. 0 \in S
  BY <1>4
<1>6. ASSUME NEW i \in Nat, i \in S PROVE i + 1 \in S
  <2> DEFINE c == i + 1
  <2> SUFFICES ASSUME c <= n PROVE c <= at[c + 1]
    OBVIOUS
  <2>1. c \in 1 .. n /\ i <= n /\ c \in 1 .. n + 1
    BY <1>2
  <2>2. i <= at[c] /\ at[c] \in Nat
    BY <1>4, <1>6, <2>1
  <2>3. c = i + 1
    OBVIOUS
  <2> HIDE DEF c
  <2>4. at[c + 1] = at[c] + Len(P[c]) /\ Len(P[c]) \in Nat /\ Len(P[c]) >= 1
    BY <1>2, <1>4, <2>1
  <2> QED BY <2>2, <2>3, <2>4
<1>7. n \in S
  <2>1. Nat \subseteq S
    <3> HIDE DEF S
    <3> QED BY <1>5, <1>6, Induction
  <2> QED BY <1>2, <2>1
<1>8. Len(s) \in Nat
  BY <1>3
<1>9. n <= Len(s)
  BY <1>2, <1>4, <1>7
<1> QED BY <1>8, <1>9, <1>a DEF s

Identity == {identity \in Seq(Seq(Byte)) : Len(identity) = 4}

\* The four fields of a report's name, one after the other.
FieldChain(id, w, t2, t3, t4) ==
  /\ w = Tagged(99, id[1]) \o t2 /\ t2 = Tagged(112, id[2]) \o t3
  /\ t3 = Tagged(116, id[3]) \o t4 /\ t4 = Tagged(103, id[4])
  /\ w \in Seq(Byte) /\ t2 \in Seq(Byte) /\ t3 \in Seq(Byte) /\ t4 \in Seq(Byte)
  /\ Len(t2) >= 2 /\ t2[2] = 0 /\ Len(t3) >= 2 /\ t3[2] = 0 /\ Len(t4) >= 2 /\ t4[2] = 0
  /\ \A i \in 1 .. 4 : id[i] \in Seq(Byte) /\ Len(id[i]) \in Nat /\ Len(id[i]) <= Len(w)

\* The four fields of an identity, one after the other.
LEMMA LabelledForm ==
  ASSUME NEW id \in Identity
  PROVE  \E t2, t3, t4 : FieldChain(id, Labelled(id), t2, t3, t4)
<1> DEFINE i1 == id[1]
           i2 == id[2]
           i3 == id[3]
           i4 == id[4]
           a == Tagged(99, i1)
           b == Tagged(112, i2)
           c == Tagged(116, i3)
           d == Tagged(103, i4)
           n1 == Len(i1)
           n2 == Len(i2)
           n3 == Len(i3)
           n4 == Len(i4)
<1>1. i1 \in Seq(Byte) /\ i2 \in Seq(Byte) /\ i3 \in Seq(Byte) /\ i4 \in Seq(Byte)
  BY DEF Identity
<1>7. Labelled(id) = ((a \o b) \o c) \o d
  BY DEF Labelled
<1>b. i1 = id[1] /\ i2 = id[2] /\ i3 = id[3] /\ i4 = id[4]
  OBVIOUS
<1> HIDE DEF i1, i2, i3, i4
<1>2. 99 \in Byte /\ 112 \in Byte /\ 116 \in Byte /\ 103 \in Byte
  BY DEF Byte
<1>3. a \in Seq(Byte) /\ Len(a) = 9 + n1 /\ n1 \in Nat
  BY <1>1, <1>2, TaggedForm
<1>4. b \in Seq(Byte) /\ Len(b) = 9 + n2 /\ n2 \in Nat /\ b[2] = 0
  BY <1>1, <1>2, TaggedForm
<1>5. c \in Seq(Byte) /\ Len(c) = 9 + n3 /\ n3 \in Nat /\ c[2] = 0
  BY <1>1, <1>2, TaggedForm
<1>6. d \in Seq(Byte) /\ Len(d) = 9 + n4 /\ n4 \in Nat /\ d[2] = 0
  BY <1>1, <1>2, TaggedForm
<1>a. d = Tagged(103, i4) /\ c = Tagged(116, i3) /\ b = Tagged(112, i2) /\ a = Tagged(99, i1)
  OBVIOUS
<1>c. n1 = Len(i1) /\ n2 = Len(i2) /\ n3 = Len(i3) /\ n4 = Len(i4)
  OBVIOUS
<1> HIDE DEF a, b, c, d, n1, n2, n3, n4
<1>g. /\ (9 + n3) + (9 + n4) = 18 + n3 + n4
      /\ (9 + n2) + (18 + n3 + n4) = 27 + n2 + n3 + n4
      /\ (9 + n1) + (27 + n2 + n3 + n4) = 36 + n1 + n2 + n3 + n4
  <2>1. n1 \in Nat /\ n2 \in Nat /\ n3 \in Nat /\ n4 \in Nat
    BY <1>3, <1>4, <1>5, <1>6
  <2> QED BY <2>1
<1> DEFINE t3 == c \o d
           t2 == b \o t3
           w == a \o t2
<1>8. t3 \in Seq(Byte) /\ Len(t3) = 18 + n3 + n4 /\ t3[2] = 0
  <2>0. c \in Seq(Byte) /\ d \in Seq(Byte)
    BY <1>5, <1>6
  <2>1. t3 \in Seq(Byte) /\ Len(t3) = Len(c) + Len(d) /\ \A j \in 1 .. Len(c) : t3[j] = c[j]
    BY <2>0, Joined
  <2>2. 2 \in 1 .. Len(c)
    BY <1>5
  <2> HIDE DEF t3
  <2>3. Len(t3) = (9 + n3) + (9 + n4)
    BY <1>5, <1>6, <2>1
  <2> QED BY <1>5, <1>g, <2>1, <2>2, <2>3
<1>d. t3 = c \o d
  OBVIOUS
<1> HIDE DEF t3
<1>9. t2 \in Seq(Byte) /\ Len(t2) = 27 + n2 + n3 + n4 /\ t2[2] = 0
  <2>0. b \in Seq(Byte) /\ t3 \in Seq(Byte)
    BY <1>4, <1>8
  <2>1. t2 \in Seq(Byte) /\ Len(t2) = Len(b) + Len(t3) /\ \A j \in 1 .. Len(b) : t2[j] = b[j]
    BY <2>0, Joined
  <2>2. 2 \in 1 .. Len(b)
    BY <1>4
  <2> HIDE DEF t2
  <2>3. Len(t2) = (9 + n2) + (18 + n3 + n4)
    BY <1>4, <1>8, <2>1
  <2> QED BY <1>4, <1>g, <2>1, <2>2, <2>3
<1>e. t2 = b \o t3
  OBVIOUS
<1> HIDE DEF t2
<1>10. w \in Seq(Byte) /\ Len(w) = 36 + n1 + n2 + n3 + n4
  <2>0. a \in Seq(Byte) /\ t2 \in Seq(Byte)
    BY <1>3, <1>9
  <2>1. w \in Seq(Byte) /\ Len(w) = Len(a) + Len(t2)
    BY <2>0, Joined
  <2> HIDE DEF w
  <2>2. Len(w) = (9 + n1) + (27 + n2 + n3 + n4)
    BY <1>3, <1>9, <2>1
  <2> QED BY <1>g, <2>1, <2>2
<1>f. w = a \o t2
  OBVIOUS
<1> HIDE DEF w
<1>11. Labelled(id) = w
  <2>1. a \in Seq(Byte) /\ b \in Seq(Byte) /\ c \in Seq(Byte) /\ d \in Seq(Byte)
    BY <1>3, <1>4, <1>5, <1>6
  <2> DEFINE ab == a \o b
  <2>2. ab \in Seq(Byte)
    BY <2>1
  <2> HIDE DEF ab
  <2>3. (ab \o c) \o d = ab \o (c \o d)
    BY <2>1, <2>2, Associates
  <2>4. (a \o b) \o t3 = a \o (b \o t3)
    <3>1. a \in Seq(Byte) /\ b \in Seq(Byte) /\ t3 \in Seq(Byte)
      BY <1>8, <2>1
    <3> QED BY <3>1, Associates
  <2>5. Labelled(id) = (ab \o c) \o d
    BY <1>7 DEF ab
  <2> QED BY <1>d, <1>e, <1>f, <2>3, <2>4, <2>5 DEF ab
<1>12. Len(t2) >= 2 /\ Len(t3) >= 2 /\ Len(d) >= 2
  BY <1>3, <1>4, <1>5, <1>6, <1>8, <1>9
<1>13. \A i \in 1 .. 4 : id[i] \in Seq(Byte) /\ Len(id[i]) \in Nat /\ Len(id[i]) <= Len(w)
  <2>1. n1 <= Len(w) /\ n2 <= Len(w) /\ n3 <= Len(w) /\ n4 <= Len(w)
    BY <1>3, <1>4, <1>5, <1>6, <1>10
  <2>2. \A i \in 1 .. 4 : i = 1 \/ i = 2 \/ i = 3 \/ i = 4
    OBVIOUS
  <2> QED BY <1>1, <1>3, <1>4, <1>5, <1>6, <1>b, <1>c, <2>1, <2>2
<1>14. FieldChain(id, w, t2, t3, d)
  BY <1>6, <1>8, <1>9, <1>10, <1>12, <1>13, <1>a, <1>b, <1>d, <1>e, <1>f DEF FieldChain
<1> QED BY <1>11, <1>14

\* A report's name, and that the texts of an identity that has one are short.
LEMMA NameForm ==
  ASSUME NEW id \in Identity
  PROVE  /\ Labelled(id) \in Seq(Byte) /\ Encode(Labelled(id)) \in Seq(Byte) /\ Extension \in Seq(Byte) /\ Len(Extension) = 4
         /\ EncodedName(id) = Encode(Labelled(id)) \o Extension /\ EncodedName(id) \in Seq(Plain)
         /\ Len(EncodedName(id)) = Len(Encode(Labelled(id))) + 4
         /\ Named(id) => \A i \in 1 .. 4 : id[i] \in Seq(Byte) /\ Len(id[i]) \in Nat /\ Len(id[i]) <= 255
<1> DEFINE w == Labelled(id)
           e == Encode(w)
<1>1. w \in Seq(Byte) /\ \A i \in 1 .. 4 : id[i] \in Seq(Byte) /\ Len(id[i]) \in Nat /\ Len(id[i]) <= Len(w)
  BY LabelledForm DEF FieldChain
<1>2. e \in Seq(Byte) /\ e \in Seq(Plain) /\ Len(e) \in Nat /\ Len(w) <= Len(e) /\ Len(w) \in Nat
  <2>1. w \in Seq(Byte)
    BY <1>1
  <2> HIDE DEF w
  <2> QED BY <2>1, Encoded, Wide
<1> DEFINE x == Extension
<1>3. x \in Seq(Plain) /\ x \in Seq(Byte) /\ Len(x) = 4
  <2>1. 46 \in Plain /\ 120 \in Plain /\ 109 \in Plain /\ 108 \in Plain
    BY DEF Plain, Unreserved, Lower
  <2>2. 46 \in Byte /\ 120 \in Byte /\ 109 \in Byte /\ 108 \in Byte
    BY DEF Byte
  <2> HIDE DEF Plain, Byte
  <2>3. <<46, 120, 109, 108>> \in Seq(Plain) /\ Len(<<46, 120, 109, 108>>) = 4
    BY <2>1
  <2>4. <<46, 120, 109, 108>> \in Seq(Byte)
    BY <2>2
  <2> QED BY <2>3, <2>4 DEF Extension
<1>4. EncodedName(id) = e \o x
  BY DEF EncodedName
<1>a. w = Labelled(id) /\ e = Encode(w) /\ x = Extension
  OBVIOUS
<1> HIDE DEF w, e, x
<1>5. e \o x \in Seq(Plain) /\ Len(e \o x) = Len(e) + Len(x)
  <2>1. e \in Seq(Plain) /\ x \in Seq(Plain)
    BY <1>2, <1>3
  <2> QED BY <2>1, Joined
<1>6. ASSUME Named(id) PROVE \A i \in 1 .. 4 : id[i] \in Seq(Byte) /\ Len(id[i]) \in Nat /\ Len(id[i]) <= 255
  <2>1. Len(e) + 4 <= 255
    BY <1>3, <1>4, <1>5, <1>6 DEF Named, ConservativeNameMax
  <2>2. Len(w) <= 255
    BY <1>2, <2>1
  <2> QED BY <1>1, <1>2, <2>2
<1> QED BY <1>1, <1>2, <1>3, <1>4, <1>5, <1>6, <1>a

\* The tags c, p, t and g.
LEMMA TagsAreBytes == 99 \in Byte /\ 112 \in Byte /\ 116 \in Byte /\ 103 \in Byte
BY DEF Byte

\* An identity has four texts.
LEMMA Fourfold == \A i \in 1 .. 4 : i = 1 \/ i = 2 \/ i = 3 \/ i = 4
OBVIOUS

\* Nothing follows the last field: its text is what is left.
LEMMA LastSame ==
  ASSUME NEW tag \in Byte, NEW v \in Seq(Byte), NEW w \in Seq(Byte), Len(v) <= 255, Len(w) <= 255, Tagged(tag, v) = Tagged(tag, w)
  PROVE  v = w
<1> DEFINE e == <<>>
<1>1. e \in Seq(Byte)
  OBVIOUS
<1> HIDE DEF e
<1>2. Alike(tag, v, e, w, e)
  BY DEF Alike
<1> QED BY <1>1, <1>2, FieldSame

\* The same for the folded names.
LEMMA LastFolds ==
  ASSUME NEW tag \in Byte, NEW v \in Seq(Byte), NEW w \in Seq(Byte), FoldCase(Tagged(tag, v)) = FoldCase(Tagged(tag, w))
  PROVE  FoldCase(v) = FoldCase(w)
<1> DEFINE s == Tagged(tag, v)
           u == Tagged(tag, w)
           n == Len(v)
           m == Len(w)
<1>1. /\ s \in Seq(Byte) /\ Len(s) = 9 + n /\ n \in Nat /\ n = Len(v)
      /\ \A j \in 1 .. n : s[9 + j] = v[j]
  BY TaggedForm
<1>2. /\ u \in Seq(Byte) /\ Len(u) = 9 + m /\ m \in Nat /\ m = Len(w)
      /\ \A j \in 1 .. m : u[9 + j] = w[j]
  BY TaggedForm
<1>3. Len(s) = Len(u) /\ \A i \in 1 .. Len(s) : Folded(s[i]) = Folded(u[i])
  BY <1>1, <1>2, FoldSame
<1> HIDE DEF s, u, n, m
<1>4. n = m
  BY <1>1, <1>2, <1>3
<1>5. \A i \in 1 .. n : Folded(v[i]) = Folded(w[i])
  <2> SUFFICES ASSUME NEW i \in 1 .. n PROVE Folded(v[i]) = Folded(w[i])
    OBVIOUS
  <2>1. 9 + i \in 1 .. Len(s)
    BY <1>1
  <2>2. s[9 + i] = v[i] /\ u[9 + i] = w[i]
    BY <1>1, <1>2, <1>4
  <2> QED BY <1>3, <2>1, <2>2
<1> QED BY <1>1, <1>2, <1>4, <1>5, FoldSame

\* One name, one identity.
LEMMA OwnName ==
  ASSUME NEW one \in Identity, NEW other \in Identity, Named(one), Named(other), EncodedName(one) = EncodedName(other)
  PROVE  one = other
<1> DEFINE x == Labelled(one)
           y == Labelled(other)
           s == Encode(x)
           t == Encode(y)
           e == Extension
<1>1. /\ x \in Seq(Byte) /\ s \in Seq(Byte) /\ e \in Seq(Byte) /\ EncodedName(one) = s \o e
      /\ \A i \in 1 .. 4 : one[i] \in Seq(Byte) /\ Len(one[i]) <= 255
  BY NameForm
<1>2. /\ y \in Seq(Byte) /\ t \in Seq(Byte) /\ EncodedName(other) = t \o e
      /\ \A i \in 1 .. 4 : other[i] \in Seq(Byte) /\ Len(other[i]) <= 255
  BY NameForm
<1>3. s = t
  <2>1. s \in Seq(Byte) /\ e \in Seq(Byte) /\ t \in Seq(Byte) /\ Abut(s, e, t, e) /\ Len(e) = Len(e)
    BY <1>1, <1>2 DEF Abut
  <2> HIDE DEF s, t, e
  <2> QED BY <2>1, CutSame
<1>4. x = y
  <2>1. x \in Seq(Byte) /\ y \in Seq(Byte) /\ FoldCase(Encode(x)) = FoldCase(Encode(y)) /\ Encode(x) = Encode(y)
    BY <1>1, <1>2, <1>3
  <2> HIDE DEF x, y
  <2> QED BY <2>1, EncodeBack
<1>5. PICK t2, t3, t4 : FieldChain(one, x, t2, t3, t4)
  BY LabelledForm
<1>6. PICK u2, u3, u4 : FieldChain(other, y, u2, u3, u4)
  BY LabelledForm
<1> DEFINE a == one[1]
           b == one[2]
           c == one[3]
           d == one[4]
           aa == other[1]
           bb == other[2]
           cc == other[3]
           dd == other[4]
<1>7. /\ a \in Seq(Byte) /\ b \in Seq(Byte) /\ c \in Seq(Byte) /\ d \in Seq(Byte)
      /\ Len(a) <= 255 /\ Len(b) <= 255 /\ Len(c) <= 255 /\ Len(d) <= 255
  BY <1>1
<1>8. /\ aa \in Seq(Byte) /\ bb \in Seq(Byte) /\ cc \in Seq(Byte) /\ dd \in Seq(Byte)
      /\ Len(aa) <= 255 /\ Len(bb) <= 255 /\ Len(cc) <= 255 /\ Len(dd) <= 255
  BY <1>2
<1>9. /\ x = Tagged(99, a) \o t2 /\ t2 = Tagged(112, b) \o t3 /\ t3 = Tagged(116, c) \o t4 /\ t4 = Tagged(103, d)
      /\ t2 \in Seq(Byte) /\ t3 \in Seq(Byte) /\ t4 \in Seq(Byte)
  BY <1>5 DEF FieldChain
<1>10. /\ y = Tagged(99, aa) \o u2 /\ u2 = Tagged(112, bb) \o u3 /\ u3 = Tagged(116, cc) \o u4 /\ u4 = Tagged(103, dd)
       /\ u2 \in Seq(Byte) /\ u3 \in Seq(Byte) /\ u4 \in Seq(Byte)
  BY <1>6 DEF FieldChain
<1>a. /\ a = one[1] /\ b = one[2] /\ c = one[3] /\ d = one[4]
      /\ aa = other[1] /\ bb = other[2] /\ cc = other[3] /\ dd = other[4]
  OBVIOUS
<1> HIDE DEF a, b, c, d, aa, bb, cc, dd, x, y
<1>d. t2 \in Seq(Byte) /\ t3 \in Seq(Byte) /\ t4 \in Seq(Byte) /\ u2 \in Seq(Byte) /\ u3 \in Seq(Byte) /\ u4 \in Seq(Byte)
  BY <1>9, <1>10
<1>11. a = aa /\ t2 = u2
  <2>1. Alike(99, a, t2, aa, u2)
    BY <1>4, <1>9, <1>10 DEF Alike
  <2> QED BY <1>7, <1>8, <1>d, <2>1, TagsAreBytes, FieldSame
<1>12. b = bb /\ t3 = u3
  <2>1. Alike(112, b, t3, bb, u3)
    BY <1>9, <1>10, <1>11 DEF Alike
  <2> QED BY <1>7, <1>8, <1>d, <2>1, TagsAreBytes, FieldSame
<1>13. c = cc /\ t4 = u4
  <2>1. Alike(116, c, t4, cc, u4)
    BY <1>9, <1>10, <1>12 DEF Alike
  <2> QED BY <1>7, <1>8, <1>d, <2>1, TagsAreBytes, FieldSame
<1>14. d = dd
  <2>1. Tagged(103, d) = Tagged(103, dd)
    BY <1>9, <1>10, <1>13
  <2> QED BY <1>7, <1>8, <2>1, TagsAreBytes, LastSame
<1>15. \A i \in 1 .. 4 : one[i] = other[i]
  BY <1>11, <1>12, <1>13, <1>14, <1>a, Fourfold
<1> DEFINE n == 4
<1>16. one \in Seq(Seq(Byte)) /\ other \in Seq(Seq(Byte)) /\ Len(one) = n /\ Len(other) = n /\ n \in Nat
  BY DEF Identity
<1>17. \A i \in 1 .. n : one[i] = other[i]
  BY <1>15
<1> HIDE DEF n
<1> QED BY <1>16, <1>17

\* One reservation, one identity up to case.
LEMMA OwnKey ==
  ASSUME NEW one \in Identity, NEW other \in Identity, Named(one), Named(other), NulFree(one), NulFree(other),
         ReserveKey(one) = ReserveKey(other)
  PROVE  CaseVariants(one, other)
<1> DEFINE x == Labelled(one)
           y == Labelled(other)
           s == Encode(x)
           t == Encode(y)
           e == Extension
<1>1. /\ x \in Seq(Byte) /\ s \in Seq(Byte) /\ e \in Seq(Byte) /\ EncodedName(one) = s \o e
      /\ \A i \in 1 .. 4 : one[i] \in Seq(Byte) /\ Len(one[i]) <= 255
  BY NameForm
<1>2. /\ y \in Seq(Byte) /\ t \in Seq(Byte) /\ EncodedName(other) = t \o e
      /\ \A i \in 1 .. 4 : other[i] \in Seq(Byte) /\ Len(other[i]) <= 255
  BY NameForm
<1>3. FoldCase(s) = FoldCase(t)
  <2>1. /\ s \in Seq(Byte) /\ e \in Seq(Byte) /\ t \in Seq(Byte) /\ Len(e) = Len(e)
        /\ FoldCase(s \o e) = FoldCase(t \o e)
    BY <1>1, <1>2 DEF ReserveKey
  <2> HIDE DEF s, t, e
  <2> QED BY <2>1, FoldCut
<1>4. FoldCase(x) = FoldCase(y)
  <2>1. x \in Seq(Byte) /\ y \in Seq(Byte) /\ FoldCase(Encode(x)) = FoldCase(Encode(y))
    BY <1>1, <1>2, <1>3
  <2> HIDE DEF x, y
  <2> QED BY <2>1, EncodeBack
<1>5. PICK t2, t3, t4 : FieldChain(one, x, t2, t3, t4)
  BY LabelledForm
<1>6. PICK u2, u3, u4 : FieldChain(other, y, u2, u3, u4)
  BY LabelledForm
<1> DEFINE Sound(v) == v \in Seq(Byte) /\ Len(v) <= 255 /\ \A i \in 1 .. Len(v) : v[i] # 0
           Rest(r) == r \in Seq(Byte) /\ Len(r) >= 2 /\ r[2] = 0
<1>7. \A i \in 1 .. 4 : Sound(one[i]) /\ Sound(other[i])
  BY <1>1, <1>2 DEF NulFree, Contains
<1> DEFINE a == one[1]
           b == one[2]
           c == one[3]
           d == one[4]
           aa == other[1]
           bb == other[2]
           cc == other[3]
           dd == other[4]
<1>8. Sound(a) /\ Sound(b) /\ Sound(c) /\ Sound(d) /\ Sound(aa) /\ Sound(bb) /\ Sound(cc) /\ Sound(dd)
  <2> HIDE DEF Sound
  <2> QED BY <1>7
<1>9. /\ x = Tagged(99, a) \o t2 /\ t2 = Tagged(112, b) \o t3 /\ t3 = Tagged(116, c) \o t4 /\ t4 = Tagged(103, d)
      /\ Rest(t2) /\ Rest(t3) /\ Rest(t4)
  BY <1>5 DEF FieldChain
<1>10. /\ y = Tagged(99, aa) \o u2 /\ u2 = Tagged(112, bb) \o u3 /\ u3 = Tagged(116, cc) \o u4 /\ u4 = Tagged(103, dd)
       /\ Rest(u2) /\ Rest(u3) /\ Rest(u4)
  BY <1>6 DEF FieldChain
<1>a. /\ a = one[1] /\ b = one[2] /\ c = one[3] /\ d = one[4]
      /\ aa = other[1] /\ bb = other[2] /\ cc = other[3] /\ dd = other[4]
  OBVIOUS
<1> HIDE DEF a, b, c, d, aa, bb, cc, dd, x, y
<1>b. ASSUME NEW tag \in Byte, NEW v, NEW w, NEW r, NEW q, Sound(v), Sound(w), Rest(r), Rest(q),
             FoldCase(Tagged(tag, v) \o r) = FoldCase(Tagged(tag, w) \o q)
      PROVE  FoldCase(v) = FoldCase(w) /\ FoldCase(r) = FoldCase(q)
  BY <1>b, FieldsFold
<1> HIDE DEF Sound, Rest
<1>11. FoldCase(a) = FoldCase(aa) /\ FoldCase(t2) = FoldCase(u2)
  <2>1. FoldCase(Tagged(99, a) \o t2) = FoldCase(Tagged(99, aa) \o u2)
    BY <1>4, <1>9, <1>10
  <2> QED BY <1>8, <1>9, <1>10, <1>b, <2>1, TagsAreBytes
<1>12. FoldCase(b) = FoldCase(bb) /\ FoldCase(t3) = FoldCase(u3)
  <2>1. FoldCase(Tagged(112, b) \o t3) = FoldCase(Tagged(112, bb) \o u3)
    BY <1>9, <1>10, <1>11
  <2> QED BY <1>8, <1>9, <1>10, <1>b, <2>1, TagsAreBytes
<1>13. FoldCase(c) = FoldCase(cc) /\ FoldCase(t4) = FoldCase(u4)
  <2>1. FoldCase(Tagged(116, c) \o t4) = FoldCase(Tagged(116, cc) \o u4)
    BY <1>9, <1>10, <1>12
  <2> QED BY <1>8, <1>9, <1>10, <1>b, <2>1, TagsAreBytes
<1>14. FoldCase(d) = FoldCase(dd)
  <2>1. FoldCase(Tagged(103, d)) = FoldCase(Tagged(103, dd))
    BY <1>9, <1>10, <1>13
  <2> QED BY <1>8, <2>1, TagsAreBytes, LastFolds DEF Sound
<1> QED BY <1>11, <1>12, <1>13, <1>14, <1>a, Fourfold DEF CaseVariants

\* Fields of texts that fold alike fold alike.
LEMMA TaggedFolds ==
  ASSUME NEW tag \in Byte, NEW v \in Seq(Byte), NEW w \in Seq(Byte), FoldCase(v) = FoldCase(w)
  PROVE  FoldCase(Tagged(tag, v)) = FoldCase(Tagged(tag, w)) /\ Tagged(tag, v) \in Seq(Byte) /\ Tagged(tag, w) \in Seq(Byte)
<1> DEFINE s == Tagged(tag, v)
           u == Tagged(tag, w)
           e == <<>>
           head == Tagged(tag, e)
<1>1. Len(v) = Len(w)
  BY FoldSame
<1> DEFINE h == <<tag>> \o BigEndian(Len(v))
<1>2. s = h \o v /\ u = h \o w
  BY <1>1 DEF Tagged
<1>3. h \in Seq(Byte)
  <2> DEFINE n == Len(v)
             x == n % 256
             y == (n \div 256) % 256
             big == [i \in 1 .. 8 |-> IF i = 8 THEN x ELSE IF i = 7 THEN y ELSE 0]
             k == 8
  <2>1. n \in Nat
    OBVIOUS
  <2>2. h = <<tag>> \o big
    BY DEF BigEndian
  <2> HIDE DEF n
  <2>3. x \in Byte /\ y \in Byte /\ 0 \in Byte
    BY <2>1 DEF Byte
  <2> HIDE DEF x, y
  <2>4. k \in Nat /\ big \in [1 .. k -> Byte]
    BY <2>3
  <2> HIDE DEF k, big
  <2>5. big \in Seq(Byte) /\ <<tag>> \in Seq(Byte)
    BY <2>4
  <2> HIDE DEF h
  <2> QED BY <2>2, <2>5
<1>4. FoldCase(h \o v) = FoldCase(h \o w)
  <2> HIDE DEF h
  <2> QED BY <1>3, FoldJoin
<1>5. s \in Seq(Byte) /\ u \in Seq(Byte)
  BY TaggedForm
<1> QED BY <1>2, <1>4, <1>5

\* Identities that differ in nothing but case share their reservation.
LEMMA KeysFold ==
  ASSUME NEW one \in Identity, NEW other \in Identity, CaseVariants(one, other)
  PROVE  ReserveKey(one) = ReserveKey(other)
<1> DEFINE a == one[1]
           b == one[2]
           c == one[3]
           d == one[4]
           aa == other[1]
           bb == other[2]
           cc == other[3]
           dd == other[4]
<1>1. /\ a \in Seq(Byte) /\ b \in Seq(Byte) /\ c \in Seq(Byte) /\ d \in Seq(Byte)
      /\ aa \in Seq(Byte) /\ bb \in Seq(Byte) /\ cc \in Seq(Byte) /\ dd \in Seq(Byte)
  BY DEF Identity
<1>2. FoldCase(a) = FoldCase(aa) /\ FoldCase(b) = FoldCase(bb) /\ FoldCase(c) = FoldCase(cc) /\ FoldCase(d) = FoldCase(dd)
  BY DEF CaseVariants
<1> DEFINE p == Tagged(99, a)
           q == Tagged(112, b)
           r == Tagged(116, c)
           s == Tagged(103, d)
           pp == Tagged(99, aa)
           qq == Tagged(112, bb)
           rr == Tagged(116, cc)
           ss == Tagged(103, dd)
<1>3. Labelled(one) = ((p \o q) \o r) \o s /\ Labelled(other) = ((pp \o qq) \o rr) \o ss
  BY DEF Labelled
<1> HIDE DEF a, b, c, d, aa, bb, cc, dd
<1>4. FoldCase(p) = FoldCase(pp) /\ p \in Seq(Byte) /\ pp \in Seq(Byte)
  BY <1>1, <1>2, TagsAreBytes, TaggedFolds
<1>5. FoldCase(q) = FoldCase(qq) /\ q \in Seq(Byte) /\ qq \in Seq(Byte)
  BY <1>1, <1>2, TagsAreBytes, TaggedFolds
<1>6. FoldCase(r) = FoldCase(rr) /\ r \in Seq(Byte) /\ rr \in Seq(Byte)
  BY <1>1, <1>2, TagsAreBytes, TaggedFolds
<1>7. FoldCase(s) = FoldCase(ss) /\ s \in Seq(Byte) /\ ss \in Seq(Byte)
  BY <1>1, <1>2, TagsAreBytes, TaggedFolds
<1> HIDE DEF p, q, r, s, pp, qq, rr, ss
<1> DEFINE m == p \o q
           mm == pp \o qq
<1>8. FoldCase(m) = FoldCase(mm) /\ m \in Seq(Byte) /\ mm \in Seq(Byte)
  BY <1>4, <1>5, FoldJoin, Joined
<1> HIDE DEF m, mm
<1> DEFINE n == m \o r
           nn == mm \o rr
<1>9. FoldCase(n) = FoldCase(nn) /\ n \in Seq(Byte) /\ nn \in Seq(Byte)
  BY <1>6, <1>8, FoldJoin, Joined
<1> HIDE DEF n, nn
<1> DEFINE x == n \o s
           y == nn \o ss
<1>10. FoldCase(x) = FoldCase(y) /\ x \in Seq(Byte) /\ y \in Seq(Byte)
  BY <1>7, <1>9, FoldJoin, Joined
<1>11. x = Labelled(one) /\ y = Labelled(other)
  BY <1>3 DEF m, mm, n, nn
<1> HIDE DEF x, y
<1>12. FoldCase(Encode(x)) = FoldCase(Encode(y)) /\ Encode(x) \in Seq(Byte) /\ Encode(y) \in Seq(Byte)
  BY <1>10, EncodeFolds, Encoded
<1>13. Extension \in Seq(Byte)
  BY NameForm
<1>14. FoldCase(Encode(x) \o Extension) = FoldCase(Encode(y) \o Extension)
  BY <1>12, <1>13, FoldJoin
<1> QED BY <1>11, <1>14 DEF ReserveKey, EncodedName

\* A name has no slash and no NUL.
LEMMA NamesPublishable == ASSUME NEW id \in Identity, Named(id) PROVE PublishableName(EncodedName(id))
<1> DEFINE s == EncodedName(id)
<1>1. s \in Seq(Plain) /\ Len(s) = Len(Encode(Labelled(id))) + 4 /\ Labelled(id) \in Seq(Byte)
  BY NameForm
<1>2. Len(s) # 0
  <2>1. Len(Encode(Labelled(id))) \in Nat
    BY <1>1, Wide
  <2> QED BY <1>1, <2>1
<1>3. Len(s) <= ConservativeNameMax
  BY DEF Named
<1> HIDE DEF s
<1>4. \A i \in 1 .. Len(s) : s[i] \in Plain
  BY <1>1
<1>5. ~Contains(s, 47) /\ ~Contains(s, 0)
  BY <1>4, PlainFacts DEF Contains
<1>6. s # <<>>
  <2>1. Len(<<>>) = 0
    OBVIOUS
  <2> QED BY <1>2, <2>1
<1> QED BY <1>3, <1>5, <1>6 DEF PublishableName, s

-------------------------------------------------------------------------------
\* A recursive function on 0 .. n unfolds; decode_semantic_id undoes
\* semantic_id: a field byte by byte, and the fields at their separators.

\* A recursive function on 0 .. n, from the step it takes.
Unfolds(T, F, base, n, f) ==
  /\ f \in [0 .. n -> T] /\ f[0] = base
  /\ \A i \in 1 .. n : f[i] = F[<<i - 1, f[i - 1]>>]

\* A recursive function on 0 .. n exists.
LEMMA Unfolding ==
  ASSUME NEW T, NEW F, NEW base, NEW n \in Nat, F \in [Nat \X T -> T], base \in T
  PROVE  \E f : Unfolds(T, F, base, n, f)
<1>1. PICK g : Trajectory(T, F, base, g)
  BY Recursion
<1>2. g \in [Nat -> T] /\ g[0] = base /\ \A i \in Nat : g[i + 1] = F[<<i, g[i]>>]
  BY <1>1 DEF Trajectory
<1> DEFINE f == [i \in 0 .. n |-> g[i]]
<1>3. f \in [0 .. n -> T] /\ f[0] = base /\ \A i \in 0 .. n : f[i] = g[i]
  BY <1>2
<1> HIDE DEF f
<1>4. ASSUME NEW i \in 1 .. n PROVE f[i] = F[<<i - 1, f[i - 1]>>]
  <2>1. i \in 0 .. n /\ i - 1 \in 0 .. n /\ i - 1 \in Nat /\ (i - 1) + 1 = i
    OBVIOUS
  <2> QED BY <1>2, <1>3, <2>1
<1>5. Unfolds(T, F, base, n, f)
  BY <1>3, <1>4 DEF Unfolds
<1> QED BY <1>5

\* What is left behind a prefix.
LEMMA DropHead ==
  ASSUME NEW B, NEW s \in Seq(B), NEW t \in Seq(B)
  PROVE  SubSeq(s \o t, Len(s) + 1, Len(s \o t)) = t /\ IsPrefix(s, s \o t)
<1>1. /\ s \o t \in Seq(B) /\ Len(s) \in Nat /\ Len(t) \in Nat /\ Len(s \o t) = Len(s) + Len(t)
      /\ \A j \in 1 .. Len(s) : (s \o t)[j] = s[j]
      /\ \A j \in 1 .. Len(t) : (s \o t)[Len(s) + j] = t[j]
  BY Joined
<1> DEFINE x == s \o t
           n == Len(s)
           m == Len(t)
<1>2. SubSeq(x, n + 1, Len(x)) = t
  <2> DEFINE y == SubSeq(x, n + 1, Len(x))
  <2>1. y \in Seq(B) /\ Len(y) = m /\ \A j \in 1 .. m : y[j] = x[n + j]
    <3>1. x \in Seq(B) /\ n \in Nat /\ m \in Nat /\ Len(x) = n + m
      BY <1>1
    <3> HIDE DEF x, n, m
    <3> DEFINE k == n + 1
               l == n + m
    <3>2. k \in Int /\ l \in Int /\ (\A i \in k .. l : x[i] \in B) /\ l - k + 1 = m /\ (IF k <= l THEN l - k + 1 ELSE 0) = m
      BY <3>1
    <3>3. \A j \in 1 .. m : k + j - 1 = n + j
      BY <3>1
    <3>a. y = SubSeq(x, k, l)
      BY <3>1
    <3> HIDE DEF k, l, y
    <3>4. /\ SubSeq(x, k, l) \in Seq(B)
          /\ Len(SubSeq(x, k, l)) = IF k <= l THEN l - k + 1 ELSE 0
          /\ \A j \in 1 .. l - k + 1 : SubSeq(x, k, l)[j] = x[k + j - 1]
      BY <3>2, SubSeqProperties
    <3>5. \A j \in 1 .. m : y[j] = x[k + j - 1]
      BY <3>2, <3>4, <3>a
    <3> QED BY <3>2, <3>3, <3>4, <3>5, <3>a
  <2>2. y \in Seq(B) /\ t \in Seq(B) /\ Len(y) = Len(t) /\ \A j \in 1 .. Len(t) : y[j] = t[j]
    BY <1>1, <2>1
  <2> HIDE DEF y, x
  <2>3. y = t
    BY <2>2
  <2> QED BY <2>3 DEF y
<1>3. SubSeq(x, 1, n) = SubSeq(s, 1, n)
  <2>1. x \in Seq(B) /\ n \in Nat /\ n <= Len(x) /\ s \in Seq(B) /\ n = Len(s) /\ \A j \in 1 .. n : x[j] = s[j]
    BY <1>1
  <2> HIDE DEF x, n
  <2> QED BY <2>1
<1>4. IsPrefix(s, x)
  BY <1>1, <1>3 DEF IsPrefix
<1> QED BY <1>2, <1>4

DecodeState == [bytes : Seq(Int), esc : Seq(Int), ok : BOOLEAN]

\* Hex is a number, if only -1.
LEMMA HexIsInt == ASSUME NEW s \in Seq(Int), Len(s) >= 3 PROVE Hex(s, 2) \in Int
<1>1. s[2] \in Int /\ s[2 + 1] \in Int
  OBVIOUS
<1>2. \A b \in Int : HexValue(b) \in Int
  BY DEF HexValue, Digits
<1>3. HexValue(s[2]) \in Int /\ HexValue(s[2 + 1]) \in Int
  BY <1>1, <1>2
<1> QED BY <1>3 DEF Hex

\* The loop's state keeps its type.
LEMMA ReadByteType == ASSUME NEW d \in DecodeState, NEW b \in Int PROVE ReadByte(d, b) \in DecodeState
<1>1. d.bytes \in Seq(Int) /\ d.esc \in Seq(Int) /\ d.ok \in BOOLEAN
  BY DEF DecodeState
<1>2. CASE ~d.ok
  BY <1>2 DEF ReadByte
<1>3. CASE d.ok /\ d.esc # <<>>
  <2> DEFINE e == Append(d.esc, b)
  <2>1. e \in Seq(Int) /\ Len(e) \in Nat
    BY <1>1
  <2>2. CASE Len(e) < 3
    <3>1. ReadByte(d, b) = [bytes |-> d.bytes, esc |-> e, ok |-> d.ok]
      BY <1>3, <2>2 DEF ReadByte, DecodeByte
    <3> HIDE DEF e
    <3> QED BY <1>1, <2>1, <3>1 DEF DecodeState
  <2>3. CASE ~(Len(e) < 3)
    <3> DEFINE o == d.ok /\ Hex(e, 2) >= 0 /\ Hex(e, 2) \notin Unreserved
               r == Append(d.bytes, Hex(e, 2))
    <3>1. ReadByte(d, b) = [bytes |-> r, esc |-> <<>>, ok |-> o]
      BY <1>3, <2>3 DEF ReadByte, DecodeByte
    <3>2. Hex(e, 2) \in Int
      <4>1. Len(e) >= 3
        BY <2>1, <2>3
      <4> HIDE DEF e
      <4> QED BY <2>1, <4>1, HexIsInt
    <3>3. r \in Seq(Int) /\ o \in BOOLEAN
      BY <1>1, <3>2
    <3> HIDE DEF r, o
    <3> QED BY <3>1, <3>3 DEF DecodeState
  <2> QED BY <2>2, <2>3
<1>4. CASE d.ok /\ d.esc = <<>> /\ b = Percent
  <2>1. ReadByte(d, b) = [bytes |-> d.bytes, esc |-> <<b>>, ok |-> d.ok]
    BY <1>4 DEF ReadByte, DecodeByte
  <2>2. <<b>> \in Seq(Int)
    OBVIOUS
  <2> DEFINE e == <<b>>
  <2>3. e \in Seq(Int) /\ ReadByte(d, b) = [bytes |-> d.bytes, esc |-> e, ok |-> d.ok]
    BY <2>1, <2>2
  <2> HIDE DEF e
  <2> QED BY <1>1, <2>3 DEF DecodeState
<1>5. CASE d.ok /\ d.esc = <<>> /\ b # Percent
  <2> DEFINE o == d.ok /\ b \in Unreserved
             r == Append(d.bytes, b)
  <2>1. ReadByte(d, b) = [bytes |-> r, esc |-> <<>>, ok |-> o]
    BY <1>5 DEF ReadByte, DecodeByte
  <2>2. r \in Seq(Int) /\ o \in BOOLEAN
    BY <1>1
  <2> HIDE DEF r, o
  <2> QED BY <2>1, <2>2 DEF DecodeState
<1> QED BY <1>2, <1>3, <1>4, <1>5

\* decode_semantic_id's loop over a field, byte by byte.
Decodes(field, d) ==
  /\ DOMAIN d = 0 .. Len(field) /\ d[0] = Decoding
  /\ \A i \in 1 .. Len(field) : d[i] = ReadByte(d[i - 1], field[i])

\* DecodeField is where the loop over the field ends.
LEMMA DecodeRun ==
  ASSUME NEW field \in Seq(Byte)
  PROVE  \E d : /\ Decodes(field, d)
                /\ DecodeField(field) = [ok |-> field # <<>> /\ d[Len(field)].ok /\ d[Len(field)].esc = <<>> /\ Utf8(d[Len(field)].bytes),
                                         bytes |-> d[Len(field)].bytes]
<1> DEFINE T == DecodeState
           n == Len(field)
           F == [p \in Nat \X T |-> IF p[1] + 1 \in 1 .. n THEN ReadByte(p[2], field[p[1] + 1]) ELSE p[2]]
           Step(d) == [i \in 0 .. n |-> IF i = 0 THEN Decoding ELSE ReadByte(d[i - 1], field[i])]
<1>1. n \in Nat /\ n = Len(field) /\ \A i \in 1 .. n : field[i] \in Int
  <2>1. n \in Nat /\ n = Len(field) /\ \A i \in 1 .. n : field[i] \in Byte
    OBVIOUS
  <2>2. \A b \in Byte : b \in Int
    BY DEF Byte
  <2> HIDE DEF n
  <2> QED BY <2>1, <2>2
<1>2. Decoding \in T
  BY DEF Decoding, DecodeState
<1>3. F \in [Nat \X T -> T]
  <2>1. \A p \in Nat \X T : p[1] + 1 \in 1 .. n => ReadByte(p[2], field[p[1] + 1]) \in T
    BY <1>1, ReadByteType
  <2> HIDE DEF T
  <2> QED BY <2>1
<1>4. \A i \in 1 .. n : \A d \in T : F[<<i - 1, d>>] = ReadByte(d, field[i])
  <2> HIDE DEF T
  <2> SUFFICES ASSUME NEW i \in 1 .. n, NEW d \in T PROVE F[<<i - 1, d>>] = ReadByte(d, field[i])
    OBVIOUS
  <2>1. i - 1 \in Nat /\ (i - 1) + 1 = i
    BY <1>1
  <2> QED BY <2>1
<1> HIDE DEF n, F, T
<1>5. PICK w : Unfolds(T, F, Decoding, n, w)
  BY <1>1, <1>2, <1>3, Unfolding
<1>6. w \in [0 .. n -> T] /\ w[0] = Decoding /\ \A i \in 1 .. n : w[i] = ReadByte(w[i - 1], field[i])
  <2>1. w \in [0 .. n -> T] /\ w[0] = Decoding /\ \A i \in 1 .. n : w[i] = F[<<i - 1, w[i - 1]>>]
    BY <1>5 DEF Unfolds
  <2>2. \A i \in 1 .. n : i - 1 \in 0 .. n
    BY <1>1
  <2> QED BY <1>4, <2>1, <2>2
<1>7. w = Step(w)
  <2>1. \A i \in 0 .. n : i # 0 => i \in 1 .. n
    BY <1>1
  <2>2. \A i \in 0 .. n : w[i] = IF i = 0 THEN Decoding ELSE ReadByte(w[i - 1], field[i])
    BY <1>6, <2>1
  <2> QED BY <1>6, <2>2
<1> DEFINE d == CHOOSE d : d = Step(d)
<1>8. d = Step(d)
  <2> HIDE DEF Step
  <2> QED BY <1>7
<1>9. DecodeField(field) = [ok |-> field # <<>> /\ d[n].ok /\ d[n].esc = <<>> /\ Utf8(d[n].bytes), bytes |-> d[n].bytes]
  BY DEF DecodeField, n
<1> HIDE DEF d
<1>10. DOMAIN d = 0 .. n /\ \A i \in 0 .. n : d[i] = IF i = 0 THEN Decoding ELSE ReadByte(d[i - 1], field[i])
  BY <1>8
<1>11. Decodes(field, d)
  <2>1. 0 \in 0 .. n /\ \A i \in 1 .. n : i # 0 /\ i \in 0 .. n
    BY <1>1
  <2>2. d[0] = Decoding
    BY <1>10, <2>1
  <2>3. \A i \in 1 .. n : d[i] = ReadByte(d[i - 1], field[i])
    BY <1>10, <2>1
  <2> QED BY <1>1, <1>10, <2>2, <2>3 DEF Decodes
<1> QED BY <1>1, <1>9, <1>11

\* What the loop makes of one escape, after the bytes s.
At(s) == [bytes |-> s, esc |-> <<>>, ok |-> TRUE]

\* An unreserved byte stands for itself.
LEMMA ReadPlain == ASSUME NEW s \in Seq(Byte), NEW b \in Unreserved PROVE ReadByte(At(s), b) = At(Append(s, b))
<1>1. b # Percent
  BY PlainFacts
<1> QED BY <1>1 DEF ReadByte, DecodeByte, At

Escaping(s, e) == [bytes |-> s, esc |-> e, ok |-> TRUE]

\* Within an escape a byte is added, and the third one closes it.
LEMMA ReadOpen ==
  ASSUME NEW s, NEW e, NEW b, e # <<>>
  PROVE  /\ Len(Append(e, b)) < 3 => ReadByte(Escaping(s, e), b) = Escaping(s, Append(e, b))
         /\ ~(Len(Append(e, b)) < 3) /\ Hex(Append(e, b), 2) >= 0 /\ Hex(Append(e, b), 2) \notin Unreserved =>
              ReadByte(Escaping(s, e), b) = At(Append(s, Hex(Append(e, b), 2)))
<1> DEFINE d == Escaping(s, e)
           g == Append(e, b)
           r == Append(s, Hex(g, 2))
           o == Hex(g, 2) >= 0 /\ Hex(g, 2) \notin Unreserved
<1>1. d.ok = TRUE /\ d.esc = e /\ d.bytes = s
  BY DEF Escaping
<1> HIDE DEF d
<1>2. ReadByte(d, b) = DecodeByte(d, b)
  BY <1>1 DEF ReadByte
<1>3. DecodeByte(d, b) = IF Len(g) < 3 THEN [bytes |-> s, esc |-> g, ok |-> TRUE]
                         ELSE [bytes |-> r, esc |-> <<>>, ok |-> TRUE /\ Hex(g, 2) >= 0 /\ Hex(g, 2) \notin Unreserved]
  BY <1>1 DEF DecodeByte
<1> HIDE DEF g, r
<1>4. Len(g) < 3 => ReadByte(d, b) = Escaping(s, g)
  BY <1>2, <1>3 DEF Escaping
<1>5. ~(Len(g) < 3) /\ Hex(g, 2) >= 0 /\ Hex(g, 2) \notin Unreserved => ReadByte(d, b) = At(r)
  BY <1>2, <1>3 DEF At
<1> QED BY <1>4, <1>5 DEF d, g, r

\* Appending to a tuple gives a longer tuple.
LEMMA AppendTwo ==
  \A B : \A p, x \in B : Append(<<p>>, x) = <<p, x>>
<1> SUFFICES ASSUME NEW B, NEW p \in B, NEW x \in B PROVE Append(<<p>>, x) = <<p, x>>
  OBVIOUS
<1> DEFINE s == <<p>>
           t == <<p, x>>
           a == Append(s, x)
<1>1. s \in Seq(B) /\ Len(s) = 1 /\ s[1] = p
  OBVIOUS
<1>2. t \in Seq(B) /\ Len(t) = 2 /\ t[1] = p /\ t[2] = x
  OBVIOUS
<1> HIDE DEF s, t
<1>3. a \in Seq(B) /\ Len(a) = Len(s) + 1 /\ (\A i \in 1 .. Len(s) : a[i] = s[i]) /\ a[Len(s) + 1] = x
  <2>1. s \in Seq(B)
    BY <1>1
  <2>2. Append(s, x) \in Seq(B) /\ Len(Append(s, x)) = Len(s) + 1 /\ (\A i \in 1 .. Len(s) : Append(s, x)[i] = s[i]) /\ Append(s, x)[Len(s) + 1] = x
    BY ONLY <2>1, AppendHas
  <2> QED BY <2>2
<1>4. Len(a) = 2 /\ a[1] = p /\ a[2] = x
  BY <1>1, <1>3
<1> HIDE DEF a
<1>5. \A j \in 1 .. Len(t) : j = 1 \/ j = 2
  BY <1>2
<1>6. a = t
  BY <1>2, <1>3, <1>4, <1>5, SameSeq
<1> QED BY <1>6 DEF a, s, t

\* And once more.
LEMMA AppendThree ==
  \A B : \A p, x, y \in B : Append(<<p, x>>, y) = <<p, x, y>>
<1> SUFFICES ASSUME NEW B, NEW p \in B, NEW x \in B, NEW y \in B PROVE Append(<<p, x>>, y) = <<p, x, y>>
  OBVIOUS
<1> DEFINE s == <<p, x>>
           t == <<p, x, y>>
           a == Append(s, y)
<1>1. s \in Seq(B) /\ Len(s) = 2 /\ s[1] = p /\ s[2] = x
  OBVIOUS
<1>2. t \in Seq(B) /\ Len(t) = 3 /\ t[1] = p /\ t[2] = x /\ t[3] = y
  OBVIOUS
<1> HIDE DEF s, t
<1>3. a \in Seq(B) /\ Len(a) = Len(s) + 1 /\ (\A i \in 1 .. Len(s) : a[i] = s[i]) /\ a[Len(s) + 1] = y
  <2>1. s \in Seq(B)
    BY <1>1
  <2>2. Append(s, y) \in Seq(B) /\ Len(Append(s, y)) = Len(s) + 1 /\ (\A i \in 1 .. Len(s) : Append(s, y)[i] = s[i]) /\ Append(s, y)[Len(s) + 1] = y
    BY ONLY <2>1, AppendHas
  <2> QED BY <2>2
<1>4. Len(a) = 3 /\ a[1] = p /\ a[2] = x /\ a[3] = y
  BY <1>1, <1>3
<1> HIDE DEF a
<1>5. \A j \in 1 .. Len(t) : j = 1 \/ j = 2 \/ j = 3
  BY <1>2
<1>6. a = t
  BY <1>2, <1>3, <1>4, <1>5, SameSeq
<1> QED BY <1>6 DEF a, s, t

\* The bytes of an escape, as the loop collects them.
LEMMA Tuples ==
  \A p, x, y \in Int :
     /\ <<p>> # <<>> /\ <<p, x>> # <<>>
     /\ Append(<<p>>, x) = <<p, x>> /\ Append(<<p, x>>, y) = <<p, x, y>>
     /\ Len(<<p, x>>) = 2 /\ Len(<<p, x, y>>) = 3
<1> SUFFICES ASSUME NEW p \in Int, NEW x \in Int, NEW y \in Int
             PROVE  /\ <<p>> # <<>> /\ <<p, x>> # <<>>
                    /\ Append(<<p>>, x) = <<p, x>> /\ Append(<<p, x>>, y) = <<p, x, y>>
                    /\ Len(<<p, x>>) = 2 /\ Len(<<p, x, y>>) = 3
  OBVIOUS
<1>1. <<p>> # <<>> /\ <<p, x>> # <<>> /\ Len(<<p, x>>) = 2 /\ Len(<<p, x, y>>) = 3
  OBVIOUS
<1>2. Append(<<p>>, x) = <<p, x>>
  BY AppendTwo
<1>3. Append(<<p, x>>, y) = <<p, x, y>>
  BY AppendThree
<1> QED BY <1>1, <1>2, <1>3

\* The three bytes of an escape give the byte back.
LEMMA ReadEscape ==
  ASSUME NEW s \in Seq(Byte), NEW b \in Byte, b \notin Unreserved
  PROVE  ReadByte(ReadByte(ReadByte(At(s), Percent), HexDigit(b \div 16)), HexDigit(b % 16)) = At(Append(s, b))
<1> DEFINE x == HexDigit(b \div 16)
           y == HexDigit(b % 16)
           p == Percent
           one == <<p>>
           two == <<p, x>>
           three == <<p, x, y>>
<1>1. HexValue(x) = b \div 16 /\ HexValue(y) = b % 16 /\ b = 16 * (b \div 16) + (b % 16) /\ b \div 16 \in 0 .. 15 /\ b % 16 \in 0 .. 15
  BY HexDigitBack, Nibbles
<1>a. x \in Int /\ y \in Int /\ p \in Int
  <2>1. x \in HexDigits /\ y \in HexDigits
    BY HexDigitBack, Nibbles
  <2> HIDE DEF x, y
  <2> QED BY <2>1 DEF HexDigits, Digits, Percent
<1>2. ReadByte(At(s), p) = Escaping(s, one)
  BY DEF ReadByte, DecodeByte, At, Escaping
<1>b. x = HexDigit(b \div 16) /\ y = HexDigit(b % 16) /\ p = Percent
  OBVIOUS
<1> HIDE DEF x, y, p
<1>c. /\ one # <<>> /\ Append(one, x) = two /\ Len(two) = 2
      /\ two # <<>> /\ Append(two, y) = three /\ Len(three) = 3
  BY <1>a, Tuples
<1>d. three[2] = x /\ three[3] = y /\ 2 + 1 = 3
  OBVIOUS
<1> HIDE DEF one, two, three
<1>3. ReadByte(Escaping(s, one), x) = Escaping(s, two)
  <2>1. Len(Append(one, x)) < 3
    BY <1>c
  <2> QED BY <1>c, <2>1, ReadOpen
<1>4. Hex(three, 2) = b
  <2>1. HexValue(x) * 16 + HexValue(y) = b /\ HexValue(x) >= 0 /\ HexValue(y) >= 0
    BY <1>1
  <2> QED BY <1>d, <2>1 DEF Hex
<1>5. ReadByte(Escaping(s, two), y) = At(Append(s, b))
  <2>1. ~(Len(Append(two, y)) < 3)
    BY <1>c
  <2>2. b >= 0
    BY DEF Byte
  <2> QED BY <1>4, <1>c, <2>1, <2>2, ReadOpen
<1> QED BY <1>2, <1>3, <1>5, <1>b

\* The first i + 1 elements are the first i and one more.
LEMMA SubSeqGrows ==
  ASSUME NEW B, NEW x \in Seq(B), NEW i \in Nat, i + 1 <= Len(x)
  PROVE  SubSeq(x, 1, i + 1) = Append(SubSeq(x, 1, i), x[i + 1]) /\ SubSeq(x, 1, i) \in Seq(B)
<1> DEFINE k == i + 1
<1>1. 1 \in 1 .. Len(x) /\ k \in 1 .. Len(x) /\ k - 1 = i
  OBVIOUS
<1>2. SubSeq(x, 1, k) = SubSeq(x, 1, k - 1) \o <<x[k]>>
  <2>1. 1 \in 1 .. Len(x) /\ k \in 1 .. Len(x)
    BY <1>1
  <2> HIDE DEF k
  <2> QED BY <2>1, SubSeqRecursiveSecond
<1>3. SubSeq(x, 1, i) \in Seq(B)
  OBVIOUS
<1> DEFINE s == SubSeq(x, 1, i)
           e == x[k]
<1>4. s \o <<e>> = Append(s, e)
  <2>1. s \in Seq(B) /\ e \in B
    BY <1>1, <1>3
  <2> HIDE DEF s, e
  <2> QED BY <2>1
<1> QED BY <1>1, <1>2, <1>3, <1>4

\* Decoding undoes the encoding.
LEMMA DecodeBack ==
  ASSUME NEW x \in Seq(Byte), x # <<>>, Utf8(x)
  PROVE  DecodeField(Encode(x)) = [ok |-> TRUE, bytes |-> x]
<1> DEFINE n == Len(x)
           P == Pieces(x)
           f == Encode(x)
<1>1. f \in Seq(Byte)
  BY Encoded
<1>2. PICK at : Lays(P, f, at)
  BY Encoded
<1>3. Len(P) = n /\ \A i \in 1 .. n : x[i] \in Byte /\ P[i] = Escape(x[i])
  BY PiecesType
<1>4. n \in Nat /\ n = Len(x)
  OBVIOUS
<1>a. Len(f) # 0 /\ f # <<>>
  <2>1. n # 0
    BY <1>4
  <2>2. Len(f) \in Nat /\ n <= Len(f)
    BY Wide
  <2>3. Len(f) # 0
    BY <1>4, <2>1, <2>2
  <2>4. Len(<<>>) = 0
    OBVIOUS
  <2> HIDE DEF f
  <2> QED BY <2>3, <2>4
<1>b. f = Encode(x)
  OBVIOUS
<1> HIDE DEF n, P, f
<1>5. PICK d : /\ Decodes(f, d)
               /\ DecodeField(f) = [ok |-> f # <<>> /\ d[Len(f)].ok /\ d[Len(f)].esc = <<>> /\ Utf8(d[Len(f)].bytes),
                                    bytes |-> d[Len(f)].bytes]
  BY <1>1, DecodeRun
<1>6. /\ at \in [1 .. n + 1 -> Nat] /\ at[1] = 0 /\ at[n + 1] = Len(f)
      /\ \A i \in 1 .. n : at[i + 1] = at[i] + Len(P[i])
      /\ \A i, k \in 1 .. n + 1 : i <= k => at[i] <= at[k]
      /\ \A i \in 1 .. n : \A j \in 1 .. Len(P[i]) : f[at[i] + j] = P[i][j]
  BY <1>2, <1>3 DEF Lays
<1>7. d[0] = Decoding /\ \A i \in 1 .. Len(f) : d[i] = ReadByte(d[i - 1], f[i])
  BY <1>5 DEF Decodes
<1> DEFINE S == {i \in Nat : i <= n => d[at[i + 1]] = At(SubSeq(x, 1, i))}
<1>8. 0 \in S
  <2>1. SubSeq(x, 1, 0) = <<>>
    BY SubSeqEmpty
  <2>2. d[at[0 + 1]] = At(<<>>)
    BY <1>6, <1>7 DEF Decoding, At
  <2>3. d[at[0 + 1]] = At(SubSeq(x, 1, 0))
    BY <2>1, <2>2
  <2> QED BY <2>3
<1>9. ASSUME NEW i \in Nat, i \in S PROVE i + 1 \in S
  <2> DEFINE c == i + 1
             s == SubSeq(x, 1, i)
             k == at[c]
             b == x[c]
  <2> SUFFICES ASSUME c <= n PROVE d[at[c + 1]] = At(SubSeq(x, 1, c))
    OBVIOUS
  <2>1. c \in 1 .. n /\ i <= n /\ c \in 1 .. n + 1 /\ c + 1 \in 1 .. n + 1 /\ n + 1 \in 1 .. n + 1 /\ c + 1 <= n + 1
    BY <1>4
  <2>2. d[k] = At(s)
    BY <1>9, <2>1
  <2>3. s \in Seq(Byte) /\ SubSeq(x, 1, c) = Append(s, b)
    BY <1>4, SubSeqGrows
  <2> HIDE DEF c
  <2>4. b \in Byte /\ P[c] = Escape(b)
    BY <1>3, <2>1
  <2>5. k \in Nat /\ at[c + 1] = k + Len(Escape(b)) /\ at[c + 1] \in Nat /\ at[c + 1] <= Len(f) /\ Len(f) \in Nat
    BY <1>6, <2>1, <2>4
  <2>6. \A j \in 1 .. Len(Escape(b)) : f[k + j] = Escape(b)[j]
    BY <1>6, <2>1, <2>4
  <2> HIDE DEF k, b, s
  <2>7. CASE b \in Unreserved
    <3>1. Len(Escape(b)) = 1 /\ Escape(b)[1] = b
      BY <2>4, <2>7, EscapeForms
    <3>2. k + 1 \in 1 .. Len(f) /\ (k + 1) - 1 = k /\ f[k + 1] = b
      BY <2>5, <2>6, <3>1
    <3>3. d[k + 1] = ReadByte(At(s), b)
      BY <1>7, <2>2, <3>2
    <3>4. d[k + 1] = At(Append(s, b))
      BY <2>3, <2>7, <3>3, ReadPlain
    <3> QED BY <2>3, <2>5, <3>1, <3>4
  <2>8. CASE b \notin Unreserved
    <3>1. /\ Len(Escape(b)) = 3 /\ Escape(b)[1] = Percent
          /\ Escape(b)[2] = HexDigit(b \div 16) /\ Escape(b)[3] = HexDigit(b % 16)
      BY <2>4, <2>8, EscapeForms
    <3>2. /\ k + 1 \in 1 .. Len(f) /\ (k + 1) - 1 = k /\ f[k + 1] = Percent
          /\ k + 2 \in 1 .. Len(f) /\ (k + 2) - 1 = k + 1 /\ f[k + 2] = HexDigit(b \div 16)
          /\ k + 3 \in 1 .. Len(f) /\ (k + 3) - 1 = k + 2 /\ f[k + 3] = HexDigit(b % 16)
      BY <2>5, <2>6, <3>1
    <3>3. d[k + 1] = ReadByte(At(s), Percent)
      BY <1>7, <2>2, <3>2
    <3>4. d[k + 2] = ReadByte(d[k + 1], HexDigit(b \div 16))
      BY <1>7, <3>2
    <3>5. d[k + 3] = ReadByte(d[k + 2], HexDigit(b % 16))
      BY <1>7, <3>2
    <3>6. d[k + 3] = At(Append(s, b))
      BY <2>3, <2>4, <2>8, <3>3, <3>4, <3>5, ReadEscape
    <3> QED BY <2>3, <2>5, <3>1, <3>6
  <2> QED BY <2>7, <2>8
<1>10. n \in S
  <2>1. Nat \subseteq S
    <3> HIDE DEF S
    <3> QED BY <1>8, <1>9, Induction
  <2> QED BY <1>4, <2>1
<1>11. d[Len(f)] = At(x)
  <2>1. SubSeq(x, 1, n) = x
    BY <1>4, SubSeqFull
  <2>2. d[at[n + 1]] = At(SubSeq(x, 1, n))
    BY <1>4, <1>10
  <2> QED BY <1>6, <2>1, <2>2
<1>12. d[Len(f)].ok = TRUE /\ d[Len(f)].esc = <<>> /\ d[Len(f)].bytes = x
  BY <1>11 DEF At
<1> QED BY <1>5, <1>12, <1>a, <1>b

\* A byte that is not the separator goes to the last part.
LEMMA SplitOpen ==
  ASSUME NEW P \in Seq(Seq(Byte)), NEW x \in Seq(Byte), NEW b \in Byte, NEW sep, b # sep
  PROVE  SplitByte(Append(P, x), sep, b) = Append(P, Append(x, b))
<1> DEFINE T == Seq(Byte)
           q == Append(P, x)
           y == Append(x, b)
           n == Len(P)
           r == [q EXCEPT ![Len(q)] = Append(@, b)]
<1>1. y \in T /\ x \in T
  OBVIOUS
<1>2. r = SplitByte(q, sep, b)
  BY DEF SplitByte
<1>3. q \in Seq(T) /\ Len(q) = n + 1 /\ (\A i \in 1 .. n : q[i] = P[i]) /\ q[n + 1] = x /\ n \in Nat
  BY AppendHas
<1>4. /\ Append(P, y) \in Seq(T) /\ Len(Append(P, y)) = n + 1 /\ (\A i \in 1 .. n : Append(P, y)[i] = P[i])
      /\ Append(P, y)[n + 1] = y
  BY <1>1, AppendHas
<1>5. r = [q EXCEPT ![n + 1] = y]
  BY <1>3
<1> HIDE DEF T, q, y, r, n
<1>6. r \in Seq(T) /\ Len(r) = n + 1 /\ (\A i \in 1 .. n : r[i] = P[i]) /\ r[n + 1] = y
  <2> DEFINE m == n + 1
  <2>1. m \in 1 .. Len(q) /\ Len(q) = m /\ \A i \in 1 .. n : i \in 1 .. Len(q) /\ i # m
    BY <1>3
  <2>2. r = [q EXCEPT ![m] = y]
    BY <1>5
  <2>3. q[m] = x /\ \A i \in 1 .. n : q[i] = P[i]
    BY <1>3
  <2> HIDE DEF m
  <2>4. q \in Seq(T) /\ y \in T
    BY <1>1, <1>3
  <2>5. r \in Seq(T) /\ Len(r) = Len(q) /\ r[m] = y /\ \A i \in 1 .. Len(q) : i # m => r[i] = q[i]
    BY <2>1, <2>2, <2>4
  <2> QED BY <2>1, <2>3, <2>5 DEF m
<1> DEFINE z == Append(P, y)
<1>7. z \in Seq(T) /\ Len(z) = n + 1 /\ (\A i \in 1 .. n : z[i] = P[i]) /\ z[n + 1] = y
  BY <1>4
<1> HIDE DEF z
<1>8. \A i \in 1 .. Len(z) : r[i] = z[i]
  <2>1. \A i \in 1 .. Len(z) : i = n + 1 \/ i \in 1 .. n
    BY <1>3, <1>7
  <2> QED BY <1>6, <1>7, <2>1
<1>9. r = z
  BY <1>6, <1>7, <1>8, SameSeq
<1> QED BY <1>2, <1>9 DEF q, y, z

\* The separator begins a new part.
LEMMA SplitShut ==
  ASSUME NEW q, NEW sep
  PROVE  SplitByte(q, sep, sep) = Append(q, <<>>)
BY DEF SplitByte

\* value.split(';'), byte by byte.
Splits(s, sep, d) ==
  /\ d[0] = << <<>> >>
  /\ \A i \in 1 .. Len(s) : d[i] = SplitByte(d[i - 1], sep, s[i])

\* There is always a last part.
LEMMA SplitByteType ==
  ASSUME NEW q \in Seq(Seq(Byte)) \ {<<>>}, NEW sep, NEW b \in Byte
  PROVE  SplitByte(q, sep, b) \in Seq(Seq(Byte)) \ {<<>>}
<1> DEFINE T == Seq(Byte)
<1>1. CASE b = sep
  <2>1. <<>> \in T
    OBVIOUS
  <2> HIDE DEF T
  <2>2. q \in Seq(T)
    BY DEF T
  <2>3. Append(q, <<>>) \in Seq(T) /\ Append(q, <<>>) # <<>>
    BY <2>1, <2>2, AppendProperties
  <2> QED BY <1>1, <2>3 DEF SplitByte, T
<1>2. CASE b # sep
  <2> DEFINE n == Len(q)
             y == Append(q[n], b)
             r == [q EXCEPT ![n] = y]
  <2>1. n \in 1 .. Len(q) /\ Len(q) \in Nat
    OBVIOUS
  <2>2. q[n] \in T
    BY <2>1
  <2>3. y \in T
    BY <2>2
  <2>4. SplitByte(q, sep, b) = r
    BY <1>2 DEF SplitByte
  <2> HIDE DEF n, y, T
  <2>5. q \in Seq(T)
    BY DEF T
  <2>6. r \in Seq(T) /\ Len(r) = Len(q)
    BY <2>1, <2>3, <2>5
  <2>7. r # <<>>
    <3> HIDE DEF r
    <3>1. Len(<<>>) = 0
      OBVIOUS
    <3> QED BY <2>1, <2>6, <3>1
  <2> QED BY <2>4, <2>6, <2>7 DEF T
<1> QED BY <1>1, <1>2

\* SplitAt is where the loop over the value ends.
LEMMA SplitRun ==
  ASSUME NEW s \in Seq(Byte), NEW sep
  PROVE  \E d : Splits(s, sep, d) /\ SplitAt(s, sep) = d[Len(s)]
<1> DEFINE T == Seq(Seq(Byte)) \ {<<>>}
           n == Len(s)
           base == << <<>> >>
           F == [p \in Nat \X T |-> IF p[1] + 1 \in 1 .. n THEN SplitByte(p[2], sep, s[p[1] + 1]) ELSE p[2]]
           Step(d) == [i \in 0 .. n |-> IF i = 0 THEN base ELSE SplitByte(d[i - 1], sep, s[i])]
<1>1. n \in Nat /\ n = Len(s) /\ \A i \in 1 .. n : s[i] \in Byte
  OBVIOUS
<1>2. base \in T
  <2>1. <<>> \in Seq(Byte)
    OBVIOUS
  <2> DEFINE B == Seq(Byte)
  <2>2. <<>> \in B
    BY <2>1
  <2> HIDE DEF B
  <2>3. << <<>> >> \in Seq(B) /\ << <<>> >> # <<>>
    BY <2>2
  <2> QED BY <2>3 DEF B
<1>3. F \in [Nat \X T -> T]
  <2>1. \A p \in Nat \X T : p[1] + 1 \in 1 .. n => SplitByte(p[2], sep, s[p[1] + 1]) \in T
    BY <1>1, SplitByteType
  <2> HIDE DEF T
  <2> QED BY <2>1
<1>4. \A i \in 1 .. n : \A d \in T : F[<<i - 1, d>>] = SplitByte(d, sep, s[i])
  <2> HIDE DEF T
  <2> SUFFICES ASSUME NEW i \in 1 .. n, NEW d \in T PROVE F[<<i - 1, d>>] = SplitByte(d, sep, s[i])
    OBVIOUS
  <2>1. i - 1 \in Nat /\ (i - 1) + 1 = i
    BY <1>1
  <2> QED BY <2>1
<1>b. base = << <<>> >>
  OBVIOUS
<1> HIDE DEF n, F, T, base
<1>5. PICK w : Unfolds(T, F, base, n, w)
  BY <1>1, <1>2, <1>3, Unfolding
<1>6. w \in [0 .. n -> T] /\ w[0] = base /\ \A i \in 1 .. n : w[i] = SplitByte(w[i - 1], sep, s[i])
  <2>1. w \in [0 .. n -> T] /\ w[0] = base /\ \A i \in 1 .. n : w[i] = F[<<i - 1, w[i - 1]>>]
    BY <1>5 DEF Unfolds
  <2>2. \A i \in 1 .. n : i - 1 \in 0 .. n
    BY <1>1
  <2> QED BY <1>4, <2>1, <2>2
<1>7. w = Step(w)
  <2>1. \A i \in 0 .. n : i # 0 => i \in 1 .. n
    BY <1>1
  <2>2. \A i \in 0 .. n : w[i] = IF i = 0 THEN base ELSE SplitByte(w[i - 1], sep, s[i])
    BY <1>6, <2>1
  <2> QED BY <1>6, <2>2
<1> DEFINE d == CHOOSE d : d = Step(d)
<1>8. d = Step(d)
  <2> HIDE DEF Step
  <2> QED BY <1>7
<1>9. SplitAt(s, sep) = d[n]
  BY DEF SplitAt, n, base
<1> HIDE DEF d
<1>10. \A i \in 0 .. n : d[i] = IF i = 0 THEN base ELSE SplitByte(d[i - 1], sep, s[i])
  BY <1>8
<1>11. Splits(s, sep, d)
  <2>1. 0 \in 0 .. n /\ \A i \in 1 .. n : i # 0 /\ i \in 0 .. n
    BY <1>1
  <2>2. d[0] = base
    BY <1>10, <2>1
  <2>3. \A i \in 1 .. n : d[i] = SplitByte(d[i - 1], sep, s[i])
    BY <1>10, <2>1
  <2> QED BY <1>1, <1>b, <2>2, <2>3 DEF Splits
<1> QED BY <1>1, <1>9, <1>11

PieceAt(s, k, x, sep) == k + Len(x) <= Len(s) /\ \A j \in 1 .. Len(x) : s[k + j] = x[j] /\ x[j] # sep

\* A stretch without the separator is added to the last part.
LEMMA SplitPiece ==
  ASSUME NEW s \in Seq(Byte), NEW sep, NEW d, Splits(s, sep, d), NEW P \in Seq(Seq(Byte)), NEW x \in Seq(Byte), NEW k \in Nat,
         PieceAt(s, k, x, sep), d[k] = Append(P, <<>>)
  PROVE  d[k + Len(x)] = Append(P, x)
<1> DEFINE n == Len(x)
           S == {i \in Nat : i <= n => d[k + i] = Append(P, SubSeq(x, 1, i))}
<1>0. n \in Nat /\ n = Len(x) /\ k + n <= Len(s) /\ \A j \in 1 .. n : s[k + j] = x[j] /\ x[j] # sep /\ x[j] \in Byte
  BY DEF PieceAt
<1> HIDE DEF n
<1>1. 0 \in S
  <2>1. SubSeq(x, 1, 0) = <<>> /\ k + 0 = k
    BY SubSeqEmpty
  <2> QED BY <2>1
<1>2. ASSUME NEW i \in Nat, i \in S PROVE i + 1 \in S
  <2> DEFINE c == i + 1
             t == SubSeq(x, 1, i)
             b == x[c]
  <2> SUFFICES ASSUME c <= n PROVE d[k + c] = Append(P, SubSeq(x, 1, c))
    OBVIOUS
  <2>1. c \in 1 .. n /\ i <= n /\ k + c \in 1 .. Len(s) /\ (k + c) - 1 = k + i
    BY <1>0
  <2>2. d[k + i] = Append(P, t)
    BY <1>2, <2>1
  <2>3. t \in Seq(Byte) /\ SubSeq(x, 1, c) = Append(t, b)
    BY <1>0, SubSeqGrows
  <2>4. s[k + c] = b /\ b # sep /\ b \in Byte
    BY <1>0, <2>1
  <2> HIDE DEF c, t, b
  <2>5. d[k + c] = SplitByte(Append(P, t), sep, b)
    BY <2>1, <2>2, <2>4 DEF Splits
  <2>6. d[k + c] = Append(P, Append(t, b))
    BY <2>3, <2>4, <2>5, SplitOpen
  <2> QED BY <2>3, <2>6
<1>3. n \in S
  <2>1. Nat \subseteq S
    <3> HIDE DEF S
    <3> QED BY <1>1, <1>2, Induction
  <2> QED BY <1>0, <2>1
<1>4. d[k + n] = Append(P, SubSeq(x, 1, n))
  BY <1>0, <1>3
<1>5. SubSeq(x, 1, n) = x
  BY <1>0, SubSeqFull
<1> QED BY <1>0, <1>4, <1>5

\* Three texts, each without the separator, and the separator between them.
Parted(s, sep, x, y, z) ==
  /\ Len(s) = Len(x) + 1 + Len(y) + 1 + Len(z)
  /\ \A j \in 1 .. Len(x) : s[j] = x[j] /\ x[j] # sep
  /\ s[Len(x) + 1] = sep
  /\ \A j \in 1 .. Len(y) : s[Len(x) + 1 + j] = y[j] /\ y[j] # sep
  /\ s[Len(x) + 1 + Len(y) + 1] = sep
  /\ \A j \in 1 .. Len(z) : s[Len(x) + 1 + Len(y) + 1 + j] = z[j] /\ z[j] # sep

SepFree(x, sep) == \A j \in 1 .. Len(x) : x[j] # sep

\* Three texts put together are parted so.
LEMMA PartedForm ==
  ASSUME NEW sep \in Byte, NEW x \in Seq(Byte), NEW y \in Seq(Byte), NEW z \in Seq(Byte),
         SepFree(x, sep), SepFree(y, sep), SepFree(z, sep)
  PROVE  LET s == x \o <<sep>> \o y \o <<sep>> \o z
         IN s \in Seq(Byte) /\ Parted(s, sep, x, y, z)
<1> DEFINE e == <<sep>>
           a == x \o e
           b == a \o y
           c == b \o e
           s == c \o z
<1>1. e \in Seq(Byte) /\ Len(e) = 1 /\ e[1] = sep
  OBVIOUS
<1> HIDE DEF e
<1>2. a \in Seq(Byte) /\ Len(a) = Len(x) + 1 /\ (\A j \in 1 .. Len(x) : a[j] = x[j]) /\ a[Len(x) + 1] = sep /\ Len(x) \in Nat
  <2>1. x \in Seq(Byte) /\ e \in Seq(Byte)
    BY <1>1
  <2>2. /\ x \o e \in Seq(Byte) /\ Len(x) \in Nat /\ Len(e) \in Nat /\ Len(x \o e) = Len(x) + Len(e)
        /\ (\A j \in 1 .. Len(x) : (x \o e)[j] = x[j]) /\ (\A j \in 1 .. Len(e) : (x \o e)[Len(x) + j] = e[j])
    BY ONLY <2>1, Joined
  <2> QED BY <1>1, <2>2
<1> HIDE DEF a
<1>3. b \in Seq(Byte) /\ Len(b) = Len(a) + Len(y) /\ (\A j \in 1 .. Len(a) : b[j] = a[j]) /\ (\A j \in 1 .. Len(y) : b[Len(a) + j] = y[j]) /\ Len(y) \in Nat
  <2>1. a \in Seq(Byte) /\ y \in Seq(Byte)
    BY <1>2
  <2>2. /\ a \o y \in Seq(Byte) /\ Len(a) \in Nat /\ Len(y) \in Nat /\ Len(a \o y) = Len(a) + Len(y)
        /\ (\A j \in 1 .. Len(a) : (a \o y)[j] = a[j]) /\ (\A j \in 1 .. Len(y) : (a \o y)[Len(a) + j] = y[j])
    BY ONLY <2>1, Joined
  <2> QED BY <2>2
<1> HIDE DEF b
<1>4. c \in Seq(Byte) /\ Len(c) = Len(b) + 1 /\ (\A j \in 1 .. Len(b) : c[j] = b[j]) /\ c[Len(b) + 1] = sep
  <2>1. b \in Seq(Byte) /\ e \in Seq(Byte)
    BY <1>1, <1>3
  <2>2. /\ b \o e \in Seq(Byte) /\ Len(b) \in Nat /\ Len(e) \in Nat /\ Len(b \o e) = Len(b) + Len(e)
        /\ (\A j \in 1 .. Len(b) : (b \o e)[j] = b[j]) /\ (\A j \in 1 .. Len(e) : (b \o e)[Len(b) + j] = e[j])
    BY ONLY <2>1, Joined
  <2> QED BY <1>1, <2>2
<1> HIDE DEF c
<1>5. s \in Seq(Byte) /\ Len(s) = Len(c) + Len(z) /\ (\A j \in 1 .. Len(c) : s[j] = c[j]) /\ (\A j \in 1 .. Len(z) : s[Len(c) + j] = z[j]) /\ Len(z) \in Nat
  <2>1. c \in Seq(Byte) /\ z \in Seq(Byte)
    BY <1>4
  <2>2. /\ c \o z \in Seq(Byte) /\ Len(c) \in Nat /\ Len(z) \in Nat /\ Len(c \o z) = Len(c) + Len(z)
        /\ (\A j \in 1 .. Len(c) : (c \o z)[j] = c[j]) /\ (\A j \in 1 .. Len(z) : (c \o z)[Len(c) + j] = z[j])
    BY ONLY <2>1, Joined
  <2> QED BY <2>2
<1> HIDE DEF s
<1> DEFINE l == Len(x)
           m == Len(y)
           n == Len(z)
<1>6. l \in Nat /\ m \in Nat /\ n \in Nat /\ Len(a) = l + 1 /\ Len(b) = l + 1 + m /\ Len(c) = l + 1 + m + 1 /\ Len(s) = l + 1 + m + 1 + n
  BY <1>2, <1>3, <1>4, <1>5
<1>7. /\ \A j \in 1 .. l : s[j] = x[j] /\ x[j] # sep
      /\ \A j \in 1 .. m : y[j] # sep
      /\ \A j \in 1 .. n : z[j] # sep
  <2>1. \A j \in 1 .. l : j \in 1 .. Len(a) /\ j \in 1 .. Len(b) /\ j \in 1 .. Len(c)
    BY <1>6
  <2> QED BY <1>2, <1>3, <1>4, <1>5, <2>1 DEF SepFree
<1>8. s[l + 1] = sep
  <2>1. l + 1 \in 1 .. Len(a) /\ l + 1 \in 1 .. Len(b) /\ l + 1 \in 1 .. Len(c)
    BY <1>6
  <2> QED BY <1>2, <1>3, <1>4, <1>5, <2>1
<1>9. \A j \in 1 .. m : s[l + 1 + j] = y[j]
  <2>1. \A j \in 1 .. m : l + 1 + j \in 1 .. Len(b) /\ l + 1 + j \in 1 .. Len(c) /\ Len(a) + j = l + 1 + j
    BY <1>6
  <2> QED BY <1>3, <1>4, <1>5, <2>1
<1>10. s[l + 1 + m + 1] = sep
  <2>1. l + 1 + m + 1 \in 1 .. Len(c) /\ Len(b) + 1 = l + 1 + m + 1
    BY <1>6
  <2> QED BY <1>4, <1>5, <2>1
<1>11. \A j \in 1 .. n : s[l + 1 + m + 1 + j] = z[j]
  BY <1>5, <1>6
<1>12. Parted(s, sep, x, y, z)
  BY <1>6, <1>7, <1>8, <1>9, <1>10, <1>11 DEF Parted
<1> QED BY <1>5, <1>12 DEF s, c, b, a, e

\* Splitting gives the three texts back.
LEMMA SplitThree ==
  ASSUME NEW sep \in Byte, NEW s \in Seq(Byte), NEW x \in Seq(Byte), NEW y \in Seq(Byte), NEW z \in Seq(Byte),
         Parted(s, sep, x, y, z)
  PROVE  /\ SplitAt(s, sep) \in Seq(Seq(Byte)) /\ Len(SplitAt(s, sep)) = 3
         /\ SplitAt(s, sep)[1] = x /\ SplitAt(s, sep)[2] = y /\ SplitAt(s, sep)[3] = z
<1> DEFINE l == Len(x)
           m == Len(y)
           n == Len(z)
           k == l + 1
           h == k + m + 1
           T == Seq(Byte)
           none == <<>>
           one == Append(none, x)
           two == Append(one, y)
           all == Append(two, z)
<1>1. PICK d : Splits(s, sep, d) /\ SplitAt(s, sep) = d[Len(s)]
  BY SplitRun
<1>2. l \in Nat /\ m \in Nat /\ n \in Nat /\ k \in Nat /\ h \in Nat /\ Len(s) \in Nat /\ Len(s) = h + n /\ k = l + 1 /\ h = k + m + 1
  BY DEF Parted
<1>3. /\ \A j \in 1 .. l : s[0 + j] = x[j] /\ x[j] # sep
      /\ s[k] = sep /\ s[h] = sep
      /\ \A j \in 1 .. m : s[k + j] = y[j] /\ y[j] # sep
      /\ \A j \in 1 .. n : s[h + j] = z[j] /\ z[j] # sep
  BY DEF Parted
<1>a. l = Len(x) /\ m = Len(y) /\ n = Len(z)
  OBVIOUS
<1>4. none \in Seq(T) /\ none \in T
  OBVIOUS
<1>b. x \in T /\ y \in T /\ z \in T
  OBVIOUS
<1>c. none = <<>>
  OBVIOUS
<1>5. Append(none, none) = << <<>> >>
  BY <1>c
<1> HIDE DEF T, none, k, h, l, m, n
<1>6. one \in Seq(T) /\ Len(one) = 1 /\ one[1] = x
  <2>1. Len(none) = 0
    BY <1>c
  <2>2. one \in Seq(T) /\ Len(one) = Len(none) + 1 /\ one[Len(none) + 1] = x
    <3>1. none \in Seq(T) /\ x \in T
      BY <1>4, <1>b
    <3>2. /\ Append(none, x) \in Seq(T) /\ Len(Append(none, x)) = Len(none) + 1
          /\ (\A i \in 1 .. Len(none) : Append(none, x)[i] = none[i]) /\ Append(none, x)[Len(none) + 1] = x
      BY ONLY <3>1, AppendHas
    <3> QED BY <3>2
  <2> HIDE DEF one
  <2> QED BY <2>1, <2>2
<1> HIDE DEF one
<1>7. two \in Seq(T) /\ Len(two) = 2 /\ two[1] = x /\ two[2] = y
  <2>2. two \in Seq(T) /\ Len(two) = Len(one) + 1 /\ (\A i \in 1 .. Len(one) : two[i] = one[i]) /\ two[Len(one) + 1] = y
    <3>1. one \in Seq(T) /\ y \in T
      BY <1>6, <1>b
    <3>2. /\ Append(one, y) \in Seq(T) /\ Len(Append(one, y)) = Len(one) + 1
          /\ (\A i \in 1 .. Len(one) : Append(one, y)[i] = one[i]) /\ Append(one, y)[Len(one) + 1] = y
      BY ONLY <3>1, AppendHas
    <3> QED BY <3>2
  <2> HIDE DEF two
  <2> QED BY <1>6, <2>2
<1> HIDE DEF two
<1>8. all \in Seq(T) /\ Len(all) = 3 /\ all[1] = x /\ all[2] = y /\ all[3] = z
  <2>2. all \in Seq(T) /\ Len(all) = Len(two) + 1 /\ (\A i \in 1 .. Len(two) : all[i] = two[i]) /\ all[Len(two) + 1] = z
    <3>1. two \in Seq(T) /\ z \in T
      BY <1>7, <1>b
    <3>2. /\ Append(two, z) \in Seq(T) /\ Len(Append(two, z)) = Len(two) + 1
          /\ (\A i \in 1 .. Len(two) : Append(two, z)[i] = two[i]) /\ Append(two, z)[Len(two) + 1] = z
      BY ONLY <3>1, AppendHas
    <3> QED BY <3>2
  <2> HIDE DEF all
  <2> QED BY <1>7, <2>2
<1>9. d[l] = one
  <2>1. d[0] = Append(none, <<>>)
    BY <1>1, <1>5, <1>c DEF Splits
  <2>2. 0 + Len(x) = l /\ PieceAt(s, 0, x, sep)
    BY <1>2, <1>3, <1>a DEF PieceAt
  <2>3. d[0 + Len(x)] = Append(none, x)
    <3>1. none \in Seq(Seq(Byte)) /\ 0 \in Nat /\ Splits(s, sep, d) /\ d[0] = Append(none, <<>>)
      BY <1>1, <1>2, <1>4, <2>1 DEF T
    <3> QED BY <2>2, <3>1, SplitPiece
  <2> QED BY <2>2, <2>3 DEF one
<1>10. d[k] = Append(one, <<>>)
  <2>1. k \in 1 .. Len(s) /\ k - 1 = l
    BY <1>2
  <2>2. d[k] = SplitByte(d[k - 1], sep, s[k])
    BY <1>1, <2>1 DEF Splits
  <2> QED BY <1>3, <1>9, <2>1, <2>2, SplitShut
<1>11. d[k + m] = two
  <2>2. k + Len(y) = k + m /\ PieceAt(s, k, y, sep)
    BY <1>2, <1>3, <1>a DEF PieceAt
  <2>3. d[k + Len(y)] = Append(one, y)
    <3>1. one \in Seq(Seq(Byte)) /\ k \in Nat /\ Splits(s, sep, d) /\ d[k] = Append(one, <<>>)
      BY <1>1, <1>2, <1>6, <1>10 DEF T
    <3> QED BY <2>2, <3>1, SplitPiece
  <2> QED BY <2>2, <2>3 DEF two
<1>12. d[h] = Append(two, <<>>)
  <2>1. h \in 1 .. Len(s) /\ h - 1 = k + m
    BY <1>2
  <2>2. d[h] = SplitByte(d[h - 1], sep, s[h])
    BY <1>1, <2>1 DEF Splits
  <2> QED BY <1>3, <1>11, <2>1, <2>2, SplitShut
<1>13. d[h + n] = all
  <2>2. h + Len(z) = h + n /\ PieceAt(s, h, z, sep)
    BY <1>2, <1>3, <1>a DEF PieceAt
  <2>3. d[h + Len(z)] = Append(two, z)
    <3>1. two \in Seq(Seq(Byte)) /\ h \in Nat /\ Splits(s, sep, d) /\ d[h] = Append(two, <<>>)
      BY <1>1, <1>2, <1>7, <1>12 DEF T
    <3> QED BY <2>2, <3>1, SplitPiece
  <2> QED BY <2>2, <2>3 DEF all
<1>14. SplitAt(s, sep) = all
  BY <1>1, <1>2, <1>13
<1> HIDE DEF all
<1> QED BY <1>8, <1>14 DEF T

\* A labelled field holds no semicolon, and behind its label is the encoded text.
LEMMA FieldForm ==
  ASSUME NEW i \in 1 .. 3, NEW x \in Seq(Byte)
  PROVE  /\ LabelledField(i, x) \in Seq(Byte) /\ SepFree(LabelledField(i, x), Semicolon)
         /\ IsPrefix(FieldTags[i], LabelledField(i, x))
         /\ SubSeq(LabelledField(i, x), 3, Len(LabelledField(i, x))) = Encode(x)
<1> DEFINE tag == FieldTags[i]
           e == Encode(x)
           f == tag \o e
<1>1. tag \in Seq(Byte) /\ Len(tag) = 2 /\ tag[1] # Semicolon /\ tag[2] # Semicolon
  <2>1. \A a \in {112, 111, 98} : a \in Byte /\ Equals \in Byte /\ a # Semicolon /\ Equals # Semicolon
    BY DEF Byte, Equals, Semicolon
  <2>2. \E a \in {112, 111, 98} : tag = <<a, Equals>>
    BY DEF FieldTags
  <2> HIDE DEF tag
  <2>3. PICK a \in {112, 111, 98} : tag = <<a, Equals>>
    BY <2>2
  <2>4. <<a, Equals>> \in Seq(Byte) /\ Len(<<a, Equals>>) = 2 /\ <<a, Equals>>[1] = a /\ <<a, Equals>>[2] = Equals
    BY <2>1
  <2> QED BY <2>1, <2>3, <2>4
<1>2. e \in Seq(Plain) /\ e \in Seq(Byte)
  BY Encoded
<1>3. f = LabelledField(i, x)
  BY DEF LabelledField
<1> HIDE DEF tag, e
<1>4. /\ f \in Seq(Byte) /\ Len(e) \in Nat /\ Len(f) = 2 + Len(e)
      /\ (\A j \in 1 .. 2 : f[j] = tag[j]) /\ \A j \in 1 .. Len(e) : f[2 + j] = e[j]
  <2>1. tag \in Seq(Byte) /\ e \in Seq(Byte)
    BY <1>1, <1>2
  <2>2. /\ tag \o e \in Seq(Byte) /\ Len(e) \in Nat /\ Len(tag \o e) = Len(tag) + Len(e)
        /\ (\A j \in 1 .. Len(tag) : (tag \o e)[j] = tag[j]) /\ \A j \in 1 .. Len(e) : (tag \o e)[Len(tag) + j] = e[j]
    BY ONLY <2>1, Joined
  <2> QED BY <1>1, <2>2
<1>5. SubSeq(f, 2 + 1, Len(f)) = e /\ IsPrefix(tag, f)
  BY <1>1, <1>2, DropHead
<1>6. 2 + 1 = 3
  OBVIOUS
<1> HIDE DEF f
<1>7. SepFree(f, Semicolon)
  <2>1. \A j \in 1 .. Len(e) : e[j] # Semicolon
    <3>1. \A j \in 1 .. Len(e) : e[j] \in Plain
      BY <1>2
    <3> QED BY <3>1, PlainFacts
  <2>2. ASSUME NEW j \in 1 .. Len(f) PROVE f[j] # Semicolon
    <3>1. CASE j = 1 \/ j = 2
      BY <1>1, <1>4, <3>1
    <3>2. CASE j # 1 /\ j # 2
      <4>1. j - 2 \in 1 .. Len(e) /\ 2 + (j - 2) = j
        BY <1>4, <3>2
      <4> QED BY <1>4, <2>1, <4>1
    <3> QED BY <3>1, <3>2
  <2> QED BY <2>2 DEF SepFree
<1> QED BY <1>3, <1>4, <1>5, <1>6, <1>7 DEF tag, e

\* A semantic id's three texts: non-empty UTF-8.
SemanticTexts(c) == \A i \in 1 .. 3 : c[i] \in Seq(Byte) /\ c[i] # <<>> /\ Utf8(c[i])

\* decode_semantic_id undoes semantic_id.
LEMMA DecodeSemanticBack ==
  ASSUME NEW c, SemanticTexts(c)
  PROVE  DecodeSemanticId(SemanticId(c)) = [ok |-> TRUE, components |-> [i \in 1 .. 3 |-> c[i]]]
<1> DEFINE x == LabelledField(1, c[1])
           y == LabelledField(2, c[2])
           z == LabelledField(3, c[3])
           body == x \o <<Semicolon>> \o y \o <<Semicolon>> \o z
           value == IdPrefix \o body
           fields == SplitAt(SubSeq(value, Len(IdPrefix) + 1, Len(value)), Semicolon)
           decoded == [i \in 1 .. 3 |-> DecodeField(SubSeq(fields[i], 3, Len(fields[i])))]
           components == [i \in 1 .. 3 |-> decoded[i].bytes]
           texts == [i \in 1 .. 3 |-> c[i]]
<1>0. 1 \in 1 .. 3 /\ 2 \in 1 .. 3 /\ 3 \in 1 .. 3 /\ (\A i \in 1 .. 3 : i = 1 \/ i = 2 \/ i = 3) /\ Semicolon \in Byte
  BY DEF Semicolon, Byte
<1>1. \A i \in 1 .. 3 : c[i] \in Seq(Byte) /\ c[i] # <<>> /\ Utf8(c[i])
  BY DEF SemanticTexts
<1>2. value = SemanticId(c)
  BY DEF SemanticId
<1>3. x \in Seq(Byte) /\ y \in Seq(Byte) /\ z \in Seq(Byte) /\ SepFree(x, Semicolon) /\ SepFree(y, Semicolon) /\ SepFree(z, Semicolon)
  BY <1>0, <1>1, FieldForm
<1>4. body \in Seq(Byte) /\ Parted(body, Semicolon, x, y, z)
  <2> HIDE DEF x, y, z
  <2> QED BY <1>0, <1>3, PartedForm
<1>5. IdPrefix \in Seq(Byte)
  <2>1. 98 \in Byte /\ 50 \in Byte /\ 110 \in Byte /\ 49 \in Byte /\ 58 \in Byte
    BY DEF Byte
  <2> QED BY <2>1 DEF IdPrefix
<1> HIDE DEF body
<1>6. SubSeq(value, Len(IdPrefix) + 1, Len(value)) = body /\ IsPrefix(IdPrefix, value)
  BY <1>4, <1>5, DropHead
<1> HIDE DEF value
<1>7. Len(fields) = 3 /\ fields[1] = x /\ fields[2] = y /\ fields[3] = z
  <2>1. fields = SplitAt(body, Semicolon)
    BY <1>6
  <2> HIDE DEF x, y, z, fields
  <2> QED BY <1>0, <1>3, <1>4, <2>1, SplitThree
<1> HIDE DEF fields
<1>8. \A i \in 1 .. 3 : fields[i] = LabelledField(i, c[i])
  BY <1>0, <1>7
<1>9. \A i \in 1 .. 3 : IsPrefix(FieldTags[i], fields[i]) /\ SubSeq(fields[i], 3, Len(fields[i])) = Encode(c[i])
  BY <1>1, <1>8, FieldForm
<1>10. \A i \in 1 .. 3 : decoded[i] = [ok |-> TRUE, bytes |-> c[i]]
  <2>1. \A i \in 1 .. 3 : DecodeField(Encode(c[i])) = [ok |-> TRUE, bytes |-> c[i]]
    BY <1>1, DecodeBack
  <2> QED BY <1>9, <2>1
<1>11. DecodeSemanticId(value) =
         IF (IsPrefix(IdPrefix, value) /\ Len(fields) = 3 /\ \A i \in 1 .. 3 : IsPrefix(FieldTags[i], fields[i])) /\ \A i \in 1 .. 3 : decoded[i].ok
         THEN [ok |-> SemanticId(components) = value, components |-> components]
         ELSE [ok |-> FALSE]
  BY DEF DecodeSemanticId, fields
<1> HIDE DEF decoded
<1>12. \A i \in 1 .. 3 : decoded[i].ok = TRUE /\ decoded[i].bytes = c[i]
  BY <1>10
<1>13. components = texts
  BY <1>12
<1>14. SemanticId(components) = value
  <2>1. components[1] = c[1] /\ components[2] = c[2] /\ components[3] = c[3]
    BY <1>0, <1>12
  <2> QED BY <1>2, <2>1 DEF SemanticId
<1> HIDE DEF components, texts
<1>15. DecodeSemanticId(value) = [ok |-> SemanticId(components) = value, components |-> components]
  BY <1>6, <1>7, <1>9, <1>11, <1>12
<1> QED BY <1>2, <1>13, <1>14, <1>15 DEF texts

\* The first three texts of an identity.
LEMMA Thirds ==
  ASSUME NEW c \in Identity
  PROVE  SubSeq(c, 1, 3) = [i \in 1 .. 3 |-> c[i]]
<1>1. c \in Seq(Seq(Byte)) /\ Len(c) = 4
  BY DEF Identity
<1> QED BY <1>1

-------------------------------------------------------------------------------
\* A semantic id and a generated name belong to one identity.

\* A semantic id belongs to one package, owner and binary.
LEMMA OwnSemanticId ==
  ASSUME NEW c, NEW e, SemanticTexts(c), SemanticTexts(e), SemanticId(c) = SemanticId(e)
  PROVE  \A i \in 1 .. 3 : c[i] = e[i]
<1> DEFINE x == [i \in 1 .. 3 |-> c[i]]
           y == [i \in 1 .. 3 |-> e[i]]
<1>1. [ok |-> TRUE, components |-> x] = [ok |-> TRUE, components |-> y]
  BY DecodeSemanticBack
<1>2. x = y
  <2> HIDE DEF x, y
  <2>1. [ok |-> TRUE, components |-> x].components = [ok |-> TRUE, components |-> y].components
    BY <1>1
  <2> QED BY <2>1
<1>3. \A i \in 1 .. 3 : x[i] = y[i] /\ x[i] = c[i] /\ y[i] = e[i]
  BY <1>2
<1> QED BY <1>3

\* The bytes a generated name writes for a byte.
Spelt(b) == <<95, LowerHexDigit(b \div 16), LowerHexDigit(b % 16)>>
Spellings(id) == [i \in DOMAIN id |-> Spelt(id[i])]

\* A byte is spelt by three, which tell it apart.
LEMMA SpeltForm ==
  /\ \A b \in Byte : Spelt(b) \in Seq(Int) /\ Len(Spelt(b)) = 3 /\ Spelt(b) # <<>>
  /\ \A b, c \in Byte : Spelt(b)[2] = Spelt(c)[2] /\ Spelt(b)[3] = Spelt(c)[3] => b = c
<1>1. \A n \in 0 .. 15 : LowerHexDigit(n) \in Int
  BY DEF LowerHexDigit
<1>2. ASSUME NEW b \in Byte
      PROVE  /\ Spelt(b) \in Seq(Int) /\ Len(Spelt(b)) = 3 /\ Spelt(b) # <<>>
             /\ Spelt(b)[2] = LowerHexDigit(b \div 16) /\ Spelt(b)[3] = LowerHexDigit(b % 16)
  <2> DEFINE x == LowerHexDigit(b \div 16)
             y == LowerHexDigit(b % 16)
  <2>1. x \in Int /\ y \in Int
    BY <1>1, Nibbles
  <2>2. Spelt(b) = <<95, x, y>>
    BY DEF Spelt
  <2> HIDE DEF x, y
  <2>3. <<95, x, y>> \in Seq(Int) /\ Len(<<95, x, y>>) = 3 /\ <<95, x, y>> # <<>> /\ <<95, x, y>>[2] = x /\ <<95, x, y>>[3] = y
    BY <2>1
  <2>4. Spelt(b)[2] = x /\ Spelt(b)[3] = y /\ Spelt(b) \in Seq(Int) /\ Len(Spelt(b)) = 3 /\ Spelt(b) # <<>>
    BY <2>2, <2>3
  <2> QED BY <2>4 DEF x, y
<1>3. ASSUME NEW b \in Byte, NEW c \in Byte, Spelt(b)[2] = Spelt(c)[2], Spelt(b)[3] = Spelt(c)[3] PROVE b = c
  <2>1. LowerHexDigit(b \div 16) = LowerHexDigit(c \div 16) /\ LowerHexDigit(b % 16) = LowerHexDigit(c % 16)
    BY <1>2, <1>3
  <2>2. b \div 16 = c \div 16 /\ b % 16 = c % 16
    BY <2>1, HexDigitBack, Nibbles
  <2> QED BY <2>2, Nibbles
<1> QED BY <1>2, <1>3

\* There is one spelling for each byte.
LEMMA SpellingsType ==
  ASSUME NEW X \in Seq(Byte)
  PROVE  /\ Spellings(X) \in Seq(Seq(Int)) /\ Len(Spellings(X)) = Len(X)
         /\ \A i \in 1 .. Len(X) : X[i] \in Byte /\ Spellings(X)[i] = Spelt(X[i]) /\ Spellings(X)[i] # <<>>
<1> DEFINE n == Len(X)
           T == Seq(Int)
<1>1. n \in Nat /\ n = Len(X) /\ DOMAIN X = 1 .. n /\ \A i \in 1 .. n : X[i] \in Byte
  OBVIOUS
<1> HIDE DEF n
<1>2. \A i \in 1 .. n : Spelt(X[i]) \in T /\ Spelt(X[i]) # <<>>
  BY <1>1, SpeltForm
<1>3. Spellings(X) = [i \in 1 .. n |-> Spelt(X[i])]
  BY <1>1 DEF Spellings
<1> HIDE DEF T
<1>4. Spellings(X) \in Seq(T) /\ Len(Spellings(X)) = n
  BY <1>1, <1>2, <1>3
<1>5. \A i \in 1 .. n : Spellings(X)[i] = Spelt(X[i])
  BY <1>3
<1> QED BY <1>1, <1>2, <1>4, <1>5 DEF T

\* A generated name belongs to one semantic id.
LEMMA OwnGeneratedName ==
  ASSUME NEW X \in Seq(Byte), NEW Y \in Seq(Byte), GeneratedName(<<>>, X) = GeneratedName(<<>>, Y)
  PROVE  X = Y
<1> DEFINE P == Spellings(X)
           Q == Spellings(Y)
           s == FlattenSeq(P)
           t == FlattenSeq(Q)
<1>1. /\ P \in Seq(Seq(Int)) /\ Len(P) = Len(X)
      /\ \A i \in 1 .. Len(X) : X[i] \in Byte /\ P[i] = Spelt(X[i]) /\ P[i] # <<>>
  BY SpellingsType
<1>2. /\ Q \in Seq(Seq(Int)) /\ Len(Q) = Len(Y)
      /\ \A i \in 1 .. Len(Y) : Y[i] \in Byte /\ Q[i] = Spelt(Y[i]) /\ Q[i] # <<>>
  BY SpellingsType
<1>a. Len(X) \in Nat /\ Len(Y) \in Nat
  OBVIOUS
<1>3. GeneratedName(<<>>, X) = <<>> \o s /\ GeneratedName(<<>>, Y) = <<>> \o t
  BY DEF GeneratedName, Spellings, Spelt
<1> HIDE DEF P, Q
<1>4. s \in Seq(Int) /\ \E a : Lays(P, s, a)
  BY <1>1, Layout
<1>5. t \in Seq(Int) /\ \E b : Lays(Q, t, b)
  BY <1>2, Layout
<1> HIDE DEF s, t
<1>6. s = t
  BY <1>3, <1>4, <1>5
<1>7. PICK a : Lays(P, s, a)
  BY <1>4
<1>8. PICK b : Lays(Q, t, b)
  BY <1>5
<1>9. Len(P) = Len(Q) /\ a = b
  <2>1. ASSUME NEW i \in 1 .. Len(P), i <= Len(Q) PROVE Len(P[i]) = Len(Q[i])
    <3>1. i \in 1 .. Len(X) /\ i \in 1 .. Len(Y)
      BY <1>1, <1>2, <2>1, <1>a
    <3>2. X[i] \in Byte /\ P[i] = Spelt(X[i]) /\ Y[i] \in Byte /\ Q[i] = Spelt(Y[i])
      BY <1>1, <1>2, <3>1
    <3>3. Len(Spelt(X[i])) = 3 /\ Len(Spelt(Y[i])) = 3
      BY <3>2, SpeltForm
    <3> QED BY <3>2, <3>3
  <2>2. SameLengths(P, Q, a, b) /\ (\A i \in 1 .. Len(P) : P[i] # <<>>) /\ (\A i \in 1 .. Len(Q) : Q[i] # <<>>)
    BY <1>1, <1>2, <2>1 DEF SameLengths
  <2>3. P \in Seq(Seq(Int)) /\ Q \in Seq(Seq(Int)) /\ Len(s) = Len(t)
    BY <1>1, <1>2, <1>6
  <2> QED BY <1>7, <1>8, <2>2, <2>3, SamePlaces
<1>10. \A i \in 1 .. Len(X) : X[i] = Y[i]
  <2> SUFFICES ASSUME NEW i \in 1 .. Len(X) PROVE X[i] = Y[i]
    OBVIOUS
  <2>1. i \in 1 .. Len(P) /\ i \in 1 .. Len(Q) /\ i \in 1 .. Len(Y)
    BY <1>1, <1>2, <1>9
  <2>2. X[i] \in Byte /\ P[i] = Spelt(X[i]) /\ Y[i] \in Byte /\ Q[i] = Spelt(Y[i])
    BY <1>1, <1>2, <2>1
  <2>3. Len(P[i]) = 3 /\ Len(Q[i]) = 3
    BY <2>2, SpeltForm
  <2>4. \A j \in 1 .. 3 : s[a[i] + j] = P[i][j] /\ t[a[i] + j] = Q[i][j]
    BY <1>7, <1>8, <1>9, <2>1, <2>3 DEF Lays
  <2>5. P[i][2] = Q[i][2] /\ P[i][3] = Q[i][3]
    BY <1>6, <2>4
  <2> QED BY <2>2, <2>5, SpeltForm
<1>11. Len(X) = Len(Y)
  BY <1>1, <1>2, <1>9
<1> QED BY <1>10, <1>11

\* A semantic id is a text.
LEMMA SemanticIdType ==
  ASSUME NEW c, SemanticTexts(c)
  PROVE  SemanticId(c) \in Seq(Byte)
<1>1. \A i \in 1 .. 3 : c[i] \in Seq(Byte)
  BY DEF SemanticTexts
<1> DEFINE x == LabelledField(1, c[1])
           y == LabelledField(2, c[2])
           z == LabelledField(3, c[3])
           e == <<Semicolon>>
<1>2. x \in Seq(Byte) /\ y \in Seq(Byte) /\ z \in Seq(Byte)
  <2>1. 1 \in 1 .. 3 /\ 2 \in 1 .. 3 /\ 3 \in 1 .. 3
    OBVIOUS
  <2> QED BY <1>1, <2>1, FieldForm
<1>3. IdPrefix \in Seq(Byte) /\ e \in Seq(Byte)
  <2>1. 98 \in Byte /\ 50 \in Byte /\ 110 \in Byte /\ 49 \in Byte /\ 58 \in Byte /\ 59 \in Byte
    BY DEF Byte
  <2> QED BY <2>1 DEF IdPrefix, Semicolon
<1>4. SemanticId(c) = IdPrefix \o (x \o e \o y \o e \o z)
  BY DEF SemanticId
<1> HIDE DEF x, y, z, e
<1> QED BY <1>2, <1>3, <1>4

-------------------------------------------------------------------------------
\* The session's reservations.

\* The identities, as the lemmas speak of them.
LEMMA IdentitiesAreTexts ==
  \A id \in Identities : id \in Identity /\ \A i \in 1 .. 4 : id[i] \in Seq(Byte) /\ Utf8(id[i])
<1> SUFFICES ASSUME NEW id \in Identities PROVE id \in Identity /\ \A i \in 1 .. 4 : id[i] \in Seq(Byte) /\ Utf8(id[i])
  OBVIOUS
<1> DEFINE T == Seq(Byte)
<1>1. id \in Seq(T) /\ Len(id) = 4 /\ \A i \in 1 .. 4 : Utf8(id[i])
  BY IdentitiesAssumption DEF IdentitiesAssumption, Byte
<1> HIDE DEF T
<1>2. \A i \in 1 .. 4 : id[i] \in T
  <2>1. id \in Seq(T)
    BY <1>1
  <2>2. \A i \in 1 .. Len(id) : id[i] \in T
    BY ONLY <2>1, ElementOfSeq
  <2> QED BY <1>1, <2>2
<1> QED BY <1>1, <1>2 DEF Identity, T

\* The names of a pair of identities that have one.
LEMMA NamesOfTwo ==
  ASSUME NEW one \in Identities, NEW other \in Identities, Named(one), Named(other)
  PROVE  NamesAreOwnFor(one, other)
<1>1. one \in Identity /\ other \in Identity
  BY IdentitiesAreTexts
<1>2. PublishableName(EncodedName(one))
  BY <1>1, NamesPublishable
<1>3. EncodedName(one) = EncodedName(other) => one = other
  BY <1>1, OwnName
<1>4. CaseVariants(one, other) => ReserveKey(one) = ReserveKey(other)
  BY <1>1, KeysFold
<1>5. NulFree(one) /\ NulFree(other) /\ ReserveKey(one) = ReserveKey(other) => CaseVariants(one, other)
  BY <1>1, OwnKey
<1>6. ASSUME HasSemanticId(one), HasSemanticId(other)
      PROVE  /\ SemanticId(one) = SemanticId(other) => SubSeq(one, 1, 3) = SubSeq(other, 1, 3)
             /\ GeneratedName(<<>>, SemanticId(one)) = GeneratedName(<<>>, SemanticId(other)) => SemanticId(one) = SemanticId(other)
             /\ DecodeSemanticId(SemanticId(one)) = [ok |-> TRUE, components |-> SubSeq(one, 1, 3)]
  <2>1. SemanticTexts(one) /\ SemanticTexts(other)
    <3>1. \A i \in 1 .. 3 : i \in 1 .. 4
      OBVIOUS
    <3> QED BY <1>6, <3>1, IdentitiesAreTexts DEF SemanticTexts, HasSemanticId
  <2>2. SubSeq(one, 1, 3) = [i \in 1 .. 3 |-> one[i]] /\ SubSeq(other, 1, 3) = [i \in 1 .. 3 |-> other[i]]
    BY <1>1, Thirds
  <2>3. SemanticId(one) = SemanticId(other) => SubSeq(one, 1, 3) = SubSeq(other, 1, 3)
    <3>1. SemanticId(one) = SemanticId(other) => \A i \in 1 .. 3 : one[i] = other[i]
      BY <2>1, OwnSemanticId
    <3> QED BY <2>2, <3>1
  <2>4. GeneratedName(<<>>, SemanticId(one)) = GeneratedName(<<>>, SemanticId(other)) => SemanticId(one) = SemanticId(other)
    BY <2>1, SemanticIdType, OwnGeneratedName
  <2>5. DecodeSemanticId(SemanticId(one)) = [ok |-> TRUE, components |-> SubSeq(one, 1, 3)]
    BY <2>1, <2>2, DecodeSemanticBack
  <2> QED BY <2>3, <2>4, <2>5
<1> QED BY <1>2, <1>3, <1>4, <1>5, <1>6 DEF NamesAreOwnFor

\* The inductive invariant: the keys taken are those of the identities that
\* took one, each its own, and an identity is refused for a key that is taken.
NamesInv ==
  /\ named \subseteq Identities /\ duplicates \subseteq Identities
  /\ \A identity \in named \cup duplicates : Named(identity)
  /\ reserved = {ReserveKey(identity) : identity \in named}
  /\ \A one, other \in named : ReserveKey(one) = ReserveKey(other) => one = other
  /\ \A one \in duplicates : ReserveKey(one) \in reserved

\* NamesInv is inductive (process, up to the reservation).
THEOREM NamesInvariance == NamesSpec => []NamesInv
<1>1. NamesInit => NamesInv
  BY DEF NamesInit, NamesInv
<1>2. NamesInv /\ [NamesNext]_nameVars => NamesInv'
  <2> SUFFICES ASSUME NamesInv, [NamesNext]_nameVars PROVE NamesInv'
    OBVIOUS
  <2>1. CASE UNCHANGED nameVars
    BY <2>1 DEF NamesInv, nameVars
  <2>2. ASSUME NEW identity \in Identities, Reserve(identity) PROVE NamesInv'
    <3>1. /\ Named(identity) /\ ReserveKey(identity) \notin reserved /\ duplicates' = duplicates
          /\ reserved' = reserved \cup {ReserveKey(identity)} /\ named' = named \cup {identity}
      BY <2>2 DEF Reserve
    <3>2. \A other \in named : ReserveKey(other) # ReserveKey(identity)
      BY <3>1 DEF NamesInv
    <3>3. \A one, other \in named' : ReserveKey(one) = ReserveKey(other) => one = other
      BY <3>1, <3>2 DEF NamesInv
    <3>4. reserved' = {ReserveKey(one) : one \in named'}
      BY <3>1 DEF NamesInv
    <3>5. \A one \in duplicates' : ReserveKey(one) \in reserved'
      BY <3>1 DEF NamesInv
    <3>6. named' \subseteq Identities /\ duplicates' \subseteq Identities /\ \A one \in named' \cup duplicates' : Named(one)
      BY <3>1 DEF NamesInv
    <3> QED BY <3>3, <3>4, <3>5, <3>6 DEF NamesInv
  <2>3. ASSUME NEW identity \in Identities, Duplicate(identity) PROVE NamesInv'
    <3>1. /\ Named(identity) /\ ReserveKey(identity) \in reserved /\ duplicates' = duplicates \cup {identity}
          /\ reserved' = reserved /\ named' = named
      BY <2>3 DEF Duplicate
    <3> QED BY <3>1 DEF NamesInv
  <2> QED BY <2>1, <2>2, <2>3 DEF NamesNext
<1> QED BY <1>1, <1>2, PTL DEF NamesSpec

\* NamesAreOwn for any identities: names, keys, semantic ids and generated names
\* belong to one identity (filename, reserve_key, semantic_id, generated_name).
THEOREM NamesAreTheirOwn == NamesSpec => []NamesAreOwn
<1>1. NamesInv => NamesAreOwn
  <2> SUFFICES ASSUME NamesInv PROVE NamesAreOwn
    OBVIOUS
  <2>1. \A one \in named \cup duplicates : one \in Identities /\ one \in Identity /\ Named(one)
    BY IdentitiesAreTexts DEF NamesInv
  <2>2. \A one, other \in named \cup duplicates : NamesAreOwnFor(one, other)
    BY <2>1, NamesOfTwo
  <2>3. \A one, other \in named : CaseVariants(one, other) => one = other
    BY <2>1, KeysFold DEF NamesInv
  <2>4. ASSUME NEW one \in duplicates
        PROVE  \E other \in named :
                  ReserveKey(one) = ReserveKey(other) /\ (NulFree(one) /\ NulFree(other) => CaseVariants(one, other))
    <3>1. PICK other \in named : ReserveKey(one) = ReserveKey(other)
      BY DEF NamesInv
    <3>2. NulFree(one) /\ NulFree(other) => CaseVariants(one, other)
      BY <2>1, <3>1, OwnKey
    <3> QED BY <3>1, <3>2
  <2> QED BY <2>2, <2>3, <2>4 DEF NamesAreOwn
<1> QED BY <1>1, NamesInvariance, PTL
-------------------------------------------------------------------------------
(* The command lines of the adapter's programs.                            *)

\* What a program's table says of the options that the loop treats apart.
OptionKinds(p) ==
  /\ p.lists \cap ((p.once \ p.flagged) \cup p.modes) \subseteq {"--cargo-nextest-argv"}
  /\ p.pushed \cap ((p.once \ p.flagged) \cup p.modes) = {}
  /\ p.pushed \cap (p.flags \cup {"--cargo-nextest-argv", "--suite-env"}) = {}
  /\ p.pushed \subseteq p.once \cup p.all
  /\ "--suite-env" \in Known(p) => "--suite-env" \in p.all
  /\ "--suite-env" \notin p.once \cup p.modes \cup p.flagged
  /\ ~p.emptyResources => "--bundle-resources" \in p.all \cap p.pushed
  /\ Controls \cap (p.all \cup p.flags \cup p.lists \cup {"--cargo-nextest-argv", "--suite-env"}) = {}

\* The three programs' tables are of these kinds.
LEMMA ProgramsKinds == ASSUME NEW n \in DOMAIN Takes PROVE OptionKinds(Takes[n])
<1>1. n \in {"runner", "contract", "artifact"}
  BY DEF Takes
<1>2. OptionKinds(RunnerLine)
  BY DEF OptionKinds, RunnerLine, Controls, Lists, Known
<1>3. OptionKinds(ContractLine)
  BY DEF OptionKinds, ContractLine, Controls, Lists, Known
<1>4. OptionKinds(ArtifactLine)
  BY DEF OptionKinds, ArtifactLine, Controls, Lists, Known
<1> QED BY <1>1, <1>2, <1>3, <1>4 DEF Takes

\* Line new is line rs and one round more.
OneMore(rs, r, new) ==
  /\ Len(rs) \in Nat /\ Len(new) = Len(rs) + 1
  /\ DOMAIN rs = 1 .. Len(rs) /\ DOMAIN new = 1 .. (Len(rs) + 1)
  /\ \A i \in 1 .. Len(rs) : new[i] = rs[i]
  /\ new[Len(rs) + 1] = r

\* Append makes one round more.
LEMMA AppendIsOneMore == ASSUME NEW S, NEW rs \in Seq(S), NEW r \in S PROVE OneMore(rs, r, Append(rs, r))
BY DEF OneMore

\* Where the options of the longer line stand, and which are the last.
LEMMA OptionsOfOneMore ==
  ASSUME NEW rs, NEW r, NEW new, OneMore(rs, r, new)
  PROVE  /\ \A o : RoundsOf(new, o) = RoundsOf(rs, o) \cup (IF r.option = o THEN {Len(rs) + 1} ELSE {})
         /\ \A i \in DOMAIN rs : LastOf(new, i) => LastOf(rs, i) /\ r.option # rs[i].option
<1>1. \A o : RoundsOf(new, o) = RoundsOf(rs, o) \cup (IF r.option = o THEN {Len(rs) + 1} ELSE {})
  BY DEF OneMore, RoundsOf
<1>2. ASSUME NEW i \in DOMAIN rs, LastOf(new, i) PROVE LastOf(rs, i) /\ r.option # rs[i].option
  <2>1. i \in 1 .. Len(rs) /\ Len(rs) + 1 \in (i + 1) .. Len(new) /\ new[i] = rs[i]
    BY <1>2 DEF OneMore
  <2>2. r.option # rs[i].option
    BY <1>2, <2>1 DEF OneMore, LastOf
  <2>3. \A j \in (i + 1) .. Len(rs) : j \in (i + 1) .. Len(new) /\ new[j] = rs[j]
    BY <2>1 DEF OneMore
  <2>4. LastOf(rs, i)
    BY <1>2, <2>1, <2>3 DEF LastOf
  <2> QED BY <2>2, <2>4
<1> QED BY <1>1, <1>2

\* What the round r needs of the rounds before it.
FitsBehind(p, rs, r) ==
  /\ RoundFits(p, r)
  /\ \A i \in DOMAIN rs : ~Exclude(p, rs[i], r)
  /\ ~p.emptyResources /\ r.option = "--bundle-resources" =>
       r.values # <<>> \/ \E j \in RoundsOf(rs, "--bundle-resources") : rs[j].values # <<>>

\* Which rounds exclude each other does not depend on their order.
LEMMA ExcludeSymmetric == ASSUME NEW p, NEW x, NEW y PROVE Exclude(p, x, y) <=> Exclude(p, y, x)
BY DEF Exclude

\* A sound line stays one exactly when the next round fits behind it.
LEMMA SoundOneMore ==
  ASSUME NEW p, NEW rs, NEW r, NEW new, OneMore(rs, r, new), SoundRounds(p, rs)
  PROVE  SoundRounds(p, new) <=> FitsBehind(p, rs, r)
<1> DEFINE n == Len(rs) + 1
           BR == "--bundle-resources"
<1>1. /\ n \in DOMAIN new /\ new[n] = r
      /\ \A i \in DOMAIN rs : i \in DOMAIN new /\ new[i] = rs[i] /\ i # n /\ i <= n
      /\ \A i \in DOMAIN new : i \in DOMAIN rs \/ i = n
      /\ n <= n
  BY DEF OneMore
<1>2. /\ RoundsOf(new, BR) = RoundsOf(rs, BR) \cup (IF r.option = BR THEN {n} ELSE {})
      /\ RoundsOf(rs, BR) \subseteq DOMAIN rs
  <2>1. RoundsOf(new, BR) = RoundsOf(rs, BR) \cup (IF r.option = BR THEN {n} ELSE {})
    BY OptionsOfOneMore
  <2>2. RoundsOf(rs, BR) \subseteq DOMAIN rs
    BY DEF RoundsOf
  <2> QED BY <2>1, <2>2
<1>3. \A i \in RoundsOf(rs, BR) : new[i] = rs[i] /\ i <= n
  BY <1>1, <1>2
<1>4. (\A i \in DOMAIN new : RoundFits(p, new[i])) <=> RoundFits(p, r)
  BY <1>1 DEF SoundRounds
<1>5. (\A i, j \in DOMAIN new : i # j => ~Exclude(p, new[i], new[j])) <=> \A i \in DOMAIN rs : ~Exclude(p, rs[i], r)
  <2>1. ASSUME \A i, j \in DOMAIN new : i # j => ~Exclude(p, new[i], new[j]), NEW i \in DOMAIN rs PROVE ~Exclude(p, rs[i], r)
    BY <1>1, <2>1
  <2>2. ASSUME \A i \in DOMAIN rs : ~Exclude(p, rs[i], r), NEW i \in DOMAIN new, NEW j \in DOMAIN new, i # j
        PROVE  ~Exclude(p, new[i], new[j])
    <3>1. CASE i = n
      BY <1>1, <2>2, <3>1, ExcludeSymmetric
    <3>2. CASE j = n
      BY <1>1, <2>2, <3>2
    <3>3. CASE i # n /\ j # n
      <4>1. i \in DOMAIN rs /\ j \in DOMAIN rs /\ new[i] = rs[i] /\ new[j] = rs[j]
        BY <1>1, <3>3
      <4> QED BY <2>2, <4>1 DEF SoundRounds
    <3> QED BY <3>1, <3>2, <3>3
  <2> QED BY <2>1, <2>2
<1>6. ASSUME ~p.emptyResources
      PROVE  (\A i \in RoundsOf(new, BR) : \E j \in RoundsOf(new, BR) : j <= i /\ new[j].values # <<>>)
               <=> (r.option = BR => r.values # <<>> \/ \E j \in RoundsOf(rs, BR) : rs[j].values # <<>>)
  <2>1. \A i \in RoundsOf(rs, BR) : \E j \in RoundsOf(rs, BR) : j <= i /\ rs[j].values # <<>>
    BY <1>6 DEF SoundRounds
  <2>2. \A i \in RoundsOf(rs, BR) : \E j \in RoundsOf(new, BR) : j <= i /\ new[j].values # <<>>
    BY <2>1, <1>2, <1>3
  <2>3. CASE r.option # BR
    BY <2>2, <2>3, <1>2
  <2>4. CASE r.option = BR
    <3>1. RoundsOf(new, BR) = RoundsOf(rs, BR) \cup {n}
      BY <1>2, <2>4
    <3>2. (\E j \in RoundsOf(new, BR) : j <= n /\ new[j].values # <<>>) <=> (r.values # <<>> \/ \E j \in RoundsOf(rs, BR) : rs[j].values # <<>>)
      BY <3>1, <1>1, <1>3
    <3>3. (\A i \in RoundsOf(new, BR) : \E j \in RoundsOf(new, BR) : j <= i /\ new[j].values # <<>>)
            <=> \E j \in RoundsOf(new, BR) : j <= n /\ new[j].values # <<>>
      BY <3>1, <2>2
    <3> QED BY <2>4, <3>2, <3>3
  <2> QED BY <2>3, <2>4
<1> QED BY <1>4, <1>5, <1>6 DEF SoundRounds, FitsBehind
-------------------------------------------------------------------------------
\* What the fields of Args may hold.
FieldValues == [text : STRING, number : Int] \cup Seq([text : STRING, number : Int])

\* The machine has its types.
TypeOptions ==
  /\ program \in DOMAIN Takes /\ rounds \in Seq(Rounds[program])
  /\ given \in [Known(Program) -> Seq(FieldValues)]
  /\ outcome \in {"reading", "refused", "usage"}

\* The flags and the fields say which options were given.
Remembered ==
  /\ \A o \in Program.flagged : o \in seen <=> RoundsOf(rounds, o) # {}
  /\ \A o \in (Program.once \ Program.flagged) \cup Program.modes : RoundsOf(rounds, o) # {} => given[o] # <<>>

\* The inductive invariant.
AdapterInv ==
  /\ TypeOptions
  /\ outcome = "usage" => rounds = <<>>
  /\ outcome = "refused" => ~SoundRounds(Program, rounds)
  /\ outcome = "reading" => SoundRounds(Program, rounds) /\ GivenAsRead(Program, rounds) /\ Remembered

\* A round is an option with the arguments behind it.
LEMMA RoundsAreTyped ==
  ASSUME NEW n \in DOMAIN Takes, NEW r \in Rounds[n]
  PROVE  r.option \in STRING /\ r.values \in Seq([text : STRING, number : Int])
BY RoundsAssumption

\* A sequence over a set is one over a larger set.
LEMMA SequencesOfMore == ASSUME NEW A, NEW B, NEW s \in Seq(A), A \subseteq B PROVE s \in Seq(B)
OBVIOUS

\* A sequence is empty when nothing is in it.
LEMMA RangeOfEmpty == ASSUME NEW S, NEW s \in Seq(S) PROVE s # <<>> <=> Range(s) # {}
<1>1. s # <<>> <=> Len(s) # 0
  OBVIOUS
<1>2. Len(s) \in Nat /\ DOMAIN s = 1 .. Len(s)
  OBVIOUS
<1>3. Len(s) # 0 <=> DOMAIN s # {}
  <2>1. Len(s) # 0 => 1 \in DOMAIN s
    BY <1>2
  <2>2. Len(s) = 0 => DOMAIN s = {}
    BY <1>2
  <2> QED BY <2>1, <2>2
<1>4. DOMAIN s # {} <=> Range(s) # {}
  BY DEF Range
<1> QED BY <1>1, <1>3, <1>4

\* One with something in it is not empty.
LEMMA OneIsSome == ASSUME NEW S, NEW s \in Seq(S), Len(s) = 1 PROVE s # <<>>
OBVIOUS

\* Two joined are empty when both are.
LEMMA JoinedEmpty == ASSUME NEW S, NEW s \in Seq(S), NEW t \in Seq(S) PROVE s \o t # <<>> <=> s # <<>> \/ t # <<>>
OBVIOUS

\* What is in two joined is in one of them.
LEMMA RangeOfJoined == ASSUME NEW S, NEW s \in Seq(S), NEW t \in Seq(S) PROVE Range(s \o t) = Range(s) \cup Range(t)
<1>1. /\ s \o t \in Seq(S) /\ Len(s \o t) = Len(s) + Len(t) /\ Len(s) \in Nat /\ Len(t) \in Nat
      /\ DOMAIN s = 1 .. Len(s) /\ DOMAIN t = 1 .. Len(t) /\ DOMAIN (s \o t) = 1 .. Len(s \o t)
  OBVIOUS
<1>2. \A i \in 1 .. Len(s) + Len(t) : (s \o t)[i] = IF i <= Len(s) THEN s[i] ELSE t[i - Len(s)]
  OBVIOUS
<1> DEFINE j == s \o t
<1>3. \A i \in DOMAIN s : i \in DOMAIN j /\ j[i] = s[i]
  BY <1>1, <1>2
<1>4. \A i \in DOMAIN t : Len(s) + i \in DOMAIN j /\ j[Len(s) + i] = t[i]
  BY <1>1, <1>2
<1>5. \A i \in DOMAIN j : (i \in DOMAIN s /\ j[i] = s[i]) \/ (i - Len(s) \in DOMAIN t /\ j[i] = t[i - Len(s)])
  BY <1>1, <1>2
<1> HIDE DEF j
<1>6. Range(j) = Range(s) \cup Range(t)
  BY <1>3, <1>4, <1>5 DEF Range
<1> QED BY <1>6 DEF j

\* What is stored is a field's value.
LEMMA StoredIsTyped ==
  ASSUME TypeOptions, NEW r \in Rounds[program], r.option \in Known(Program)
  PROVE  Stored(r) \in Seq(FieldValues)
<1>1. r.option \in STRING /\ r.values \in Seq([text : STRING, number : Int])
  BY RoundsAreTyped DEF TypeOptions
<1>2. r.values \in Seq(FieldValues)
  BY <1>1, SequencesOfMore DEF FieldValues
<1>3. given[r.option] \in Seq(FieldValues)
  BY DEF TypeOptions
<1>4. given[r.option] \o r.values \in Seq(FieldValues)
  BY <1>2, <1>3
<1>5. Text(r.option) \in FieldValues
  BY <1>1 DEF Text, FieldValues
<1>6. <<Text(r.option)>> \in Seq(FieldValues)
  BY <1>5
<1>7. r.values \in FieldValues
  BY <1>1 DEF FieldValues
<1>8. <<r.values>> \in Seq(FieldValues)
  BY <1>7
<1> QED BY <1>2, <1>4, <1>6, <1>8 DEF Stored, FieldOf

\* The initial states satisfy the invariant.
LEMMA OptionsInitHolds == ASSUME OptionsInit PROVE AdapterInv
<1>1. rounds = <<>> /\ outcome = "reading" /\ seen = {} /\ suiteEnv = {} /\ program \in DOMAIN Takes
      /\ given = [o \in Known(Program) |-> <<>>]
  BY DEF OptionsInit
<1>2. DOMAIN rounds = {} /\ rounds \in Seq(Rounds[program])
  BY <1>1
<1>3. <<>> \in Seq(FieldValues)
  OBVIOUS
<1>4. TypeOptions
  BY <1>1, <1>2, <1>3 DEF TypeOptions
<1>5. \A o : RoundsOf(rounds, o) = {}
  BY <1>2 DEF RoundsOf
<1>6. SoundRounds(Program, rounds)
  BY <1>2, <1>5 DEF SoundRounds
<1>7. Remembered
  BY <1>1, <1>5 DEF Remembered
<1>8. \A o \in Program.all \cap Program.pushed : Range(given[o]) = UNION {Range(rounds[i].values) : i \in RoundsOf(rounds, o)}
  <2>1. \A o \in Program.all : o \in Known(Program)
    BY DEF Known
  <2>2. Range(<<>>) = {}
    BY DEF Range
  <2>3. \A o \in Program.all : Range(given[o]) = {}
    BY <2>1, <2>2, <1>1
  <2> QED BY <2>3, <1>5
<1>9. suiteEnv = {rounds[i].values : i \in RoundsOf(rounds, "--suite-env")}
  BY <1>1, <1>5
<1>10. GivenAsRead(Program, rounds)
  BY <1>1, <1>2, <1>8, <1>9 DEF GivenAsRead
<1> QED BY <1>1, <1>4, <1>6, <1>7, <1>10 DEF AdapterInv
\* The round's option was given before exactly when an earlier round
\* excludes it by its option or its mode.
LEMMA AgainIsExcluded ==
  ASSUME AdapterInv, outcome = "reading", NEW o
  PROVE  Again(o) <=> \/ o \in Program.once /\ RoundsOf(rounds, o) # {}
                      \/ o \in Program.modes /\ \E m \in Program.modes : RoundsOf(rounds, m) # {}
<1>1. Remembered /\ GivenAsRead(Program, rounds)
  BY DEF AdapterInv
<1>2. \A m \in Known(Program) : given[m] # <<>> => RoundsOf(rounds, m) # {}
  BY <1>1 DEF GivenAsRead
<1>3. Program.once \subseteq Known(Program) /\ Program.modes \subseteq Known(Program)
  BY DEF Known
<1>4. \A m \in (Program.once \ Program.flagged) \cup Program.modes : RoundsOf(rounds, m) # {} <=> given[m] # <<>>
  BY <1>1, <1>2, <1>3 DEF Remembered
<1>5. \A m \in Program.flagged : m \in seen <=> RoundsOf(rounds, m) # {}
  BY <1>1 DEF Remembered
<1> QED BY <1>4, <1>5 DEF Again

\* So is a suite variable's name, and the vector of resources is empty
\* exactly when all lists before are.
LEMMA StoreIsRead ==
  ASSUME AdapterInv, outcome = "reading", NEW r \in Rounds[program], RoundFits(Program, r)
  PROVE  /\ (\A v \in suiteEnv : v[1] # r.values[1]) <=> \A i \in RoundsOf(rounds, "--suite-env") : rounds[i].values[1] # r.values[1]
         /\ r.option = "--bundle-resources" /\ ~Program.emptyResources =>
              (Stored(r) # <<>> <=> r.values # <<>> \/ \E j \in RoundsOf(rounds, "--bundle-resources") : rounds[j].values # <<>>)
<1>1. GivenAsRead(Program, rounds) /\ TypeOptions /\ OptionKinds(Program)
  BY ProgramsKinds DEF AdapterInv, TypeOptions, Program
<1>2. suiteEnv = {rounds[i].values : i \in RoundsOf(rounds, "--suite-env")}
  BY <1>1 DEF GivenAsRead
<1>3. (\A v \in suiteEnv : v[1] # r.values[1]) <=> \A i \in RoundsOf(rounds, "--suite-env") : rounds[i].values[1] # r.values[1]
  BY <1>2
<1>4. ASSUME r.option = "--bundle-resources", ~Program.emptyResources
      PROVE  Stored(r) # <<>> <=> r.values # <<>> \/ \E j \in RoundsOf(rounds, "--bundle-resources") : rounds[j].values # <<>>
  <2> DEFINE BR == "--bundle-resources"
  <2>1. BR \in Program.all \cap Program.pushed /\ BR \in Known(Program)
    BY <1>1, <1>4 DEF OptionKinds, Known
  <2>2. Range(given[BR]) = UNION {Range(rounds[i].values) : i \in RoundsOf(rounds, BR)}
    BY <1>1, <2>1 DEF GivenAsRead
  <2>3. given[BR] \in Seq(FieldValues) /\ r.values \in Seq(FieldValues)
    BY <1>1, <2>1, RoundsAreTyped, SequencesOfMore DEF TypeOptions, FieldValues
  <2>4. \A j \in RoundsOf(rounds, BR) : rounds[j].values \in Seq(FieldValues)
    <3>1. TAKE j \in RoundsOf(rounds, BR)
    <3>2. rounds[j] \in Rounds[program]
      BY <1>1, <3>1 DEF TypeOptions, RoundsOf
    <3> QED BY <1>1, <3>2, RoundsAreTyped, SequencesOfMore DEF TypeOptions, FieldValues
  <2>5. given[BR] # <<>> <=> Range(given[BR]) # {}
    BY <2>3, RangeOfEmpty
  <2>6. \A j \in RoundsOf(rounds, BR) : rounds[j].values # <<>> <=> Range(rounds[j].values) # {}
    BY <2>4, RangeOfEmpty
  <2>7. given[BR] # <<>> <=> \E j \in RoundsOf(rounds, BR) : rounds[j].values # <<>>
    <3>1. Range(given[BR]) # {} <=> \E j \in RoundsOf(rounds, BR) : Range(rounds[j].values) # {}
      <4>1. ASSUME NEW x \in Range(given[BR]) PROVE \E j \in RoundsOf(rounds, BR) : x \in Range(rounds[j].values)
        BY <2>2, <4>1
      <4>2. ASSUME NEW j \in RoundsOf(rounds, BR), NEW x \in Range(rounds[j].values) PROVE x \in Range(given[BR])
        BY <2>2, <4>2
      <4> HIDE DEF BR
      <4> QED BY <4>1, <4>2
    <3> QED BY ONLY <2>5, <2>6, <3>1
  <2>8. Stored(r) = given[BR] \o r.values
    BY <1>4, <2>1 DEF Stored
  <2>9. given[BR] \o r.values # <<>> <=> given[BR] # <<>> \/ r.values # <<>>
    BY <2>3, JoinedEmpty
  <2> QED BY <2>7, <2>8, <2>9
<1> QED BY <1>3, <1>4

\* The loop takes a round exactly when it fits behind the rounds before it.
LEMMA TakeableFits ==
  ASSUME AdapterInv, outcome = "reading", NEW r \in Rounds[program]
  PROVE  Takeable(r) <=> FitsBehind(Program, rounds, r)
<1>1. CASE ~RoundFits(Program, r)
  BY <1>1 DEF Takeable, FitsBehind
<1>2. CASE RoundFits(Program, r)
  <2>1. Again(r.option) <=> \/ r.option \in Program.once /\ RoundsOf(rounds, r.option) # {}
                            \/ r.option \in Program.modes /\ \E m \in Program.modes : RoundsOf(rounds, m) # {}
    BY AgainIsExcluded
  <2>2. Again(r.option) <=>
          \E i \in DOMAIN rounds : \/ rounds[i].option = r.option /\ rounds[i].option \in Program.once
                                   \/ {rounds[i].option, r.option} \subseteq Program.modes
    BY <2>1 DEF RoundsOf
  <2>3. (r.option = "--suite-env" => \A v \in suiteEnv : v[1] # r.values[1])
          <=> \A i \in DOMAIN rounds : ~({rounds[i].option, r.option} = {"--suite-env"} /\ rounds[i].values[1] = r.values[1])
    <3>1. \A i \in DOMAIN rounds : {rounds[i].option, r.option} = {"--suite-env"} <=> i \in RoundsOf(rounds, "--suite-env") /\ r.option = "--suite-env"
      BY DEF RoundsOf
    <3>2. RoundsOf(rounds, "--suite-env") \subseteq DOMAIN rounds
      BY DEF RoundsOf
    <3>3. (\A v \in suiteEnv : v[1] # r.values[1]) <=> \A i \in RoundsOf(rounds, "--suite-env") : rounds[i].values[1] # r.values[1]
      BY <1>2, StoreIsRead
    <3> QED BY <3>1, <3>2, <3>3
  <2>4. (\A i \in DOMAIN rounds : ~Exclude(Program, rounds[i], r))
          <=> ~Again(r.option) /\ (r.option = "--suite-env" => \A v \in suiteEnv : v[1] # r.values[1])
    BY <2>2, <2>3 DEF Exclude
  <2>5. r.option = "--bundle-resources" /\ ~Program.emptyResources =>
          (Stored(r) # <<>> <=> r.values # <<>> \/ \E j \in RoundsOf(rounds, "--bundle-resources") : rounds[j].values # <<>>)
    BY <1>2, StoreIsRead
  <2> QED BY <1>2, <2>4, <2>5 DEF Takeable, FitsBehind
<1> QED BY <1>1, <1>2
\* A round that fits and has no list behind it has its values.
LEMMA FitsIsWanted ==
  ASSUME NEW p, NEW r, RoundFits(p, r), r.option \notin p.lists \cup p.flags, r.option # "--suite-env"
  PROVE  Len(r.values) = 1
BY DEF RoundFits, Wanted

\* A round that is taken: the values of a field that was given before are
\* those that are pushed on, and what is stored is remembered.
LEMMA StoredIsKept ==
  ASSUME AdapterInv, outcome = "reading", NEW r \in Rounds[program], Takeable(r), r.option # "--suite-env"
  PROVE  /\ r.option \notin Program.all => Stored(r) = FieldOf(Program, r)
         /\ r.option \in (Program.once \ Program.flagged) \cup Program.modes => Stored(r) # <<>>
         /\ r.option \in Program.all \cap Program.pushed => Range(Stored(r)) = Range(given[r.option]) \cup Range(r.values)
<1> DEFINE o == r.option
<1>1. /\ GivenAsRead(Program, rounds) /\ Remembered /\ TypeOptions /\ OptionKinds(Program)
      /\ RoundFits(Program, r) /\ ~Again(o) /\ o \in Known(Program)
  BY ProgramsKinds DEF AdapterInv, TypeOptions, Program, Takeable, RoundFits
<1>2. given[o] \in Seq(FieldValues) /\ r.values \in Seq(FieldValues)
  BY <1>1, RoundsAreTyped, SequencesOfMore DEF TypeOptions, FieldValues
<1>3. ASSUME o \notin Program.all PROVE Stored(r) = FieldOf(Program, r)
  <2>1. CASE o \notin Program.pushed
    BY <2>1 DEF Stored
  <2>2. CASE o \in Program.pushed
    <3>1. o \in Program.once
      BY <1>1, <1>3, <2>2 DEF OptionKinds
    <3>2. RoundsOf(rounds, o) = {}
      BY <1>1, <3>1, AgainIsExcluded
    <3>3. given[o] = <<>>
      BY <1>1, <3>2 DEF GivenAsRead
    <3>4. <<>> \o r.values = r.values
      BY <1>2
    <3>5. FieldOf(Program, r) = r.values
      BY <1>1, <2>2 DEF OptionKinds, FieldOf
    <3> QED BY <2>2, <3>3, <3>4, <3>5 DEF Stored
  <2> QED BY <2>1, <2>2
<1>4. ASSUME o \in (Program.once \ Program.flagged) \cup Program.modes PROVE Stored(r) # <<>>
  <2>1. o \notin Program.pushed /\ (o \in Program.lists => o = "--cargo-nextest-argv")
    BY <1>1, <1>4 DEF OptionKinds
  <2>2. Stored(r) = FieldOf(Program, r)
    BY <2>1 DEF Stored
  <2>3. CASE o \in Program.flags \/ o = "--cargo-nextest-argv"
    <3>1. <<Text(o)>> # <<>> /\ <<r.values>> # <<>>
      OBVIOUS
    <3> QED BY <2>2, <2>3, <3>1 DEF FieldOf
  <2>4. CASE o \notin Program.flags /\ o # "--cargo-nextest-argv"
    <3>1. Len(r.values) = 1
      BY <1>1, <2>1, <2>4, FitsIsWanted
    <3>2. r.values \in Seq(FieldValues)
      BY <1>2
    <3>3. r.values # <<>>
      BY ONLY <3>1, <3>2, OneIsSome
    <3> QED BY <2>2, <2>4, <3>3 DEF FieldOf
  <2> QED BY <2>3, <2>4
<1>5. ASSUME o \in Program.pushed PROVE Range(Stored(r)) = Range(given[o]) \cup Range(r.values)
  <2>1. Stored(r) = given[o] \o r.values
    BY <1>5 DEF Stored
  <2> QED BY <1>2, <2>1, RangeOfJoined
<1> QED BY <1>3, <1>4, <1>5

\* Reading a field's round.
LEMMA ReadFieldKeeps ==
  ASSUME AdapterInv, NEW r \in Rounds[program], ReadField(r)
  PROVE  AdapterInv'
<1> DEFINE o == r.option
           n == Len(rounds) + 1
<1>1. /\ outcome = "reading" /\ outcome' = "reading" /\ program' = program /\ Program' = Program
      /\ rounds' = Append(rounds, r) /\ Takeable(r) /\ RoundFits(Program, r) /\ o \in Known(Program) /\ o # "--suite-env"
      /\ suiteEnv' = suiteEnv /\ given' = [given EXCEPT ![o] = Stored(r)]
      /\ seen' = seen \cup ({o} \cap Program.flagged)
  BY DEF ReadField, Round, Takeable, RoundFits, Program
<1>2. /\ GivenAsRead(Program, rounds) /\ Remembered /\ TypeOptions /\ OptionKinds(Program) /\ SoundRounds(Program, rounds)
  BY <1>1, ProgramsKinds DEF AdapterInv, TypeOptions, Program
<1>3. OneMore(rounds, r, rounds') /\ rounds' \in Seq(Rounds[program])
  BY <1>1, <1>2, AppendIsOneMore DEF TypeOptions
<1>4. TypeOptions'
  <2>1. Stored(r) \in Seq(FieldValues)
    BY <1>1, <1>2, StoredIsTyped
  <2>2. given' \in [Known(Program) -> Seq(FieldValues)]
    BY <1>1, <1>2, <2>1 DEF TypeOptions
  <2> QED BY <1>1, <1>2, <1>3, <2>2 DEF TypeOptions
<1>5. SoundRounds(Program, rounds')
  <2>1. FitsBehind(Program, rounds, r)
    BY <1>1, TakeableFits
  <2> QED BY <1>2, <1>3, <2>1, SoundOneMore
<1>6. /\ given'[o] = Stored(r)
      /\ \A q \in Known(Program) : q # o => given'[q] = given[q]
  BY <1>1, <1>2 DEF TypeOptions
<1>7. /\ \A q : RoundsOf(rounds', q) = RoundsOf(rounds, q) \cup (IF o = q THEN {n} ELSE {})
      /\ \A i \in DOMAIN rounds : LastOf(rounds', i) => LastOf(rounds, i) /\ o # rounds[i].option
  BY <1>3, OptionsOfOneMore
<1>8. /\ rounds'[n] = r /\ n \in DOMAIN rounds'
      /\ \A i \in DOMAIN rounds : rounds'[i] = rounds[i]
      /\ \A i \in DOMAIN rounds' : i \in DOMAIN rounds \/ i = n
  BY <1>3 DEF OneMore
<1>9. /\ o \notin Program.all => Stored(r) = FieldOf(Program, r)
      /\ o \in (Program.once \ Program.flagged) \cup Program.modes => Stored(r) # <<>>
      /\ o \in Program.all \cap Program.pushed => Range(Stored(r)) = Range(given[o]) \cup Range(r.values)
  BY <1>1, StoredIsKept
<1>10. GivenAsRead(Program, rounds)'
  <2>1. ASSUME NEW q \in Known(Program), given'[q] # <<>> PROVE RoundsOf(rounds', q) # {}
    <3>1. CASE q = o
      BY <1>7, <3>1
    <3>2. CASE q # o
      BY <1>2, <1>6, <1>7, <2>1, <3>2 DEF GivenAsRead
    <3> QED BY <3>1, <3>2
  <2>2. ASSUME NEW i \in DOMAIN rounds', rounds'[i].option \notin Program.all, LastOf(rounds', i)
        PROVE  given'[rounds'[i].option] = FieldOf(Program, rounds'[i])
    <3>1. CASE i = n
      BY <1>6, <1>8, <1>9, <2>2, <3>1
    <3>2. CASE i \in DOMAIN rounds
      <4>1. rounds'[i] = rounds[i] /\ LastOf(rounds, i) /\ o # rounds[i].option
        BY <1>7, <1>8, <2>2, <3>2
      <4>2. rounds[i].option \in Known(Program)
        BY <1>2, <3>2 DEF SoundRounds, RoundFits
      <4>3. given[rounds[i].option] = FieldOf(Program, rounds[i])
        BY <1>2, <2>2, <3>2, <4>1 DEF GivenAsRead
      <4> QED BY <1>6, <4>1, <4>2, <4>3
    <3> QED BY <1>8, <3>1, <3>2
  <2>3. ASSUME NEW q \in Program.all \cap Program.pushed
        PROVE  Range(given'[q]) = UNION {Range(rounds'[i].values) : i \in RoundsOf(rounds', q)}
    <3>1. /\ Range(given[q]) = UNION {Range(rounds[i].values) : i \in RoundsOf(rounds, q)}
          /\ q \in Known(Program)
      BY <1>2 DEF GivenAsRead, Known
    <3>2. \A i \in RoundsOf(rounds, q) : rounds'[i] = rounds[i]
      BY <1>8 DEF RoundsOf
    <3>3. CASE q = o
      <4>1. RoundsOf(rounds', q) = RoundsOf(rounds, q) \cup {n}
        BY <1>7, <3>3
      <4>2. UNION {Range(rounds'[i].values) : i \in RoundsOf(rounds', q)}
              = (UNION {Range(rounds'[i].values) : i \in RoundsOf(rounds, q)}) \cup Range(rounds'[n].values)
        BY <4>1
      <4>3. UNION {Range(rounds'[i].values) : i \in RoundsOf(rounds, q)} = UNION {Range(rounds[i].values) : i \in RoundsOf(rounds, q)}
        BY <3>2
      <4> QED BY <1>6, <1>8, <1>9, <3>1, <3>3, <4>2, <4>3
    <3>4. CASE q # o
      <4>1. RoundsOf(rounds', q) = RoundsOf(rounds, q)
        BY <1>7, <3>4
      <4> QED BY <1>6, <3>1, <3>2, <3>4, <4>1
    <3> QED BY <3>3, <3>4
  <2>4. suiteEnv' = {rounds'[i].values : i \in RoundsOf(rounds', "--suite-env")}
    <3>1. RoundsOf(rounds', "--suite-env") = RoundsOf(rounds, "--suite-env")
      BY <1>1, <1>7
    <3>2. \A i \in RoundsOf(rounds, "--suite-env") : rounds'[i] = rounds[i]
      BY <1>8 DEF RoundsOf
    <3>3. suiteEnv = {rounds[i].values : i \in RoundsOf(rounds, "--suite-env")}
      BY <1>2 DEF GivenAsRead
    <3> QED BY <1>1, <3>1, <3>2, <3>3
  <2> QED BY <1>1, <2>1, <2>2, <2>3, <2>4 DEF GivenAsRead
<1>11. Remembered'
  <2>1. \A q \in Program.flagged : q \in seen' <=> RoundsOf(rounds', q) # {}
    BY <1>1, <1>2, <1>7 DEF Remembered
  <2>2. ASSUME NEW q \in (Program.once \ Program.flagged) \cup Program.modes, RoundsOf(rounds', q) # {} PROVE given'[q] # <<>>
    <3>1. q \in Known(Program)
      BY DEF Known
    <3>2. CASE q = o
      BY <1>6, <1>9, <3>2
    <3>3. CASE q # o
      BY <1>2, <1>6, <1>7, <2>2, <3>1, <3>3 DEF Remembered
    <3> QED BY <3>2, <3>3
  <2> QED BY <1>1, <2>1, <2>2 DEF Remembered
<1> QED BY <1>1, <1>4, <1>5, <1>10, <1>11 DEF AdapterInv
\* Reading a suite variable's round.
LEMMA ReadSuiteVariableKeeps ==
  ASSUME AdapterInv, NEW r \in Rounds[program], ReadSuiteVariable(r)
  PROVE  AdapterInv'
<1> DEFINE n == Len(rounds) + 1
           SE == "--suite-env"
<1>1. /\ outcome = "reading" /\ outcome' = "reading" /\ program' = program /\ Program' = Program
      /\ rounds' = Append(rounds, r) /\ Takeable(r) /\ r.option = SE /\ SE \in Known(Program)
      /\ suiteEnv' = suiteEnv \cup {r.values} /\ given' = given /\ seen' = seen
  BY DEF ReadSuiteVariable, Round, Takeable, RoundFits, Program
<1>2. /\ GivenAsRead(Program, rounds) /\ Remembered /\ TypeOptions /\ OptionKinds(Program) /\ SoundRounds(Program, rounds)
  BY <1>1, ProgramsKinds DEF AdapterInv, TypeOptions, Program
<1>3. OneMore(rounds, r, rounds') /\ rounds' \in Seq(Rounds[program])
  BY <1>1, <1>2, AppendIsOneMore DEF TypeOptions
<1>4. TypeOptions'
  BY <1>1, <1>2, <1>3 DEF TypeOptions
<1>5. SoundRounds(Program, rounds')
  <2>1. FitsBehind(Program, rounds, r)
    BY <1>1, TakeableFits
  <2> QED BY <1>2, <1>3, <2>1, SoundOneMore
<1>6. /\ \A q : RoundsOf(rounds', q) = RoundsOf(rounds, q) \cup (IF SE = q THEN {n} ELSE {})
      /\ \A i \in DOMAIN rounds : LastOf(rounds', i) => LastOf(rounds, i)
  BY <1>1, <1>3, OptionsOfOneMore
<1>7. /\ rounds'[n] = r
      /\ \A i \in DOMAIN rounds : rounds'[i] = rounds[i]
      /\ \A i \in DOMAIN rounds' : i \in DOMAIN rounds \/ i = n
  BY <1>3 DEF OneMore
<1>8. SE \in Program.all /\ SE \notin Program.pushed /\ SE \notin Program.once \cup Program.modes \cup Program.flagged
  BY <1>1, <1>2 DEF OptionKinds
<1>9. GivenAsRead(Program, rounds)'
  <2>1. \A q \in Known(Program) : given[q] # <<>> => RoundsOf(rounds', q) # {}
    BY <1>2, <1>6 DEF GivenAsRead
  <2>2. ASSUME NEW i \in DOMAIN rounds', rounds'[i].option \notin Program.all, LastOf(rounds', i)
        PROVE  given[rounds'[i].option] = FieldOf(Program, rounds'[i])
    <3>1. i \in DOMAIN rounds
      BY <1>1, <1>7, <1>8, <2>2
    <3>2. rounds'[i] = rounds[i] /\ LastOf(rounds, i)
      BY <1>6, <1>7, <2>2, <3>1
    <3> QED BY <1>2, <2>2, <3>1, <3>2 DEF GivenAsRead
  <2>3. ASSUME NEW q \in Program.all \cap Program.pushed
        PROVE  Range(given[q]) = UNION {Range(rounds'[i].values) : i \in RoundsOf(rounds', q)}
    <3>1. Range(given[q]) = UNION {Range(rounds[i].values) : i \in RoundsOf(rounds, q)}
      BY <1>2 DEF GivenAsRead
    <3>2. \A i \in RoundsOf(rounds, q) : rounds'[i] = rounds[i]
      BY <1>7 DEF RoundsOf
    <3>3. RoundsOf(rounds', q) = RoundsOf(rounds, q)
      BY <1>6, <1>8
    <3> QED BY <3>1, <3>2, <3>3
  <2>4. suiteEnv' = {rounds'[i].values : i \in RoundsOf(rounds', SE)}
    <3>1. RoundsOf(rounds', SE) = RoundsOf(rounds, SE) \cup {n}
      BY <1>6
    <3>2. \A i \in RoundsOf(rounds, SE) : rounds'[i] = rounds[i]
      BY <1>7 DEF RoundsOf
    <3>3. suiteEnv = {rounds[i].values : i \in RoundsOf(rounds, SE)}
      BY <1>2 DEF GivenAsRead
    <3>4. {rounds'[i].values : i \in RoundsOf(rounds', SE)} = {rounds'[i].values : i \in RoundsOf(rounds, SE)} \cup {rounds'[n].values}
      BY <3>1
    <3>5. {rounds'[i].values : i \in RoundsOf(rounds, SE)} = {rounds[i].values : i \in RoundsOf(rounds, SE)}
      BY <3>2
    <3> QED BY <1>1, <1>7, <3>3, <3>4, <3>5
  <2> QED BY <1>1, <2>1, <2>2, <2>3, <2>4 DEF GivenAsRead
<1>10. Remembered'
  <2>1. \A q \in Program.flagged : RoundsOf(rounds', q) = RoundsOf(rounds, q)
    BY <1>6, <1>8
  <2>2. \A q \in (Program.once \ Program.flagged) \cup Program.modes : RoundsOf(rounds', q) = RoundsOf(rounds, q)
    BY <1>6, <1>8
  <2> QED BY <1>1, <1>2, <2>1, <2>2 DEF Remembered
<1> QED BY <1>1, <1>4, <1>5, <1>9, <1>10 DEF AdapterInv

\* Refusing a round: the line is not sound with it.
LEMMA RefuseRoundKeeps ==
  ASSUME AdapterInv, NEW r \in Rounds[program], RefuseRound(r)
  PROVE  AdapterInv'
<1>1. /\ outcome = "reading" /\ outcome' = "refused" /\ program' = program /\ Program' = Program
      /\ rounds' = Append(rounds, r) /\ ~Takeable(r) /\ given' = given
  BY DEF RefuseRound, Round, Program
<1>2. TypeOptions /\ SoundRounds(Program, rounds)
  BY <1>1 DEF AdapterInv
<1>3. OneMore(rounds, r, rounds') /\ rounds' \in Seq(Rounds[program])
  BY <1>1, <1>2, AppendIsOneMore DEF TypeOptions
<1>4. ~FitsBehind(Program, rounds, r)
  BY <1>1, TakeableFits
<1>5. ~SoundRounds(Program, rounds')
  BY <1>2, <1>3, <1>4, SoundOneMore
<1>6. TypeOptions'
  BY <1>1, <1>2, <1>3 DEF TypeOptions
<1> QED BY <1>1, <1>5, <1>6 DEF AdapterInv

\* Every step keeps the invariant.
LEMMA OptionsNextKeeps == ASSUME AdapterInv, [OptionsNext]_optionVars PROVE AdapterInv'
<1>1. CASE AskHelp
  BY <1>1 DEF AskHelp, AdapterInv, TypeOptions, Program
<1>2. CASE \E r \in Rounds[program] : ReadSuiteVariable(r) \/ ReadField(r) \/ RefuseRound(r)
  BY <1>2, ReadSuiteVariableKeeps, ReadFieldKeeps, RefuseRoundKeeps
<1>3. CASE UNCHANGED optionVars
  <2>1. /\ program' = program /\ rounds' = rounds /\ given' = given /\ seen' = seen /\ suiteEnv' = suiteEnv
        /\ outcome' = outcome /\ Program' = Program
    BY <1>3 DEF optionVars, Program
  <2>2. TypeOptions' <=> TypeOptions
    BY <2>1 DEF TypeOptions
  <2>3. GivenAsRead(Program, rounds)' <=> GivenAsRead(Program, rounds)
    BY <2>1 DEF GivenAsRead
  <2>4. Remembered' <=> Remembered
    BY <2>1 DEF Remembered
  <2> QED BY <2>1, <2>2, <2>3, <2>4 DEF AdapterInv
<1> QED BY <1>1, <1>2, <1>3 DEF OptionsNext

\* The invariant says what a line means.
LEMMA AdapterInvMeans == ASSUME AdapterInv PROVE OptionsMeanOneThing
<1>1. outcome # "usage" => (outcome = "reading" <=> SoundRounds(Program, rounds))
  BY DEF AdapterInv, TypeOptions
<1>2. outcome = "reading" => GivenAsRead(Program, rounds)
  BY DEF AdapterInv
<1>3. ASSUME GoesOn, NEW i \in DOMAIN rounds, program # "contract", rounds[i].option \in Controls, LastOf(rounds, i)
      PROVE  SoundValue(rounds[i].option, rounds[i].values[1])
  <2> DEFINE o == rounds[i].option
  <2>1. /\ GivenAsRead(Program, rounds) /\ SoundRounds(Program, rounds) /\ OptionKinds(Program)
        /\ \A k \in DOMAIN given[o] : SoundValue(o, given[o][k])
    BY <1>3, ProgramsKinds DEF AdapterInv, TypeOptions, GoesOn, SoundControls, Program
  <2>2. o \notin Program.all \cup Program.flags \cup Program.lists \cup {"--cargo-nextest-argv", "--suite-env"}
    BY <1>3, <2>1 DEF OptionKinds
  <2>3. given[o] = rounds[i].values
    BY <1>3, <2>1, <2>2 DEF GivenAsRead, FieldOf
  <2>4. RoundFits(Program, rounds[i])
    BY <2>1 DEF SoundRounds
  <2>5. Len(rounds[i].values) = 1
    BY <2>2, <2>4, FitsIsWanted
  <2>6. rounds[i].values \in Seq([text : STRING, number : Int])
    BY RoundsAreTyped DEF AdapterInv, TypeOptions
  <2>7. 1 \in DOMAIN rounds[i].values
    BY <2>5, <2>6
  <2> QED BY <2>1, <2>3, <2>7
<1> QED BY <1>1, <1>2, <1>3 DEF OptionsMeanOneThing

\* What the loop makes of a line is always what its rounds mean without it.
THEOREM AdapterLineInvariance == OptionsSpec => []AdapterInv
<1>1. OptionsInit => AdapterInv
  BY OptionsInitHolds
<1>2. AdapterInv /\ [OptionsNext]_optionVars => AdapterInv'
  BY OptionsNextKeeps
<1> QED BY <1>1, <1>2, PTL DEF OptionsSpec

\* The order of the options of an adapter's program carries no meaning, and
\* it goes on with the values it was given (parse, parse_args).
THEOREM OptionsMeanTheSame == OptionsSpec => []OptionsMeanOneThing
<1>1. AdapterInv => OptionsMeanOneThing
  BY AdapterInvMeans
<1> QED BY <1>1, AdapterLineInvariance, PTL
===============================================================================
