----------------------------- MODULE ReportNames -----------------------------
(***************************************************************************)
(* The names the programs make out of identities.  The executor names a    *)
(* report after the test's ReportIdentity and reserves that name, folded   *)
(* to lower case, for the session (executor/src/report.rs); the runner     *)
(* names a test binary by its semantic id and the synthesized packages and *)
(* sources by generated names (adapter/src/manifest_v2.rs, nextest_v2.rs). *)
(* A name that two identities share would let one test's report or binary  *)
(* stand for another's.  A text is the sequence of its bytes.              *)
(***************************************************************************)
EXTENDS Integers, Sequences, SequencesExt, FiniteSets

\* The identities a session may meet: four texts each.
CONSTANT Identities

Digits == 48 .. 57
Upper == 65 .. 90
Lower == 97 .. 122
Unreserved == Digits \cup Upper \cup Lower \cup {45, 46, 95, 126}    \* - . _ ~
Percent == 37
Semicolon == 59
Equals == 61

HexDigit(n) == IF n < 10 THEN 48 + n ELSE 55 + n
LowerHexDigit(n) == IF n < 10 THEN 48 + n ELSE 87 + n
Escape(b) == IF b \in Unreserved THEN <<b>> ELSE <<Percent, HexDigit(b \div 16), HexDigit(b % 16)>>

\* encode: every byte that is not unreserved is percent-escaped.
Encode(bytes) == FlattenSeq([i \in DOMAIN bytes |-> Escape(bytes[i])])

\* The length of a text as u64::to_be_bytes writes it, below 65536 (a name
\* of 255 bytes has room for no longer text).
BigEndian(n) == [i \in 1 .. 8 |-> IF i = 8 THEN n % 256 ELSE IF i = 7 THEN (n \div 256) % 256 ELSE 0]

\* A bug the encoding could have: no length before a component.
TagOnly(tag, value) == <<tag>> \o value

\* One component of an identity: its tag, its length, its bytes.
Tagged(tag, value) == <<tag>> \o BigEndian(Len(value)) \o value

\* ReportIdentity::filename, of the cell, package, target and configuration;
\* "too long" above 255 bytes.
ConservativeNameMax == 255
Extension == <<46, 120, 109, 108>>
Labelled(identity) ==
  Tagged(99, identity[1]) \o Tagged(112, identity[2]) \o Tagged(116, identity[3]) \o Tagged(103, identity[4])
EncodedName(identity) == Encode(Labelled(identity)) \o Extension
Named(identity) == Len(EncodedName(identity)) <= ConservativeNameMax
Folded(b) == IF b \in Upper THEN b + 32 ELSE b
FoldCase(bytes) == [i \in DOMAIN bytes |-> Folded(bytes[i])]

\* reserve_key: two reports whose names differ only in case would be one
\* file on a file system that folds case.
ReserveKey(identity) == FoldCase(EncodedName(identity))

\* The names publish accepts.
PublishableName(name) == name # <<>> /\ Len(name) <= ConservativeNameMax /\ ~Contains(name, 47) /\ ~Contains(name, 0)
-------------------------------------------------------------------------------
\* semantic_id: "b2n1:p=<package>;o=<owner>;b=<binary>", all non-empty.
IdPrefix == <<98, 50, 110, 49, 58>>
FieldTags == << <<112, Equals>>, <<111, Equals>>, <<98, Equals>> >>
LabelledField(i, text) == FieldTags[i] \o Encode(text)
SemanticId(components) ==
  IdPrefix \o (LabelledField(1, components[1]) \o <<Semicolon>> \o LabelledField(2, components[2])
               \o <<Semicolon>> \o LabelledField(3, components[3]))
HasSemanticId(components) == \A i \in 1 .. 3 : components[i] # <<>>

\* Valid UTF-8: every lead byte is followed by its continuation bytes
\* (the restrictions on the second byte of three- and four-byte forms are
\* left out).
NeedAfter(need, b) ==
  CASE need = 0 /\ b < 128 -> 0
    [] need = 0 /\ b \in 194 .. 223 -> 1
    [] need = 0 /\ b \in 224 .. 239 -> 2
    [] need = 0 /\ b \in 240 .. 244 -> 3
    [] need > 0 /\ b \in 128 .. 191 -> need - 1
    [] OTHER -> -1
Utf8(bytes) == FoldLeft(NeedAfter, 0, bytes) = 0

HexValue(b) == IF b \in Digits THEN b - 48 ELSE IF b \in 65 .. 70 THEN b - 55 ELSE -1
Hex(s, i) == IF HexValue(s[i]) >= 0 /\ HexValue(s[i + 1]) >= 0 THEN HexValue(s[i]) * 16 + HexValue(s[i + 1]) ELSE -1

\* decode_semantic_id's inner loop, one byte of the field at a time; esc
\* holds the bytes of an escape that is not complete.
Decoding == [bytes |-> <<>>, esc |-> <<>>, ok |-> TRUE]
DecodeByte(d, b) ==
  IF d.esc # <<>> THEN
     LET escape == Append(d.esc, b)
     IN IF Len(escape) < 3 THEN [bytes |-> d.bytes, esc |-> escape, ok |-> d.ok]
        ELSE [bytes |-> Append(d.bytes, Hex(escape, 2)), esc |-> <<>>,
              ok |-> d.ok /\ Hex(escape, 2) >= 0 /\ Hex(escape, 2) \notin Unreserved]
  ELSE IF b = Percent THEN [bytes |-> d.bytes, esc |-> <<b>>, ok |-> d.ok]
  ELSE [bytes |-> Append(d.bytes, b), esc |-> <<>>, ok |-> d.ok /\ b \in Unreserved]

\* The first error ends the loop, so what follows a bad byte is not read.
ReadByte(d, b) == IF d.ok THEN DecodeByte(d, b) ELSE d
DecodeField(field) ==
  LET d[n \in 0 .. Len(field)] == IF n = 0 THEN Decoding ELSE ReadByte(d[n - 1], field[n])
      read == d[Len(field)]
  IN [ok |-> field # <<>> /\ read.ok /\ read.esc = <<>> /\ Utf8(read.bytes), bytes |-> read.bytes]

\* value.split(';').
SplitByte(parts, sep, b) ==
  IF b = sep THEN Append(parts, <<>>) ELSE [parts EXCEPT ![Len(parts)] = Append(@, b)]
SplitAt(s, sep) ==
  LET parts[n \in 0 .. Len(s)] == IF n = 0 THEN << <<>> >> ELSE SplitByte(parts[n - 1], sep, s[n])
  IN parts[Len(s)]

\* decode_semantic_id: three tagged fields, each canonical, and the id they
\* give is the value again.
DecodeSemanticId(value) ==
  LET fields == SplitAt(SubSeq(value, Len(IdPrefix) + 1, Len(value)), Semicolon)
      tagged == IsPrefix(IdPrefix, value) /\ Len(fields) = 3 /\ \A i \in 1 .. 3 : IsPrefix(FieldTags[i], fields[i])
      decoded == [i \in 1 .. 3 |-> DecodeField(SubSeq(fields[i], 3, Len(fields[i])))]
  IN IF tagged /\ \A i \in 1 .. 3 : decoded[i].ok
     THEN LET components == [i \in 1 .. 3 |-> decoded[i].bytes]
          IN [ok |-> SemanticId(components) = value, components |-> components]
     ELSE [ok |-> FALSE]

\* generated_name: "_xx" for every byte, underscores included.
GeneratedName(prefix, id) ==
  prefix \o FlattenSeq([i \in DOMAIN id |-> <<95, LowerHexDigit(id[i] \div 16), LowerHexDigit(id[i] % 16)>>])
-------------------------------------------------------------------------------
\* What the session's orchestrator has made of the identities it met.
VARIABLES reserved,    \* self.reserved: the keys taken
          named,       \* the identities that took one
          duplicates  \* the identities answered "duplicate configured target identity"

nameVars == <<reserved, named, duplicates>>

\* A text is UTF-8, as every String is.
IdentitiesAssumption ==
  \A identity \in Identities :
     identity \in Seq(Seq(0 .. 255)) /\ Len(identity) = 4 /\ \A i \in 1 .. 4 : Utf8(identity[i])
ASSUME IdentitiesAssumption

NamesInit == reserved = {} /\ named = {} /\ duplicates = {}

\* process, up to the reservation: an identity that has no name fails the
\* session and takes none.
Reserve(identity) ==
  /\ Named(identity)
  /\ ReserveKey(identity) \notin reserved
  /\ reserved' = reserved \cup {ReserveKey(identity)}
  /\ named' = named \cup {identity}
  /\ UNCHANGED duplicates
Duplicate(identity) ==
  /\ Named(identity)
  /\ ReserveKey(identity) \in reserved
  /\ duplicates' = duplicates \cup {identity}
  /\ UNCHANGED <<reserved, named>>

NamesNext == \E identity \in Identities : Reserve(identity) \/ Duplicate(identity)
NamesSpec == NamesInit /\ [][NamesNext]_nameVars
-------------------------------------------------------------------------------
\* Two identities: lists of components, four for a report, the first three
\* for a semantic id.  Different identities never share a report name; they
\* share a reservation when, and unless a text holds a NUL only when, they
\* differ in nothing but case; a semantic id and a generated name belong to
\* one identity; and a report name passes publish's own check (filename,
\* reserve_key, semantic_id, generated_name).
CaseVariants(one, other) == \A i \in 1 .. 4 : FoldCase(one[i]) = FoldCase(other[i])
NulFree(identity) == \A i \in 1 .. 4 : ~Contains(identity[i], 0)
NamesAreOwnFor(one, other) ==
  /\ PublishableName(EncodedName(one))
  /\ EncodedName(one) = EncodedName(other) => one = other
  /\ CaseVariants(one, other) => ReserveKey(one) = ReserveKey(other)
  /\ NulFree(one) /\ NulFree(other) /\ ReserveKey(one) = ReserveKey(other) => CaseVariants(one, other)
  /\ HasSemanticId(one) /\ HasSemanticId(other) =>
       /\ SemanticId(one) = SemanticId(other) => SubSeq(one, 1, 3) = SubSeq(other, 1, 3)
       /\ GeneratedName(<<>>, SemanticId(one)) = GeneratedName(<<>>, SemanticId(other)) => SemanticId(one) = SemanticId(other)
       /\ DecodeSemanticId(SemanticId(one)) = [ok |-> TRUE, components |-> SubSeq(one, 1, 3)]

\* Of the identities a session met, each has names of its own, no two that
\* took a reservation differ in nothing but case, and one is refused only for
\* the sake of one that took its key.
NamesAreOwn ==
  /\ \A one, other \in named \cup duplicates : NamesAreOwnFor(one, other)
  /\ \A one, other \in named : CaseVariants(one, other) => one = other
  /\ \A one \in duplicates : \E other \in named :
        ReserveKey(one) = ReserveKey(other) /\ (NulFree(one) /\ NulFree(other) => CaseVariants(one, other))
===============================================================================
