---------------------------- MODULE RecordTripProofs ----------------------------
(***************************************************************************)
(* What holds of any record on its way from Send to either reader.         *)
(*                                                                         *)
(* The argument: the names of a table are all different and short, so what *)
(* unString makes of the text of a value is the value if its type declares *)
(* it; hence msgFromWrap can read a record exactly if nothing in it is     *)
(* fatal, what it then reads is the record but for duplicates and nameless *)
(* values, and Validate says the same of both.  OnItsWay says which record *)
(* is where at each stage.                                                 *)
(***************************************************************************)
EXTENDS RecordTrip, SequenceTheorems, FiniteSetTheorems, TLAPS

\* The enumerations, by the names of their types.
Types == DOMAIN Declared

-------------------------------------------------------------------------------
(***************************************************************************)
(* Enumerations and their text.                                            *)
(***************************************************************************)

\* The tables have a name for each declared value and for no other; the names
\* are all different, and short enough for a header of one byte.
LEMMA Tables ==
  ASSUME NEW T \in Types
  PROVE  /\ Size(T) \in Nat /\ Declared[T] = 0..(Size(T) - 1)
         /\ \A i, j \in 0..(Size(T) - 1) : Slice(T, i) = Slice(T, j) => i = j
         /\ \A i \in 0..(Size(T) - 1) : TextLength(T, i) \in 0..31
         /\ Size(T) >= 3
<1> USE DEF Declared, Index, Size, TextLength
<1>1. \A i, j : Slice(T, i) = Slice(T, j) => Index[T][i + 1] = Index[T][j + 1]
  BY DEF Slice
<1>2. CASE T = "OperationType"
  BY <1>1, <1>2 DEF OperationType, OperationTypeIndex
<1>3. CASE T = "OperationCategory"
  BY <1>1, <1>3 DEF OperationCategory, OperationCategoryIndex
<1>4. CASE T = "OperationResult"
  BY <1>1, <1>4 DEF OperationResult, OperationResultIndex
<1>5. CASE T = "CallerIdentityType"
  BY <1>1, <1>5 DEF CallerIdentityType, CallerIdentityTypeIndex
<1> QED BY <1>2, <1>3, <1>4, <1>5 DEF Types

\* unString finds the value whose name it is given, and nothing else.
LEMMA UnStringFinds ==
  ASSUME NEW T \in Types
  PROVE  /\ \A i \in 0..(Size(T) - 1) : unString(T, Slice(T, i)) = i
         /\ \A text : (\A i \in 0..(Size(T) - 1) : text # Slice(T, i))
                        => unString(T, text) = Unknown
<1>1. ASSUME NEW i \in 0..(Size(T) - 1) PROVE unString(T, Slice(T, i)) = i
  <2>1. {j \in 0..(Size(T) - 1) : Slice(T, i) = Slice(T, j)} = {i}
    BY Tables
  <2>2. Min({i}) = i
    <3>1. i <= i
      BY Tables
    <3> QED BY <3>1 DEF Min
  <2> QED BY <2>1, <2>2 DEF unString
<1>2. ASSUME NEW text, \A i \in 0..(Size(T) - 1) : text # Slice(T, i)
      PROVE  unString(T, text) = Unknown
  <2>1. {j \in 0..(Size(T) - 1) : text = Slice(T, j)} = {}
    BY <1>2
  <2> QED BY <2>1 DEF unString
<1> QED BY <1>1, <1>2

\* Neither a number nor a header left over is the name of anything.
LEMMA NoName ==
  ASSUME NEW T, NEW i, NEW j, NEW text
  PROVE  /\ [of |-> T, number |-> i] # Slice(T, j)
         /\ [junk |-> text] # Slice(T, j)
<1>1. "from" \in DOMAIN Slice(T, j)
  BY DEF Slice
<1>2. "from" \notin DOMAIN [of |-> T, number |-> i] /\ "from" \notin DOMAIN [junk |-> text]
  OBVIOUS
<1> QED BY <1>1, <1>2

\* What either method makes of the text of a value.
LEMMA ValueReturns ==
  ASSUME NEW T \in Types, NEW i \in Uint16
  PROVE  /\ ViaJSON(T, MarshalMsgpack(T, i)) = Known(T, i)
         /\ UnmarshalMsgpack(T, MarshalMsgpack(T, i)) = Known(T, i)
<1> DEFINE b == MarshalMsgpack(T, i)
<1>1. b.text = String(T, i) /\ (b.header = 1 <=> TextLength(T, i) <= 31)
  BY DEF MarshalMsgpack, MsgpackString
<1>2. i \in Nat /\ Size(T) \in Nat /\ Declared[T] = 0..(Size(T) - 1)
  BY Tables DEF Uint16
<1>3. /\ ViaJSON(T, b) = unString(T, String(T, i))
      /\ b.header = 1 => UnmarshalMsgpack(T, b) = unString(T, String(T, i))
      /\ b.header # 1 => \E t : UnmarshalMsgpack(T, b) = unString(T, [junk |-> t])
  BY <1>1 DEF ViaJSON, Quoted, UnmarshalJSON, UnmarshalMsgpack
<1> HIDE DEF b
<1>4. CASE i < Size(T)
  <2>1. i \in 0..(Size(T) - 1)
    BY <1>2, <1>4
  <2>2. TextLength(T, i) \in 0..31 /\ String(T, i) = Slice(T, i)
    BY <1>4, <2>1, Tables DEF String
  <2>3. b.header = 1 /\ unString(T, Slice(T, i)) = i
    BY <1>1, <2>1, <2>2, UnStringFinds
  <2> QED BY <1>2, <1>3, <2>1, <2>2, <2>3 DEF Known, b
<1>5. CASE ~(i < Size(T))
  <2>1. i \notin Declared[T] /\ String(T, i) = [of |-> T, number |-> i]
    BY <1>2, <1>5 DEF String
  <2>2. unString(T, String(T, i)) = Unknown /\ \A t : unString(T, [junk |-> t]) = Unknown
    BY <2>1, NoName, UnStringFinds
  <2> QED BY <1>3, <2>1, <2>2 DEF Known, b
<1> QED BY <1>4, <1>5

-------------------------------------------------------------------------------
(***************************************************************************)
(* A record there and back.                                                *)
(***************************************************************************)

\* Compacting keeps what is in a slice, and nothing of no slice.
LEMMA CompactKeeps ==
  ASSUME NEW S, IsFiniteSet(S)
  PROVE  /\ Range(SetToSeq(S)) = S
         /\ DOMAIN SetToSeq(S) = 1..Cardinality(S)
         /\ SetToSeq(S) \in Seq(S)
<1> DEFINE n == Cardinality(S)
           F == {f \in [1..n -> S] : IsInjective(f)}
           q == SetToSeq(S)
<1>1. n \in Nat /\ ExistsBijection(1..n, S)
  BY FS_CardinalityType
<1>2. PICK g : g \in Bijection(1..n, S)
  BY <1>1 DEF ExistsBijection
<1>3. g \in [1..n -> S] /\ IsInjective(g)
  BY <1>2 DEF Bijection, Injection, IsInjective
<1>4. q \in [1..n -> S] /\ IsInjective(q)
  BY <1>3 DEF SetToSeq
<1>5. q \in Injection(1..n, S)
  BY <1>4 DEF Injection, IsInjective
<1>6. Cardinality(1..n) = n
  <2>1. Cardinality(1..n) = IF 1 > n THEN 0 ELSE n - 1 + 1
    BY <1>1, FS_Interval
  <2> QED BY <1>1, <2>1
<1>7. q \in Surjection(1..n, S)
  BY <1>5, <1>6, FS_Injection
<1>8. Range(q) = S
  BY <1>4, <1>7 DEF Surjection, Range
<1>9. q \in Seq(S)
  BY <1>1, <1>4 DEF Seq
<1> QED BY <1>4, <1>8, <1>9

\* What a slice holds is finite.
LEMMA RangeIsFinite ==
  ASSUME NEW S, NEW s \in Seq(S)
  PROVE  IsFiniteSet(Range(s)) /\ Range(s) \subseteq S
<1>1. /\ Len(s) \in Nat /\ DOMAIN s = 1..Len(s) /\ s \in [1..Len(s) -> S]
  BY LenProperties
<1>2. s \in Surjection(1..Len(s), Range(s))
  BY <1>1 DEF Surjection, Range
<1>3. IsFiniteSet(1..Len(s))
  BY <1>1, FS_Interval
<1>4. IsFiniteSet(Range(s))
  BY <1>2, <1>3, FS_Surjection
<1> QED BY <1>1, <1>4 DEF Range

\* The fields neither encoding nor decoding touches.
Plain == {"tree", "name", "categoryDescription", "resultDescription", "accessLevel",
          "agent", "targets", "custom"}

\* Encoded, field by field.
IsEncoded(rec, e) ==
  /\ DOMAIN e = DOMAIN Empty
  /\ \A f \in Plain : e[f] = rec[f]
  /\ e.categories = SetToSeq({MarshalMsgpack("OperationCategory", c) :
                                c \in Range(rec.categories)})
  /\ e.levels = SetToSeq(Range(rec.levels))
  /\ e.opType = MarshalMsgpack("OperationType", rec.opType)
  /\ e.result = MarshalMsgpack("OperationResult", rec.result)
  /\ e.identities = {<<MarshalMsgpack("CallerIdentityType", t), rec.identities[t]>> :
                       t \in DOMAIN rec.identities}
  /\ e.ip = AddrText(rec.ip)

\* Decoded, field by field.
IsDecoded(e, d) ==
  LET Type(p) == ViaJSON("CallerIdentityType", p[1])
  IN  /\ DOMAIN d = DOMAIN Empty
      /\ \A f \in Plain \cup {"ip", "levels"} : d[f] = e[f]
      /\ d.categories = [i \in DOMAIN e.categories |->
                           ViaJSON("OperationCategory", e.categories[i])]
      /\ d.opType = ViaJSON("OperationType", e.opType)
      /\ d.result = ViaJSON("OperationResult", e.result)
      /\ d.identities = [t \in {Type(p) : p \in e.identities} |->
                           (CHOOSE p \in e.identities : Type(p) = t)[2]]

\* The two operators change the fields they name and no other.
LEMMA Fields ==
  /\ \A rec : DOMAIN rec = DOMAIN Empty => IsEncoded(rec, Encoded(rec))
  /\ \A e : DOMAIN e = DOMAIN Empty => IsDecoded(e, Decoded(e))
<1>1. ASSUME NEW rec, DOMAIN rec = DOMAIN Empty PROVE IsEncoded(rec, Encoded(rec))
  <2>1. DOMAIN rec = {"tree", "name", "categories", "categoryDescription", "opType", "result",
                      "resultDescription", "accessLevel", "agent", "identities", "ip",
                      "levels", "targets", "custom"}
    BY <1>1 DEF Empty
  <2> QED BY <2>1 DEF IsEncoded, Encoded, Plain, Empty
<1>2. ASSUME NEW e, DOMAIN e = DOMAIN Empty PROVE IsDecoded(e, Decoded(e))
  <2>1. DOMAIN e = {"tree", "name", "categories", "categoryDescription", "opType", "result",
                    "resultDescription", "accessLevel", "agent", "identities", "ip",
                    "levels", "targets", "custom"}
    BY <1>2 DEF Empty
  <2> QED BY <2>1 DEF IsDecoded, Decoded, Plain, Empty
<1> QED BY <1>1, <1>2

\* A uint16 is a natural number.
LEMMA Uint16IsNat == Uint16 \subseteq Nat
BY DEF Uint16

\* Different values have different texts.
LEMMA TextsDiffer ==
  ASSUME NEW T \in Types, NEW i \in Uint16, NEW j \in Uint16,
         MarshalMsgpack(T, i) = MarshalMsgpack(T, j)
  PROVE  i = j
<1>1. String(T, i) = String(T, j)
  <2>1. MarshalMsgpack(T, i).text = String(T, i) /\ MarshalMsgpack(T, j).text = String(T, j)
    BY DEF MarshalMsgpack, MsgpackString
  <2> QED BY <2>1
<1>2. i \in Nat /\ j \in Nat /\ Size(T) \in Nat
  BY Tables, Uint16IsNat
<1>3. CASE i < Size(T) /\ j < Size(T)
  <2>1. i \in 0..(Size(T) - 1) /\ j \in 0..(Size(T) - 1)
    BY <1>2, <1>3
  <2>2. Slice(T, i) = Slice(T, j)
    BY <1>1, <1>3 DEF String
  <2> QED BY <2>1, <2>2, Tables
<1>4. CASE ~(i < Size(T)) /\ ~(j < Size(T))
  <2>1. [of |-> T, number |-> i] = [of |-> T, number |-> j]
    BY <1>1, <1>4 DEF String
  <2> QED BY <2>1
<1>5. CASE (i < Size(T)) # (j < Size(T))
  <2>1. \E x, y : [of |-> T, number |-> x] = Slice(T, y)
    BY <1>1, <1>5 DEF String
  <2> QED BY <2>1, NoName
<1> QED BY <1>3, <1>4, <1>5

\* The values of a slice of categories, whichever method reads them.
LEMMA CategoriesReturn ==
  ASSUME NEW R, IsFiniteSet(R), R \subseteq Uint16, NEW cs,
         LET q == SetToSeq({MarshalMsgpack("OperationCategory", c) : c \in R})
         IN  \/ cs = [i \in DOMAIN q |-> ViaJSON("OperationCategory", q[i])]
             \/ cs = [i \in DOMAIN q |-> UnmarshalMsgpack("OperationCategory", q[i])]
  PROVE  /\ \E n \in Nat : DOMAIN cs = 1..n
         /\ Range(cs) = {Known("OperationCategory", c) : c \in R}
<1> DEFINE Text(c) == MarshalMsgpack("OperationCategory", c)
           K(c) == Known("OperationCategory", c)
           codes == {Text(c) : c \in R}
           q == SetToSeq(codes)
<1>1. "OperationCategory" \in Types
  BY DEF Types, Declared
<1>2. \A c \in R : /\ ViaJSON("OperationCategory", Text(c)) = K(c)
                  /\ UnmarshalMsgpack("OperationCategory", Text(c)) = K(c)
  BY <1>1, ValueReturns
<1>3. /\ DOMAIN cs = DOMAIN q
      /\ \A i \in DOMAIN q : \A c \in R : q[i] = Text(c) => cs[i] = K(c)
  BY <1>2
<1> HIDE DEF Text, K
<1>4. IsFiniteSet(codes)
  <2>1. [c \in R |-> Text(c)] \in Surjection(R, codes)
    BY DEF Surjection
  <2> QED BY <2>1, FS_Surjection
<1>5. Range(q) = codes /\ DOMAIN q = 1..Cardinality(codes) /\ Cardinality(codes) \in Nat
  BY <1>4, CompactKeeps, FS_CardinalityType
<1> HIDE DEF q
<1>6. Range(cs) = {K(c) : c \in R}
  <2>1. ASSUME NEW i \in DOMAIN cs PROVE cs[i] \in {K(c) : c \in R}
    <3>1. q[i] \in codes
      BY <1>3, <1>5 DEF Range
    <3> QED BY <1>3, <3>1
  <2>2. ASSUME NEW c \in R PROVE \E i \in DOMAIN cs : cs[i] = K(c)
    <3>1. \E i \in DOMAIN q : q[i] = Text(c)
      BY <1>5 DEF Range
    <3> QED BY <1>3, <3>1
  <2> QED BY <2>1, <2>2 DEF Range
<1> QED BY <1>3, <1>5, <1>6 DEF K

\* The types of a record's identities, by either method.
LEMMA TypesReturn ==
  ASSUME NEW rec, IsRecord(rec), NEW t \in DOMAIN rec.identities
  PROVE  LET b == MarshalMsgpack("CallerIdentityType", t)
         IN  /\ ViaJSON("CallerIdentityType", b) = Known("CallerIdentityType", t)
             /\ UnmarshalMsgpack("CallerIdentityType", b) = Known("CallerIdentityType", t)
<1>1. "CallerIdentityType" \in Types /\ t \in Uint16
  BY DEF Types, Declared, IsRecord
<1> QED BY <1>1, ValueReturns

\* Compacting the access levels loses none.
LEMMA LevelsReturn ==
  ASSUME NEW rec, IsRecord(rec)
  PROVE  LET levels == SetToSeq(Range(rec.levels))
         IN  levels \in Seq(STRING) /\ Range(levels) = Range(rec.levels)
<1> DEFINE L == Range(rec.levels)
<1>1. IsFiniteSet(L) /\ L \subseteq STRING
  BY RangeIsFinite DEF IsRecord
<1> HIDE DEF L
<1>2. Range(SetToSeq(L)) = L /\ SetToSeq(L) \in Seq(L)
  BY <1>1, CompactKeeps
<1>3. SetToSeq(L) \in Seq(STRING)
  <2> DEFINE q == SetToSeq(L)
  <2>1. Len(q) \in Nat /\ q \in [1..Len(q) -> L]
    BY <1>2, LenProperties
  <2> HIDE DEF q
  <2>2. q \in [1..Len(q) -> STRING]
    BY <1>1, <2>1
  <2> QED BY <2>1, <2>2 DEF Seq, q
<1> QED BY <1>2, <1>3 DEF L

\* No two types of a record's identities are read as the same.
Apart(rec) ==
  \A t, u \in DOMAIN rec.identities :
    Known("CallerIdentityType", t) = Known("CallerIdentityType", u) => t = u

\* msgFromWrap can read what Validate let through exactly if nothing in it is fatal.
LEMMA FatalIsFatal ==
  ASSUME NEW rec, IsRecord(rec), rec.ip # "invalid"
  PROVE  /\ JSONTakes(Encoded(rec)) /\ RecordTakes(Encoded(rec)) <=> ~FatalToServer(rec)
         /\ ~FatalToServer(rec) => Apart(rec)
<1> DEFINE e == Encoded(rec)
           ids == rec.identities
           Text(t) == MarshalMsgpack("CallerIdentityType", t)
           Type(p) == ViaJSON("CallerIdentityType", p[1])
           K(t) == Known("CallerIdentityType", t)
<1>1. IsEncoded(rec, e)
  BY Fields DEF IsRecord
<1> HIDE DEF e
<1>2. e.identities = {<<Text(t), ids[t]>> : t \in DOMAIN ids}
  BY <1>1 DEF IsEncoded
<1>3. Texts(e, {p[2] : p \in e.identities}) = Texts(rec, Range(ids))
  <2>1. {p[2] : p \in e.identities} = Range(ids)
    <3>1. {p[2] : p \in e.identities} = {<<Text(t), ids[t]>>[2] : t \in DOMAIN ids}
      BY <1>2
    <3> QED BY <3>1 DEF Range
  <2>2. Range(e.levels) = Range(rec.levels)
    BY <1>1, LevelsReturn DEF IsEncoded
  <2>3. /\ e.tree = rec.tree /\ e.name = rec.name /\ e.targets = rec.targets
        /\ e.categoryDescription = rec.categoryDescription
        /\ e.resultDescription = rec.resultDescription
        /\ e.accessLevel = rec.accessLevel /\ e.agent = rec.agent
    BY <1>1 DEF IsEncoded, Plain
  <2> QED BY <2>1, <2>2, <2>3 DEF Texts
<1>4. e.custom = rec.custom /\ Parses(e.ip)
  <2>1. e.custom = rec.custom /\ e.ip = AddrText(rec.ip)
    BY <1>1 DEF IsEncoded, Plain
  <2> QED BY <2>1 DEF IsRecord, Parses, AddrText
<1>5. (\A p, q \in e.identities : Type(p) = Type(q) => p = q) <=> Apart(rec)
  <2>1. \A t \in DOMAIN ids : Type(<<Text(t), ids[t]>>) = K(t)
    <3>1. \A t \in DOMAIN ids : ViaJSON("CallerIdentityType", Text(t)) = K(t)
      BY TypesReturn
    <3> QED BY <3>1
  <2>2. \A t, u \in DOMAIN ids : Text(t) = Text(u) => t = u
    <3>1. "CallerIdentityType" \in Types /\ DOMAIN ids \subseteq Uint16
      BY DEF Types, Declared, IsRecord
    <3> QED BY <3>1, TextsDiffer
  <2> HIDE DEF Text, Type
  <2>3. ASSUME \A p, q \in e.identities : Type(p) = Type(q) => p = q,
               NEW t \in DOMAIN ids, NEW u \in DOMAIN ids, K(t) = K(u)
        PROVE  t = u
    <3>1. <<Text(t), ids[t]>> = <<Text(u), ids[u]>>
      BY <1>2, <2>1, <2>3
    <3> QED BY <2>2, <3>1
  <2>4. ASSUME Apart(rec), NEW p \in e.identities, NEW q \in e.identities,
               Type(p) = Type(q)
        PROVE  p = q
    <3>1. PICK t \in DOMAIN ids : p = <<Text(t), ids[t]>>
      BY <1>2
    <3>2. PICK u \in DOMAIN ids : q = <<Text(u), ids[u]>>
      BY <1>2
    <3>3. K(t) = K(u)
      BY <2>1, <2>4, <3>1, <3>2
    <3>4. t = u
      BY <2>4, <3>3 DEF Apart
    <3> QED BY <3>1, <3>2, <3>4
  <2> QED BY <2>3, <2>4 DEF Apart
<1>6. JSONTakes(e) <=> "garbled" \notin Texts(rec, Range(ids)) /\ rec.custom # "nojson"
  BY <1>3, <1>4 DEF JSONTakes
<1>7. RecordTakes(e) <=> Apart(rec)
  BY <1>4, <1>5 DEF RecordTakes
<1> QED BY <1>6, <1>7 DEF FatalToServer, Apart, e

\* A record read from an encoded one is the record, but for duplicates and the
\* numbers of nameless values.
LEMMA RoundTrip ==
  ASSUME NEW rec, IsRecord(rec), Apart(rec)
  PROVE  LET d == Decoded(Encoded(rec))
         IN  /\ \A f \in Plain : d[f] = rec[f]
             /\ d.ip = AddrText(rec.ip)
             /\ d.levels \in Seq(STRING) /\ Range(d.levels) = Range(rec.levels)
             /\ d.opType = Known("OperationType", rec.opType)
             /\ d.result = Known("OperationResult", rec.result)
             /\ \E n \in Nat : DOMAIN d.categories = 1..n
             /\ Range(d.categories) =
                   {Known("OperationCategory", c) : c \in Range(rec.categories)}
             /\ DOMAIN d.identities =
                   {Known("CallerIdentityType", t) : t \in DOMAIN rec.identities}
             /\ \A t \in DOMAIN rec.identities :
                   d.identities[Known("CallerIdentityType", t)] = rec.identities[t]
<1> DEFINE e == Encoded(rec)
           d == Decoded(e)
           ids == rec.identities
           R == Range(rec.categories)
<1>a. /\ rec.categories \in Seq(Uint16) /\ rec.levels \in Seq(STRING)
      /\ rec.opType \in Uint16 /\ rec.result \in Uint16
      /\ DOMAIN ids \subseteq Uint16
  BY DEF IsRecord
<1>b. {"OperationType", "OperationCategory", "OperationResult", "CallerIdentityType"}
        \subseteq Types
  BY DEF Types, Declared
<1>c. IsEncoded(rec, e)
  BY Fields DEF IsRecord
<1>d. IsDecoded(e, d)
  BY <1>c, Fields DEF IsEncoded
<1> HIDE DEF e, d
<1>1. (\A f \in Plain : d[f] = rec[f]) /\ d.ip = AddrText(rec.ip)
  BY <1>c, <1>d DEF IsEncoded, IsDecoded
<1>2. d.levels \in Seq(STRING) /\ Range(d.levels) = Range(rec.levels)
  <2>1. d.levels = SetToSeq(Range(rec.levels))
    BY <1>c, <1>d DEF IsEncoded, IsDecoded
  <2> QED BY <2>1, LevelsReturn
<1>3. d.opType = Known("OperationType", rec.opType)
  <2>1. d.opType = ViaJSON("OperationType", MarshalMsgpack("OperationType", rec.opType))
    BY <1>c, <1>d DEF IsEncoded, IsDecoded
  <2> QED BY <1>a, <1>b, <2>1, ValueReturns
<1>4. d.result = Known("OperationResult", rec.result)
  <2>1. d.result = ViaJSON("OperationResult", MarshalMsgpack("OperationResult", rec.result))
    BY <1>c, <1>d DEF IsEncoded, IsDecoded
  <2> QED BY <1>a, <1>b, <2>1, ValueReturns
<1>5. /\ \E n \in Nat : DOMAIN d.categories = 1..n
      /\ Range(d.categories) = {Known("OperationCategory", c) : c \in R}
  <2>1. IsFiniteSet(R) /\ R \subseteq Uint16
    BY <1>a, RangeIsFinite
  <2>2. LET q == SetToSeq({MarshalMsgpack("OperationCategory", c) : c \in R})
        IN  d.categories = [i \in DOMAIN q |-> ViaJSON("OperationCategory", q[i])]
    BY <1>c, <1>d DEF IsEncoded, IsDecoded
  <2> HIDE DEF R
  <2> QED BY <2>1, <2>2, CategoriesReturn
<1>6. /\ DOMAIN d.identities = {Known("CallerIdentityType", t) : t \in DOMAIN ids}
      /\ \A t \in DOMAIN ids : d.identities[Known("CallerIdentityType", t)] = ids[t]
  <2> DEFINE Text(t) == MarshalMsgpack("CallerIdentityType", t)
             K(t) == Known("CallerIdentityType", t)
             Type(p) == ViaJSON("CallerIdentityType", p[1])
             pairs == {<<Text(t), ids[t]>> : t \in DOMAIN ids}
  <2>1. d.identities = [k \in {Type(p) : p \in pairs} |-> (CHOOSE p \in pairs : Type(p) = k)[2]]
    <3>1. e.identities = pairs
      BY <1>c DEF IsEncoded
    <3> QED BY <1>d, <3>1 DEF IsDecoded
  <2>2. \A t \in DOMAIN ids : Type(<<Text(t), ids[t]>>) = K(t)
    <3>1. \A t \in DOMAIN ids : ViaJSON("CallerIdentityType", Text(t)) = K(t)
      BY TypesReturn
    <3> QED BY <3>1
  <2>3. \A t, u \in DOMAIN ids : K(t) = K(u) => t = u
    BY DEF Apart
  <2> HIDE DEF Text, K, Type, ids
  <2>4. {Type(p) : p \in pairs} = {K(t) : t \in DOMAIN ids}
    BY <2>2
  <2>5. ASSUME NEW t \in DOMAIN ids
        PROVE  (CHOOSE p \in pairs : Type(p) = K(t))[2] = ids[t]
    <3> DEFINE p == CHOOSE p \in pairs : Type(p) = K(t)
    <3>1. \E x \in pairs : Type(x) = K(t)
      BY <2>2
    <3>2. p \in pairs /\ Type(p) = K(t)
      BY <3>1
    <3> HIDE DEF p
    <3>3. PICK u \in DOMAIN ids : p = <<Text(u), ids[u]>>
      BY <3>2
    <3>4. K(u) = K(t)
      BY <2>2, <3>2, <3>3
    <3>5. p[2] = ids[t]
      BY <2>3, <3>3, <3>4
    <3> QED BY <3>5 DEF p
  <2> DEFINE Of(k) == (CHOOSE p \in pairs : Type(p) = k)[2]
             found == d.identities
  <2>6. \A t \in DOMAIN ids : Of(K(t)) = ids[t]
    BY <2>5
  <2>7. found = [k \in {Type(p) : p \in pairs} |-> Of(k)]
    BY <2>1
  <2> HIDE DEF pairs, Of, found
  <2>8. found = [k \in {K(t) : t \in DOMAIN ids} |-> Of(k)]
    BY <2>4, <2>7
  <2>9. DOMAIN found = {K(t) : t \in DOMAIN ids} /\ \A t \in DOMAIN ids : found[K(t)] = ids[t]
    BY <2>6, <2>8
  <2> QED BY <2>9 DEF K, found
<1> HIDE DEF R, ids
<1> QED BY <1>1, <1>2, <1>3, <1>4, <1>5, <1>6 DEF R, ids, d, e

-------------------------------------------------------------------------------
(***************************************************************************)
(* Validate.                                                               *)
(***************************************************************************)

\* A set of naturals has a least element, which Min is.
LEMMA LeastNat ==
  ASSUME NEW S \in SUBSET Nat, S # {}
  PROVE  Min(S) \in S
<1> DEFINE R == OpToRel(<, Nat)
<1>1. PICK x \in S : \A y \in S : ~(<<y, x>> \in R)
  <2>1. IsWellFoundedOn(R, Nat)
    BY NatLessThanWellFounded
  <2> HIDE DEF R
  <2> QED BY <2>1, WFMin
<1>2. \A y \in S : ~(y < x)
  BY <1>1 DEF OpToRel
<1>3. \A y \in S : x <= y
  BY <1>2
<1> QED BY <1>3 DEF Min

\* A sequence of checks finds nothing if none of them does.
LEMMA FirstOfNone ==
  ASSUME NEW checks, DOMAIN checks \in SUBSET Nat
  PROVE  FirstOf(checks) = {} <=> \A i \in DOMAIN checks : checks[i] = {}
<1> DEFINE failed == {i \in DOMAIN checks : checks[i] # {}}
<1>1. failed # {} => Min(failed) \in failed
  BY LeastNat
<1>2. FirstOf(checks) = IF failed = {} THEN {} ELSE checks[Min(failed)]
  BY DEF FirstOf
<1>3. \A i : i \in failed <=> i \in DOMAIN checks /\ checks[i] # {}
  OBVIOUS
<1> HIDE DEF failed
<1> QED BY <1>1, <1>2, <1>3

\* So does one that is put together of two.
LEMMA FirstOfBoth ==
  ASSUME NEW S, NEW s \in Seq(S), NEW t \in Seq(S)
  PROVE  /\ s \o t \in Seq(S)
         /\ FirstOf(s \o t) = {} <=> FirstOf(s) = {} /\ FirstOf(t) = {}
<1>1. /\ Len(s) \in Nat /\ Len(t) \in Nat
      /\ DOMAIN s = 1..Len(s) /\ DOMAIN t = 1..Len(t)
  BY LenProperties
<1>2. /\ s \o t \in Seq(S) /\ DOMAIN (s \o t) = 1..(Len(s) + Len(t))
      /\ \A i \in 1..(Len(s) + Len(t)) :
           (s \o t)[i] = IF i <= Len(s) THEN s[i] ELSE t[i - Len(s)]
  <2>1. /\ s \o t \in Seq(S) /\ Len(s \o t) = Len(s) + Len(t)
        /\ \A i \in 1..(Len(s) + Len(t)) :
             (s \o t)[i] = IF i <= Len(s) THEN s[i] ELSE t[i - Len(s)]
    BY ConcatProperties
  <2> QED BY <2>1, LenProperties
<1>3. /\ FirstOf(s) = {} <=> \A i \in 1..Len(s) : s[i] = {}
      /\ FirstOf(t) = {} <=> \A i \in 1..Len(t) : t[i] = {}
      /\ FirstOf(s \o t) = {} <=> \A i \in 1..(Len(s) + Len(t)) : (s \o t)[i] = {}
  <2>1. \A k \in Nat : 1..k \in SUBSET Nat
    OBVIOUS
  <2>2. Len(s) + Len(t) \in Nat
    BY <1>1
  <2> QED BY <1>1, <1>2, <2>1, <2>2, FirstOfNone
<1> DEFINE l == Len(s)
           m == Len(t)
           u == s \o t
<1>4. /\ l \in Nat /\ m \in Nat
      /\ \A i \in 1..(l + m) : u[i] = IF i <= l THEN s[i] ELSE t[i - l]
  BY <1>1, <1>2
<1> HIDE DEF l, m, u
<1>5. (\A i \in 1..(l + m) : u[i] = {}) <=> (\A i \in 1..l : s[i] = {}) /\ (\A i \in 1..m : t[i] = {})
  <2>1. ASSUME \A i \in 1..(l + m) : u[i] = {}
        PROVE  (\A i \in 1..l : s[i] = {}) /\ (\A i \in 1..m : t[i] = {})
    <3>1. ASSUME NEW i \in 1..l PROVE s[i] = {}
      <4>1. i \in 1..(l + m) /\ i <= l
        BY <1>4
      <4> QED BY <1>4, <2>1, <4>1
    <3>2. ASSUME NEW i \in 1..m PROVE t[i] = {}
      <4>1. i + l \in 1..(l + m) /\ ~(i + l <= l) /\ (i + l) - l = i
        BY <1>4
      <4> QED BY <1>4, <2>1, <4>1
    <3> QED BY <3>1, <3>2
  <2>2. ASSUME \A i \in 1..l : s[i] = {}, \A i \in 1..m : t[i] = {}, NEW i \in 1..(l + m)
        PROVE  u[i] = {}
    <3>1. i <= l \/ (~(i <= l) /\ i - l \in 1..m)
      BY <1>4
    <3>2. i <= l => i \in 1..l
      BY <1>4
    <3> QED BY <1>4, <2>2, <3>1, <3>2
  <2> QED BY <2>1, <2>2
<1> QED BY <1>2, <1>3, <1>5 DEF l, m, u

\* What Validate asks of a record, all of it at once.
Passes(rec) ==
  /\ rec.tree # "" /\ rec.name # "" /\ rec.categories # <<>>
  /\ ~(OCOther \in Range(rec.categories) /\ rec.categoryDescription = "")
  /\ ~(rec.result = Failure /\ rec.resultDescription = "")
  /\ rec.accessLevel # "" /\ rec.agent # "" /\ rec.identities # <<>>
  /\ \A t \in DOMAIN rec.identities :
       rec.identities[t] # <<>> /\ IdentityLoop(rec.identities[t]) = {}
  /\ rec.ip \notin {"invalid", "unspecified", "loopback", "multicast"}
  /\ rec.levels # <<>> /\ "blank" \notin Range(rec.levels)
  /\ rec.targets # <<>>
  /\ \A k \in DOMAIN rec.targets : k # "blank" /\ TargetLoop(rec.targets[k]) = {}

\* A record validates if it passes every check.
LEMMA ValidatesIs == ASSUME NEW rec PROVE Validates(rec) <=> Passes(rec)
<1> DEFINE OfIds == UNION {IF rec.identities[t] = <<>> THEN {"identity of type"}
                           ELSE IdentityLoop(rec.identities[t]) : t \in DOMAIN rec.identities}
           OfTargets == UNION {IF k = "blank" THEN {"target resource type"}
                               ELSE TargetLoop(rec.targets[k]) : k \in DOMAIN rec.targets}
           a == <<When(rec.tree = "", "service tree ID"),
                  When(rec.name = "", "operation name"),
                  When(rec.categories = <<>>, "category"),
                  When(OCOther \in Range(rec.categories) /\ rec.categoryDescription = "",
                       "category description"),
                  When(rec.result = Failure /\ rec.resultDescription = "", "result description"),
                  When(rec.accessLevel = "", "access level"),
                  When(rec.agent = "", "caller agent"),
                  When(rec.identities = <<>>, "caller identity"),
                  OfIds>>
           b == AddrChecks(rec)
           c == <<When(rec.levels = <<>>, "caller access level"),
                  When("blank" \in Range(rec.levels), "caller access level is empty"),
                  When(rec.targets = <<>>, "target resource"),
                  OfTargets>>
           S == Range(a) \cup Range(b) \cup Range(c)
<1>1. OfIds = {} <=> \A t \in DOMAIN rec.identities :
        rec.identities[t] # <<>> /\ IdentityLoop(rec.identities[t]) = {}
  <2>1. OfIds = {} <=> \A t \in DOMAIN rec.identities :
          (IF rec.identities[t] = <<>> THEN {"identity of type"}
           ELSE IdentityLoop(rec.identities[t])) = {}
    OBVIOUS
  <2> HIDE DEF OfIds
  <2> QED BY <2>1
<1>2. OfTargets = {} <=> \A k \in DOMAIN rec.targets :
        k # "blank" /\ TargetLoop(rec.targets[k]) = {}
  <2>1. OfTargets = {} <=> \A k \in DOMAIN rec.targets :
          (IF k = "blank" THEN {"target resource type"} ELSE TargetLoop(rec.targets[k])) = {}
    OBVIOUS
  <2> HIDE DEF OfTargets
  <2> QED BY <2>1
<1>3. Checks(rec) = (a \o b) \o c
  BY DEF Checks
<1> HIDE DEF OfIds, OfTargets
<1>4. DOMAIN a = 1..9 /\ DOMAIN b = 1..4 /\ DOMAIN c = 1..4
  BY DEF AddrChecks
<1>5. \A broken, e : When(broken, e) = {} <=> ~broken
  BY DEF When
<1>6. FirstOf(a) = {} <=>
        /\ rec.tree # "" /\ rec.name # "" /\ rec.categories # <<>>
        /\ ~(OCOther \in Range(rec.categories) /\ rec.categoryDescription = "")
        /\ ~(rec.result = Failure /\ rec.resultDescription = "")
        /\ rec.accessLevel # "" /\ rec.agent # "" /\ rec.identities # <<>>
        /\ OfIds = {}
  <2>1. FirstOf(a) = {} <=> \A i \in 1..9 : a[i] = {}
    <3> HIDE DEF a
    <3> QED BY <1>4, FirstOfNone
  <2>2. (\A i \in 1..9 : a[i] = {}) <=>
          /\ a[1] = {} /\ a[2] = {} /\ a[3] = {} /\ a[4] = {} /\ a[5] = {}
          /\ a[6] = {} /\ a[7] = {} /\ a[8] = {} /\ a[9] = {}
    <3> HIDE DEF a
    <3> QED OBVIOUS
  <2> QED BY <1>5, <2>1, <2>2
<1>7. FirstOf(b) = {} <=> rec.ip \notin {"invalid", "unspecified", "loopback", "multicast"}
  <2>1. FirstOf(b) = {} <=> b[1] = {} /\ b[2] = {} /\ b[3] = {} /\ b[4] = {}
    <3> HIDE DEF b
    <3> QED BY <1>4, FirstOfNone
  <2> QED BY <1>5, <2>1 DEF AddrChecks
<1>8. FirstOf(c) = {} <=> /\ rec.levels # <<>> /\ "blank" \notin Range(rec.levels)
                          /\ rec.targets # <<>> /\ OfTargets = {}
  <2>1. FirstOf(c) = {} <=> c[1] = {} /\ c[2] = {} /\ c[3] = {} /\ c[4] = {}
    <3> HIDE DEF c
    <3> QED BY <1>4, FirstOfNone
  <2> QED BY <1>5, <2>1
<1>9. a \in Seq(S) /\ b \in Seq(S) /\ c \in Seq(S)
  <2>1. a \in [1..9 -> S] /\ b \in [1..4 -> S] /\ c \in [1..4 -> S]
    <3>1. a = [i \in 1..9 |-> a[i]] /\ b = [i \in 1..4 |-> b[i]] /\ c = [i \in 1..4 |-> c[i]]
      BY DEF AddrChecks
    <3> HIDE DEF a, b, c
    <3> QED BY <1>4, <3>1 DEF Range
  <2> HIDE DEF a, b, c, S
  <2>2. \A n \in Nat : \A f \in [1..n -> S] : f \in Seq(S)
    BY DEF Seq
  <2>3. 9 \in Nat /\ 4 \in Nat
    OBVIOUS
  <2> QED BY <2>1, <2>2, <2>3
<1> HIDE DEF a, b, c, S
<1>10. a \o b \in Seq(S) /\ (FirstOf(a \o b) = {} <=> FirstOf(a) = {} /\ FirstOf(b) = {})
  BY <1>9, FirstOfBoth
<1>11. FirstOf((a \o b) \o c) = {} <=> FirstOf(a \o b) = {} /\ FirstOf(c) = {}
  BY <1>9, <1>10, FirstOfBoth
<1>12. Validates(rec) <=> FirstOf((a \o b) \o c) = {}
  BY <1>3 DEF Validates, Errors
<1> QED BY <1>1, <1>2, <1>6, <1>7, <1>8, <1>10, <1>11, <1>12 DEF Passes

\* Validate says of the record that is read what it said of the record sent.
LEMMA StillPasses ==
  ASSUME NEW rec, IsRecord(rec), Apart(rec), Passes(rec)
  PROVE  Passes(Decoded(Encoded(rec)))
<1> DEFINE d == Decoded(Encoded(rec))
           ids == rec.identities
           K(t) == Known("CallerIdentityType", t)
<1>1. /\ \A f \in Plain : d[f] = rec[f]
      /\ d.ip = AddrText(rec.ip)
      /\ d.levels \in Seq(STRING) /\ Range(d.levels) = Range(rec.levels)
      /\ d.result = Known("OperationResult", rec.result)
      /\ \E n \in Nat : DOMAIN d.categories = 1..n
      /\ Range(d.categories) = {Known("OperationCategory", c) : c \in Range(rec.categories)}
      /\ DOMAIN d.identities = {K(t) : t \in DOMAIN ids}
      /\ \A t \in DOMAIN ids : d.identities[K(t)] = ids[t]
  BY RoundTrip
<1> HIDE DEF d
<1>2. /\ rec.categories \in Seq(Uint16) /\ rec.levels \in Seq(STRING)
      /\ ids \in [DOMAIN ids -> Seq(Entry)]
  BY DEF IsRecord
<1>3. \A S : \A s \in Seq(S) : s = <<>> <=> Range(s) = {}
  <2> SUFFICES ASSUME NEW S, NEW s \in Seq(S) PROVE s = <<>> <=> Range(s) = {}
    OBVIOUS
  <2>1. DOMAIN s = 1..Len(s) /\ Len(s) \in Nat /\ (s = <<>> <=> Len(s) = 0)
    BY LenProperties, EmptySeq
  <2>2. \A n \in Nat : 1..n = {} <=> n = 0
    OBVIOUS
  <2> QED BY <2>1, <2>2 DEF Range
<1>4. /\ d.tree = rec.tree /\ d.name = rec.name
      /\ d.categoryDescription = rec.categoryDescription
      /\ d.resultDescription = rec.resultDescription
      /\ d.accessLevel = rec.accessLevel /\ d.agent = rec.agent
      /\ d.targets = rec.targets
  BY <1>1 DEF Plain
<1>5. /\ d.categories # <<>>
      /\ OCOther \in Range(d.categories) => OCOther \in Range(rec.categories)
  <2>1. Range(rec.categories) # {}
    BY <1>2, <1>3 DEF Passes
  <2>2. Range(d.categories) # {}
    BY <1>1, <2>1
  <2>3. d.categories # <<>>
    BY <2>2, EmptySeq DEF Range
  <2>4. \A c : Known("OperationCategory", c) = OCOther => c = OCOther
    BY DEF Known, Unknown, OCOther
  <2> QED BY <1>1, <2>3, <2>4
<1>6. d.result = Failure => rec.result = Failure
  BY <1>1 DEF Known, Unknown, Failure
<1>7. /\ d.identities # <<>>
      /\ \A k \in DOMAIN d.identities :
           d.identities[k] # <<>> /\ IdentityLoop(d.identities[k]) = {}
  <2>1. \A t \in DOMAIN ids : ids[t] # <<>> /\ IdentityLoop(ids[t]) = {}
    BY DEF Passes
  <2>2. DOMAIN ids # {}
    <3> SUFFICES ASSUME DOMAIN ids = {} PROVE FALSE
      OBVIOUS
    <3>1. <<>> \in [{} -> Seq(Entry)] /\ ids \in [{} -> Seq(Entry)]
      BY <1>2 DEF Seq
    <3>2. ids = <<>>
      BY <3>1
    <3> QED BY <3>2 DEF Passes
  <2>3. DOMAIN d.identities # {}
    BY <1>1, <2>2
  <2>4. d.identities # <<>>
    BY <2>3, EmptySeq
  <2>5. ASSUME NEW k \in DOMAIN d.identities
        PROVE  d.identities[k] # <<>> /\ IdentityLoop(d.identities[k]) = {}
    <3>1. PICK t \in DOMAIN ids : d.identities[k] = ids[t]
      BY <1>1
    <3> QED BY <2>1, <3>1
  <2> QED BY <2>4, <2>5
<1>8. d.ip = rec.ip
  BY <1>1 DEF Passes, AddrText
<1>9. d.levels # <<>> /\ "blank" \notin Range(d.levels)
  <2>1. rec.levels # <<>> /\ "blank" \notin Range(rec.levels)
    BY DEF Passes
  <2>2. Range(rec.levels) # {}
    BY <1>2, <1>3, <2>1
  <2>3. d.levels \in Seq(STRING) /\ Range(d.levels) = Range(rec.levels)
    BY <1>1
  <2> QED BY <1>3, <2>1, <2>2, <2>3
<1> HIDE DEF ids, K
<1>10. Passes(d)
  BY <1>4, <1>5, <1>6, <1>7, <1>8, <1>9 DEF Passes
<1> QED BY <1>10 DEF d

-------------------------------------------------------------------------------
(***************************************************************************)
(* The trip.                                                               *)
(***************************************************************************)

\* A record as Send lets it through.
Accepted(rec) == IsRecord(rec) /\ rec.tree = "client" /\ Passes(rec)

\* The enumerations of a record, as UnmarshalMsgpack reads them.
ValuesOf(rec, v) ==
  /\ Range(v.categories) = {Known("OperationCategory", c) : c \in Range(rec.categories)}
  /\ v.opType = Known("OperationType", rec.opType)
  /\ v.result = Known("OperationResult", rec.result)
  /\ DOMAIN v.identities = {Known("CallerIdentityType", t) : t \in DOMAIN rec.identities}

\* Which record is where at each stage.
OnItsWay ==
  /\ stage = "made" => msg \in Offered
  /\ stage \notin {"made", "refused"} /\ msg.type # HeartbeatType => Accepted(msg.rec)
  /\ stage = "written" =>
       wire = IF msg.type = HeartbeatType THEN Empty ELSE Encoded(msg.rec)
  /\ stage = "read" =>
       IF msg.type = HeartbeatType THEN got = Empty /\ msg.rec = Empty
       ELSE got = Decoded(Encoded(msg.rec)) /\ ~FatalToServer(msg.rec)
  /\ stage \in {"queued", "written"} /\ msg.type = HeartbeatType => msg.rec = Empty
  /\ stage = "panicked" => msg.type # HeartbeatType /\ FatalToServer(msg.rec)
  /\ stage = "decoded" => msg.type # HeartbeatType /\ ValuesOf(msg.rec, got)

\* A record that was accepted has a tree on the wire too.
LEMMA AcceptedOnWire ==
  ASSUME NEW rec, Accepted(rec)
  PROVE  Encoded(rec) # Empty
<1>1. IsEncoded(rec, Encoded(rec))
  BY Fields DEF Accepted, IsRecord
<1>2. Encoded(rec).tree = "client"
  BY <1>1 DEF IsEncoded, Accepted, Plain
<1>3. Empty.tree = ""
  BY DEF Empty
<1> QED BY <1>2, <1>3

\* A record that Send stamped and that validates is accepted.
LEMMA SendAccepts ==
  ASSUME NEW m \in Offered, Validates([m.rec EXCEPT !.tree = "client"])
  PROVE  Accepted([m.rec EXCEPT !.tree = "client"])
<1> DEFINE rec == [m.rec EXCEPT !.tree = "client"]
<1>1. IsRecord(m.rec)
  BY OfferedAssumption
<1>2. /\ DOMAIN rec = DOMAIN m.rec /\ rec.tree = "client"
      /\ \A f \in DOMAIN m.rec : f # "tree" => rec[f] = m.rec[f]
  BY <1>1 DEF IsRecord, Empty
<1> HIDE DEF rec
<1>3. IsRecord(rec)
  BY <1>1, <1>2 DEF IsRecord, Empty
<1> QED BY <1>2, <1>3, ValidatesIs DEF Accepted, rec

\* What the msgpack methods make of an accepted record.
LEMMA ValuesAreRead ==
  ASSUME NEW rec, IsRecord(rec), wire = Encoded(rec), ValuesRead
  PROVE  ValuesOf(rec, got')
<1> DEFINE Type(p) == UnmarshalMsgpack("CallerIdentityType", p[1])
           R == Range(rec.categories)
           q == SetToSeq({MarshalMsgpack("OperationCategory", c) : c \in R})
           types == {Type(p) : p \in wire.identities}
<1>1. IsEncoded(rec, wire)
  BY Fields DEF IsRecord
<1>2. /\ got'.categories = [i \in DOMAIN wire.categories |->
                               UnmarshalMsgpack("OperationCategory", wire.categories[i])]
      /\ got'.opType = UnmarshalMsgpack("OperationType", wire.opType)
      /\ got'.result = UnmarshalMsgpack("OperationResult", wire.result)
      /\ got'.identities = [t \in types |-> <<>>]
  BY DEF ValuesRead, Empty
<1>3. IsFiniteSet(R) /\ R \subseteq Uint16
  BY RangeIsFinite DEF IsRecord
<1>4. Range(got'.categories) = {Known("OperationCategory", c) : c \in R}
  <2>1. got'.categories = [i \in DOMAIN q |-> UnmarshalMsgpack("OperationCategory", q[i])]
    BY <1>1, <1>2 DEF IsEncoded
  <2> DEFINE cs == got'.categories
  <2> HIDE DEF R, cs
  <2> QED BY <1>3, <2>1, CategoriesReturn DEF cs
<1>5. /\ got'.opType = Known("OperationType", rec.opType)
      /\ got'.result = Known("OperationResult", rec.result)
  <2>1. {"OperationType", "OperationResult"} \subseteq Types
    BY DEF Types, Declared
  <2>2. rec.opType \in Uint16 /\ rec.result \in Uint16
    BY DEF IsRecord
  <2> QED BY <1>1, <1>2, <2>1, <2>2, ValueReturns DEF IsEncoded
<1>6. DOMAIN got'.identities = {Known("CallerIdentityType", t) : t \in DOMAIN rec.identities}
  <2>1. wire.identities = {<<MarshalMsgpack("CallerIdentityType", t), rec.identities[t]>> :
                             t \in DOMAIN rec.identities}
    BY <1>1 DEF IsEncoded
  <2>2. types = {Type(<<MarshalMsgpack("CallerIdentityType", t), rec.identities[t]>>) :
                   t \in DOMAIN rec.identities}
    BY <2>1
  <2>3. types = {UnmarshalMsgpack("CallerIdentityType", MarshalMsgpack("CallerIdentityType", t)) :
                   t \in DOMAIN rec.identities}
    BY <2>2
  <2>4. types = {Known("CallerIdentityType", t) : t \in DOMAIN rec.identities}
    BY <2>3, TypesReturn
  <2> HIDE DEF types
  <2> QED BY <1>2, <2>4
<1> QED BY <1>4, <1>5, <1>6 DEF ValuesOf

\* Every step keeps it.
LEMMA OnItsWayStep == OnItsWay /\ [Next]_vars => OnItsWay'
<1> SUFFICES ASSUME OnItsWay, [Next]_vars PROVE OnItsWay'
  OBVIOUS
<1>1. CASE Send
  <2> DEFINE rec == [msg.rec EXCEPT !.tree = "client"]
  <2>1. msg \in Offered /\ DOMAIN msg = {"type", "rec"}
    BY <1>1, OfferedAssumption DEF Send, OnItsWay
  <2>2. CASE msg.type \in DataPlane..ControlPlane /\ Validates(rec)
    <3>1. stage' = "queued" /\ msg' = [msg EXCEPT !.rec = rec]
      BY <1>1, <2>2 DEF Send
    <3>2. Accepted(rec)
      BY <2>1, <2>2, SendAccepts
    <3> HIDE DEF rec
    <3>3. msg'.rec = rec /\ msg'.type # HeartbeatType
      BY <2>1, <2>2, <3>1 DEF DataPlane, ControlPlane, HeartbeatType
    <3> QED BY <3>1, <3>2, <3>3 DEF OnItsWay
  <2>3. CASE ~(msg.type \in DataPlane..ControlPlane /\ Validates(rec))
    BY <1>1, <2>3 DEF Send, OnItsWay
  <2> QED BY <2>2, <2>3
<1>2. CASE Heartbeat
  BY <1>2 DEF Heartbeat, OnItsWay
<1>3. CASE Write
  BY <1>3 DEF Write, OnItsWay
<1>4. CASE ServerReads
  <2>1. CASE msg.type = HeartbeatType
    BY <1>4, <2>1 DEF ServerReads, OnItsWay
  <2>2. CASE msg.type # HeartbeatType
    <3>1. Accepted(msg.rec) /\ wire = Encoded(msg.rec) /\ msg' = msg /\ stage = "written"
      BY <1>4, <2>2 DEF ServerReads, OnItsWay
    <3>2. wire # Empty
      BY <3>1, AcceptedOnWire
    <3>3. JSONTakes(wire) /\ RecordTakes(wire) <=> ~FatalToServer(msg.rec)
      BY <3>1, FatalIsFatal DEF Accepted, Passes
    <3> QED BY <1>4, <2>2, <3>1, <3>2, <3>3 DEF ServerReads, OnItsWay
  <2> QED BY <2>1, <2>2
<1>5. CASE ValuesRead
  <2>1. stage = "written" /\ wire # Empty /\ msg' = msg /\ stage' = "decoded"
    BY <1>5 DEF ValuesRead
  <2>2. msg.type # HeartbeatType /\ Accepted(msg.rec) /\ wire = Encoded(msg.rec)
    BY <2>1 DEF OnItsWay
  <2>3. ValuesOf(msg.rec, got')
    BY <1>5, <2>2, ValuesAreRead DEF Accepted
  <2> QED BY <2>1, <2>2, <2>3 DEF OnItsWay
<1>6. CASE UNCHANGED vars
  BY <1>6 DEF vars, OnItsWay, ValuesOf
<1> QED BY <1>1, <1>2, <1>3, <1>4, <1>5, <1>6 DEF Next

\* And it begins so.
LEMMA OnItsWayAlways == Spec => []OnItsWay
<1>1. Init => OnItsWay
  BY DEF Init, OnItsWay
<1> QED BY <1>1, OnItsWayStep, PTL DEF Spec

\* The records that end the test server are exactly those with text JSON has no
\* form for or with two types of identity it cannot tell apart: every address,
\* name, duplicate and heartbeat is read.
THEOREM OnlyFatalRecordsPanicAlways == Spec => []OnlyFatalRecordsPanic
<1>1. ~FatalToServer(Empty)
  <2>1. Range(<<>>) = {} /\ DOMAIN <<>> = {}
    BY EmptySeq DEF Range
  <2>2. Texts(Empty, {}) = {""}
    BY <2>1 DEF Texts, Empty
  <2>3. Empty.identities = <<>> /\ Empty.custom = "none"
    BY DEF Empty
  <2>4. Range(Empty.identities) = {} /\ DOMAIN Empty.identities = {}
    BY <2>1, <2>3
  <2>5. "garbled" \notin Texts(Empty, Range(Empty.identities))
    <3>1. Texts(Empty, Range(Empty.identities)) = {""}
      BY <2>2, <2>4
    <3> HIDE DEF Texts
    <3> QED BY <3>1
  <2> QED BY <2>3, <2>4, <2>5 DEF FatalToServer
<1>2. OnItsWay => OnlyFatalRecordsPanic
  BY <1>1 DEF OnItsWay, OnlyFatalRecordsPanic
<1> QED BY <1>2, OnItsWayAlways, PTL

\* What arrives is the record Send stamped, whatever it holds: nothing but
\* duplicates and the numbers of nameless values is lost, and the msgpack methods
\* read each value alike.
THEOREM TripIsFaithfulAlways == Spec => []TripIsFaithful
<1>1. OnItsWay => TripIsFaithful
  <2> SUFFICES ASSUME OnItsWay, stage \in {"read", "decoded"}, msg.type # HeartbeatType
               PROVE  TripIsFaithful
    BY DEF TripIsFaithful
  <2>1. CASE stage = "decoded"
    BY <2>1 DEF OnItsWay, ValuesOf, TripIsFaithful
  <2>2. CASE stage = "read"
    <3> DEFINE rec == msg.rec
    <3>1. Accepted(rec) /\ got = Decoded(Encoded(rec)) /\ Apart(rec)
      BY <2>2, FatalIsFatal DEF OnItsWay, Accepted, Passes
    <3>2. /\ \A f \in Plain : got[f] = rec[f]
          /\ got.ip = AddrText(rec.ip)
          /\ Range(got.levels) = Range(rec.levels)
          /\ ValuesOf(rec, got)
          /\ \A t \in DOMAIN rec.identities :
               got.identities[Known("CallerIdentityType", t)] = rec.identities[t]
      BY <3>1, RoundTrip DEF Accepted, ValuesOf
    <3> HIDE DEF rec
    <3>3. got.ip = rec.ip
      BY <3>1, <3>2 DEF Accepted, Passes, AddrText
    <3>4. got.tree = "client"
      BY <3>1, <3>2 DEF Accepted, Plain
    <3>5. \A f \in {"name", "categoryDescription", "resultDescription", "accessLevel",
                    "agent", "ip", "targets", "custom"} : got[f] = rec[f]
      BY <3>2, <3>3 DEF Plain
    <3> QED BY <3>2, <3>4, <3>5 DEF TripIsFaithful, ValuesOf, rec
  <2> QED BY <2>1, <2>2
<1> QED BY <1>1, OnItsWayAlways, PTL

\* A reader that does not look at a message's type can tell records from
\* heartbeats: what validated before the trip validates after it.
THEOREM OnlyRecordsValidateAlways == Spec => []OnlyRecordsValidate
<1>1. OnItsWay => OnlyRecordsValidate
  <2> SUFFICES ASSUME OnItsWay, stage = "read"
               PROVE  Validates(got) <=> msg.type # HeartbeatType
    BY DEF OnlyRecordsValidate
  <2>1. CASE msg.type = HeartbeatType
    <3>1. got = Empty /\ Empty.tree = ""
      BY <2>1 DEF OnItsWay, Empty
    <3>2. ~Passes(got)
      BY <3>1 DEF Passes
    <3> QED BY <2>1, <3>2, ValidatesIs
  <2>2. CASE msg.type # HeartbeatType
    <3>1. Accepted(msg.rec) /\ got = Decoded(Encoded(msg.rec)) /\ Apart(msg.rec)
      BY <2>2, FatalIsFatal DEF OnItsWay, Accepted, Passes
    <3>2. Passes(got)
      BY <3>1, StillPasses DEF Accepted
    <3> QED BY <2>2, <3>2, ValidatesIs
  <2> QED BY <2>1, <2>2
<1> QED BY <1>1, OnItsWayAlways, PTL

===============================================================================
