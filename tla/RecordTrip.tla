------------------------------ MODULE RecordTrip ------------------------------
(***************************************************************************)
(* One record from Send to the reader of the test server: Send fills in    *)
(* the service tree and validates, MarshalMsgpack turns enumerations and   *)
(* the address into text, and msgFromWrap reads the record by way of JSON, *)
(* or each enumeration's own UnmarshalMsgpack its values (msgs.go, the     *)
(* stringer tables, server.go).                                            *)
(*                                                                         *)
(* Text is kept where a decision depends on it.  A free text is "" or not, *)
(* "garbled" if it is not UTF-8; an access level or a resource type is     *)
(* blank or not, an address is its class.  The name of an enumeration's    *)
(* value is a slice of the table its type shares, as in the code, whose    *)
(* names are all different; upper and lower case, which unString ignores,  *)
(* are left out.  CustomData is "none", or a map whose values msgpack takes *)
(* and gives back, and which JSON takes ("json") or not ("nojson", a NaN). *)
(***************************************************************************)
EXTENDS Integers, Sequences, SequencesExt

CONSTANT Offered     \* the messages offered to Send: a type and a record

\* The values each enumeration declares.
OperationType      == 0..4
OperationCategory  == 0..19
OperationResult    == 0..2
CallerIdentityType == 0..14

Declared ==
  [OperationType |-> OperationType, OperationCategory |-> OperationCategory,
   OperationResult |-> OperationResult, CallerIdentityType |-> CallerIdentityType]

\* The _index arrays of the stringer tables.
OperationTypeIndex      == <<0, 20, 24, 30, 36, 42>>
OperationCategoryIndex  == <<0, 24, 31, 45, 60, 74, 87, 101, 122, 135, 154, 172,
                             188, 204, 225, 243, 261, 277, 299, 313, 317>>
OperationResultIndex    == <<0, 22, 29, 36>>
CallerIdentityTypeIndex == <<0, 25, 32, 35, 39, 47, 58, 63, 71, 84, 98, 111, 119,
                             126, 132, 138>>

Index ==
  [OperationType |-> OperationTypeIndex, OperationCategory |-> OperationCategoryIndex,
   OperationResult |-> OperationResultIndex, CallerIdentityType |-> CallerIdentityTypeIndex]

\* The length of each type's own name, which String() writes for a value that
\* is not in the table.
NameLength == [OperationType |-> 13, OperationResult |-> 15,
               OperationCategory |-> 17, CallerIdentityType |-> 18]

Unknown == 0
OCOther == 1
Failure == 2
DataPlane    == 1
ControlPlane == 2
HeartbeatType == 3

Addrs == {"invalid", "unspecified", "loopback", "multicast", "unicast"}

\* A Record no field of which was set.
Empty ==
  [tree |-> "", name |-> "", categories |-> <<>>, categoryDescription |-> "",
   opType |-> Unknown, result |-> Unknown, resultDescription |-> "",
   accessLevel |-> "", agent |-> "", identities |-> <<>>, ip |-> "invalid",
   levels |-> <<>>, targets |-> <<>>, custom |-> "none"]

\* What Go's types say of a Record, as far as it matters here: a uint16 for each
\* enumeration, slices, a map, and what an address may be.
Uint16 == 0..65535
Entry  == [identity : STRING, description : STRING]
IsRecord(rec) ==
  /\ DOMAIN rec = DOMAIN Empty
  /\ rec.categories \in Seq(Uint16)
  /\ rec.opType \in Uint16 /\ rec.result \in Uint16
  /\ DOMAIN rec.identities \subseteq Uint16
  /\ rec.identities \in [DOMAIN rec.identities -> Seq(Entry)]
  /\ rec.ip \in Addrs
  /\ rec.levels \in Seq(STRING)
  /\ rec.custom \in {"none", "json", "nojson"}

ASSUME OfferedAssumption ==
  \A m \in Offered : /\ DOMAIN m = {"type", "rec"}
                     /\ m.type \in 0..4
                     /\ IsRecord(m.rec)

VARIABLES
  msg,      \* the message on its way
  stage,    \* "made", "refused", "queued", "written", "read", "decoded" or
            \* "panicked"
  wire,     \* what was written
  got       \* what was read

vars == <<msg, stage, wire, got>>

-------------------------------------------------------------------------------
(***************************************************************************)
(* Enumerations and their text.                                            *)
(***************************************************************************)
Size(T) == Len(Index[T]) - 1

\* The slice of T's names that belongs to value i.
Slice(T, i) == [of |-> T, from |-> Index[T][i + 1], to |-> Index[T][i + 2]]

\* How many digits FormatInt writes for a uint16.
Digits(n) == CHOOSE d \in 1..5 : n < 10^d /\ (d = 1 \/ n >= 10^(d - 1))

\* String(): the name, or "T(n)" for a value that is not in the table.
String(T, i) == IF i < Size(T) THEN Slice(T, i) ELSE [of |-> T, number |-> i]
TextLength(T, i) == IF i < Size(T) THEN Index[T][i + 2] - Index[T][i + 1]
                                   ELSE NameLength[T] + 2 + Digits(i)

\* msgpack.Marshal of a string: one byte of header up to 31 bytes of text.
MsgpackString(text, len) ==
  [header |-> CASE len <= 31 -> 1 [] len \in 32..255 -> 2 [] OTHER -> 3,
   text   |-> text]

MarshalMsgpack(T, i) == MsgpackString(String(T, i), TextLength(T, i))

\* Mutant: the loop ends one name early.
unString_StopsEarly(T, from) ==
  LET hits == {i \in 0..(Size(T) - 2) : from = Slice(T, i)}
  IN  IF hits = {} THEN Unknown ELSE Min(hits)

\* Mutant: what has no name is taken for "other".
unString_Other(T, from) ==
  LET hits == {i \in 0..(Size(T) - 1) : from = Slice(T, i)}
  IN  IF hits = {} THEN OCOther ELSE Min(hits)

\* unString: the first name that matches, or the unknown value.
unString(T, from) ==
  LET hits == {i \in 0..(Size(T) - 1) : from = Slice(T, i)}
  IN  IF hits = {} THEN Unknown ELSE Min(hits)

\* Every UnmarshalMsgpack drops one byte, whatever the header's length; what
\* is left of a longer header stands before the text and matches no name.
UnmarshalMsgpack(T, b) ==
  unString(T, IF b.header = 1 THEN b.text ELSE [junk |-> b.text])

\* A string of JSON is the text in quotes, which every UnmarshalJSON trims.
Quoted(b)           == [quoted |-> b.text]
UnmarshalJSON(T, b) == unString(T, b.quoted)
ViaJSON(T, b)       == UnmarshalJSON(T, Quoted(b))

\* Addr.String, and netip.ParseAddr of its result.
AddrText(a)   == IF a = "invalid" THEN "invalid IP" ELSE a
Parses(text)  == text \in Addrs \ {"invalid"}

-------------------------------------------------------------------------------
(***************************************************************************)
(* Validate.  A check is the set of errors it may return.  A loop over a   *)
(* map returns the first error of whichever entry it comes to first, so it *)
(* has as many as there are faulty entries.                                *)
(***************************************************************************)
When(broken, e) == IF broken THEN {e} ELSE {}

\* The first of a sequence of checks that fails.
FirstOf(checks) ==
  LET failed == {i \in DOMAIN checks : checks[i] # {}}
  IN  IF failed = {} THEN {} ELSE checks[Min(failed)]

\* CallerIdentityEntry.Validate
IdentityErrors(e) == FirstOf(<<When(e.identity = "", "identity"),
                               When(e.description = "", "description")>>)

\* TargetResourceEntry.Validate
TargetErrors(e) == When(e.name = "", "target resource name")

\* The loops over the entries of one key.
IdentityLoop(es) == FirstOf([i \in DOMAIN es |-> IdentityErrors(es[i])])
TargetLoop(es)   == FirstOf([i \in DOMAIN es |-> TargetErrors(es[i])])

\* Mutant: the zero Addr, which is none of the three, is let through.
AddrChecks_NotZero(rec) ==
  <<When(rec.ip = "unspecified", "ip is unspecified"),
    When(rec.ip = "loopback", "ip is loopback"),
    When(rec.ip = "multicast", "ip is multicast")>>

\* The zero Addr is not valid, and has no text that can be parsed again.
AddrChecks(rec) ==
  <<When(rec.ip = "invalid", "ip"),
    When(rec.ip = "unspecified", "ip is unspecified"),
    When(rec.ip = "loopback", "ip is loopback"),
    When(rec.ip = "multicast", "ip is multicast")>>

Checks(rec) ==
  <<When(rec.tree = "", "service tree ID"),
    When(rec.name = "", "operation name"),
    When(rec.categories = <<>>, "category"),
    When(OCOther \in Range(rec.categories) /\ rec.categoryDescription = "",
         "category description"),
    When(rec.result = Failure /\ rec.resultDescription = "", "result description"),
    When(rec.accessLevel = "", "access level"),
    When(rec.agent = "", "caller agent"),
    When(rec.identities = <<>>, "caller identity"),
    UNION {IF rec.identities[t] = <<>> THEN {"identity of type"}
           ELSE IdentityLoop(rec.identities[t]) : t \in DOMAIN rec.identities}>>
  \o AddrChecks(rec) \o
  <<When(rec.levels = <<>>, "caller access level"),
    When("blank" \in Range(rec.levels), "caller access level is empty"),
    When(rec.targets = <<>>, "target resource"),
    UNION {IF k = "blank" THEN {"target resource type"}
           ELSE TargetLoop(rec.targets[k]) : k \in DOMAIN rec.targets}>>

\* Record.Validate: what it may return.
Errors(rec)    == FirstOf(Checks(rec))
Validates(rec) == Errors(rec) = {}

-------------------------------------------------------------------------------
(***************************************************************************)
(* The message on the wire, and what is read from it.                      *)
(***************************************************************************)

\* The record with enumerations and address as text, the two slices compacted
\* by marshalPrep (RecordWire has their order).
Encoded(rec) ==
  [rec EXCEPT
     !.categories = SetToSeq({MarshalMsgpack("OperationCategory", c) : c \in Range(@)}),
     !.levels = SetToSeq(Range(@)),
     !.opType = MarshalMsgpack("OperationType", @),
     !.result = MarshalMsgpack("OperationResult", @),
     !.identities = LET Key(t) == MarshalMsgpack("CallerIdentityType", t)
                    IN  {<<Key(t), @[t]>> : t \in DOMAIN @},
     !.ip = AddrText(@)]

\* The record msgFromWrap makes of an encoded one.
Decoded(enc) ==
  [enc EXCEPT
     !.categories = [i \in DOMAIN @ |-> ViaJSON("OperationCategory", @[i])],
     !.opType = ViaJSON("OperationType", @),
     !.result = ViaJSON("OperationResult", @),
     !.identities = LET Type(p) == ViaJSON("CallerIdentityType", p[1])
                    IN  [t \in {Type(p) : p \in @} |->
                           (CHOOSE p \in @ : Type(p) = t)[2]]]

\* Every free text of a record whose identities have the given entries.
Texts(rec, entries) ==
  LET people == UNION {Range(es) : es \in entries}
      things == UNION {Range(es) : es \in Range(rec.targets)}
  IN  {rec.tree, rec.name, rec.categoryDescription, rec.resultDescription,
       rec.accessLevel, rec.agent}
        \cup Range(rec.levels) \cup DOMAIN rec.targets \cup {e.name : e \in things}
        \cup {e.identity : e \in people} \cup {e.description : e \in people}

\* json.Marshal takes no text that is not UTF-8 and no NaN.
JSONTakes(enc) ==
  /\ "garbled" \notin Texts(enc, {p[2] : p \in enc.identities})
  /\ enc.custom # "nojson"

\* json.Unmarshal takes no address that does not parse, and no two keys of a map
\* that are read as the same.
RecordTakes(enc) ==
  LET Type(p) == ViaJSON("CallerIdentityType", p[1])
  IN  /\ Parses(enc.ip)
      /\ \A p, q \in enc.identities : Type(p) = Type(q) => p = q

Init == /\ msg \in Offered
        /\ stage = "made"
        /\ wire = Empty
        /\ got = Empty

\* Send refuses the types only the client may send, stamps the record with
\* the client's service tree and validates it.
Send ==
  /\ stage = "made"
  /\ LET rec == [msg.rec EXCEPT !.tree = "client"]
     IN  IF msg.type \in DataPlane..ControlPlane /\ Validates(rec)
         THEN stage' = "queued" /\ msg' = [msg EXCEPT !.rec = rec]
         ELSE stage' = "refused" /\ UNCHANGED msg
  /\ UNCHANGED <<wire, got>>

\* The client's own heartbeat, which carries no record.
Heartbeat ==
  /\ stage = "made"
  /\ msg' = [type |-> HeartbeatType, rec |-> Empty]
  /\ stage' = "queued"
  /\ UNCHANGED <<wire, got>>

\* MarshalMsgpack and the socket.  None of a heartbeat's fields has the name
\* of a record's.
Write ==
  /\ stage = "queued"
  /\ wire' = IF msg.type = HeartbeatType THEN Empty ELSE Encoded(msg.rec)
  /\ stage' = "written"
  /\ UNCHANGED <<msg, got>>

\* msgFromWrap, which does not look at the envelope's type: fields that are
\* absent stay zero, and an error of json.Marshal or json.Unmarshal is a panic.
ServerReads ==
  /\ stage = "written"
  /\ \/ wire = Empty /\ stage' = "read" /\ got' = Empty
     \/ /\ wire # Empty
        /\ JSONTakes(wire) /\ RecordTakes(wire)
        /\ stage' = "read" /\ got' = Decoded(wire)
     \/ /\ wire # Empty
        /\ ~(JSONTakes(wire) /\ RecordTakes(wire))
        /\ stage' = "panicked" /\ UNCHANGED got
  /\ UNCHANGED <<msg, wire>>

\* UnmarshalMsgpack of each enumeration's values, one call for each; nothing reads
\* a whole record that way.
ValuesRead ==
  /\ stage = "written"
  /\ wire # Empty
  /\ LET Type(p) == UnmarshalMsgpack("CallerIdentityType", p[1])
     IN  got' = [Empty EXCEPT
                   !.categories = [i \in DOMAIN wire.categories |->
                       UnmarshalMsgpack("OperationCategory", wire.categories[i])],
                   !.opType = UnmarshalMsgpack("OperationType", wire.opType),
                   !.result = UnmarshalMsgpack("OperationResult", wire.result),
                   !.identities = [t \in {Type(p) : p \in wire.identities} |-> <<>>]]
  /\ stage' = "decoded"
  /\ UNCHANGED <<msg, wire>>

Next == Send \/ Heartbeat \/ Write \/ ServerReads \/ ValuesRead

Spec == Init /\ [][Next]_vars

-------------------------------------------------------------------------------
\* What a reader can know of value i of T: a value T does not declare, which
\* Validate lets through, becomes the unknown one.
Known(T, i) == IF i \in Declared[T] THEN i ELSE Unknown

\* Marshalling, the quotes, the header byte and the tables lose nothing but
\* duplicates and the numbers of nameless values: each method reads the values
\* that were sent, and a record that msgFromWrap can read is the one Send stamped.
TripIsFaithful ==
  stage \in {"read", "decoded"} /\ msg.type # HeartbeatType =>
    LET rec == msg.rec
    IN  /\ Range(got.categories) =
              {Known("OperationCategory", c) : c \in Range(rec.categories)}
        /\ got.opType = Known("OperationType", rec.opType)
        /\ got.result = Known("OperationResult", rec.result)
        /\ DOMAIN got.identities =
              {Known("CallerIdentityType", t) : t \in DOMAIN rec.identities}
        /\ stage = "read" =>
             /\ got.tree = "client"
             /\ Range(got.levels) = Range(rec.levels)
             /\ \A t \in DOMAIN rec.identities :
                  got.identities[Known("CallerIdentityType", t)] = rec.identities[t]
             /\ \A f \in {"name", "categoryDescription", "resultDescription",
                          "accessLevel", "agent", "ip", "targets", "custom"} :
                  got[f] = rec[f]

\* What msgFromWrap cannot read: text JSON has no form for, and two types of
\* identity that are the same to it, because what has no name is read as unknown.
FatalToServer(rec) ==
  \/ "garbled" \in Texts(rec, Range(rec.identities))
  \/ rec.custom = "nojson"
  \/ \E t, u \in DOMAIN rec.identities :
       t # u /\ Known("CallerIdentityType", t) = Known("CallerIdentityType", u)

\* The records that end the test server are exactly those: Validate keeps every
\* address it cannot read from the wire, and no heartbeat, name or duplicate does it.
OnlyFatalRecordsPanic ==
  /\ stage = "panicked" => msg.type # HeartbeatType /\ FatalToServer(msg.rec)
  /\ stage = "read" => ~FatalToServer(msg.rec)

\* The reader can tell a record from a heartbeat, whose type it does not look
\* at: what Validate accepted before the trip it accepts after it, nameless
\* values, duplicates and all, and a heartbeat it does not.
OnlyRecordsValidate ==
  stage = "read" => (Validates(got) <=> msg.type # HeartbeatType)
===============================================================================
