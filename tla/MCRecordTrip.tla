---------------------------- MODULE MCRecordTrip ----------------------------
(***************************************************************************)
(* Instances of RecordTrip for TLC.                                        *)
(***************************************************************************)
EXTENDS RecordTrip

Who     == [identity |-> "i", description |-> "d"]
Nobody  == [identity |-> "", description |-> ""]
Unnamed == [name |-> ""]
Named   == [name |-> "n"]
Garbled == "garbled"

\* A message that validates.
Good ==
  [type |-> ControlPlane,
   rec |-> [tree |-> "", name |-> "n", categories |-> <<2>>,
            categoryDescription |-> "", opType |-> 1, result |-> 1,
            resultDescription |-> "", accessLevel |-> "a", agent |-> "g",
            identities |-> [t \in {2} |-> <<Who>>], ip |-> "unicast",
            levels |-> <<"l">>, targets |-> [k \in {"k"} |-> <<Named>>],
            custom |-> "none"]]

\* What a field may be instead: every value of every enumeration, the first
\* without a name and the last of all, and each way to break a rule.
Codes(T) == 0..Size(T) \cup {65535}

Other ==
  [tree |-> {"theirs"},
   name |-> {"", Garbled},
   categories |-> {<<>>, <<2, 2>>, <<3, 2>>, <<2, 20>>}
                    \cup {<<c>> : c \in Codes("OperationCategory")},
   categoryDescription |-> {"d", Garbled},
   opType |-> Codes("OperationType"),
   result |-> Codes("OperationResult"),
   resultDescription |-> {"d", Garbled},
   accessLevel |-> {"", Garbled},
   agent |-> {"", Garbled},
   identities |-> {<<>>, [t \in {2} |-> <<>>], [t \in {2} |-> <<Who, Nobody>>],
                   [t \in {3} |-> <<[Who EXCEPT !.description = ""]>>],
                   [t \in {3} |-> <<Who, [Who EXCEPT !.identity = Garbled]>>],
                   [t \in {3} |-> <<[Who EXCEPT !.description = Garbled]>>],
                   [t \in {2, 15} |-> IF t = 2 THEN <<Who>> ELSE <<Who, Who>>],
                   [t \in {0, 14} |-> <<Who>>], [t \in {0, 15} |-> <<Who>>],
                   [t \in {15, 65535} |-> IF t = 15 THEN <<Who>> ELSE <<Who, Who>>]}
                    \cup {[t \in {c} |-> <<Who>>] : c \in Codes("CallerIdentityType")},
   ip |-> Addrs,
   levels |-> {<<>>, <<"blank">>, <<"l", "l">>, <<"m", "l">>, <<"l", Garbled>>},
   targets |-> {<<>>, [k \in {"blank"} |-> <<Named>>], [k \in {"k"} |-> <<Unnamed>>],
                [k \in {Garbled} |-> <<Named>>], [k \in {"k"} |-> <<[name |-> Garbled]>>],
                [k \in {"k"} |-> <<>>], [k \in {"k", "m"} |-> <<Named, Named>>]},
   custom |-> {"json", "nojson"}]

With(rec, f) == {[rec EXCEPT ![f] = v] : v \in Other[f]}

\* Bound: two fields of the good record are changed.
Altered == UNION {With(rec, f) : rec \in UNION {With(Good.rec, g) : g \in DOMAIN Other},
                                 f \in DOMAIN Other}

Messages == {[Good EXCEPT !.rec = rec] : rec \in Altered}
              \cup {[Good EXCEPT !.type = t] : t \in 0..4}
=============================================================================
