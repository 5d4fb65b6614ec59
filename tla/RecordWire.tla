------------------------------ MODULE RecordWire ------------------------------
(***************************************************************************)
(* What becomes of the slices of a Record between Send and the wire        *)
(* (msgs.go).  A slice is a view of a backing array; copying a Msg, which  *)
(* Send, the queue, the requeue and Write all do, copies the view and not  *)
(* the array.  marshalPrep sorts and compacts the arrays in place.         *)
(*                                                                         *)
(* A record is built with arrays of its own, by Clone() from a template,   *)
(* or by copying the template's struct.  AuditClient models the queue and  *)
(* its order; here any accepted record may be the one being written.       *)
(*                                                                         *)
(* The sender goroutine sorts while the user's goroutine may be reading    *)
(* the same array to copy, clone or validate it.  The user does not look   *)
(* again at a record it has sent, but it does at its template.             *)
(***************************************************************************)
EXTENDS Integers, Sequences, FiniteSets, Functions

CONSTANTS
  Records,     \* the records offered to Send
  Template,    \* the owner of the arrays of the template record
  Values,      \* the values of an element; 0 is Go's zero value
  Contents,    \* bound: the slices a user gives a record
  MaxWrites,   \* bound: how often a record is written, retries included
  NoRecord

Owners == Records \cup {Template}

\* The two slices marshalPrep compacts: []OperationCategory, where the zero
\* value is UnknownOperationCategory, and []string, where it is "".
Fields == {"OperationCategories", "CallerAccessLevels"}
Zero   == 0

ASSUME WireAssumption ==
  /\ Template \notin Records /\ NoRecord \notin Records
  /\ Zero \in Values /\ Values \subseteq Nat
  /\ Contents \subseteq [Fields -> Seq(Values)]
  /\ MaxWrites \in Nat

VARIABLES
  heap,     \* the arrays each owner allocated, by field
  view,     \* whose arrays the slices of a record are views of
  copied,   \* records sent as copies of the template's struct (history)
  status,   \* "new", "queued" or "done"
  raced,    \* records made while what they were made from changed (history)
  sorting,  \* the record marshalPrep is at work on, or NoRecord
  asked,    \* what the record said when Send validated it (history)
  wire,     \* what the last write of a record put on the wire
  writes    \* how often it was written

vars == <<heap, view, copied, status, raced, sorting, asked, wire, writes>>

Nothing == [f \in Fields |-> <<>>]

TypeOK ==
  /\ heap \in [Owners -> [Fields -> Seq(Values)]]
  /\ view \in [Records -> Owners]
  /\ copied \subseteq Records
  /\ status \in [Records -> {"new", "queued", "done"}]
  /\ raced \subseteq Records
  /\ sorting \in Records \cup {NoRecord}
  /\ asked \in [Records -> [Fields -> Seq(Values)]]
  /\ wire \in [Records -> [Fields -> Seq(Values)]]
  /\ writes \in [Records -> 0..MaxWrites]

-------------------------------------------------------------------------------
(***************************************************************************)
(* slices.Sort and slices.Compact on one array.                            *)
(***************************************************************************)

\* How many elements of s sorting puts no later than the one at i.
Rank(s, i) ==
  Cardinality({j \in DOMAIN s : s[j] < s[i] \/ (s[j] = s[i] /\ j <= i)})

Sorted(s) == [n \in DOMAIN s |-> s[CHOOSE i \in DOMAIN s : Rank(s, i) = n]]

\* The n-th smallest of a set of numbers.
Nth(S, n) == CHOOSE i \in S : Cardinality({j \in S : j <= i}) = n

\* Where a run of equal elements begins.
Runs(s) == {i \in DOMAIN s : i = 1 \/ s[i] # s[i - 1]}

\* Mutant: Compact stops one element early.
Compacted_DropsLast(s) == [n \in 1..Cardinality(Runs(s) \ {Len(s)}) |-> s[Nth(Runs(s), n)]]

\* Compact's result: the first element of each run of equal ones.
Compacted(s) == [n \in 1..Cardinality(Runs(s)) |-> s[Nth(Runs(s), n)]]

\* What Compact leaves in the array: the elements behind its result are
\* cleared.
CompactedInPlace(s) ==
  LET c == Compacted(s)
  IN  [i \in DOMAIN s |-> IF i <= Len(c) THEN c[i] ELSE Zero]

\* Mutant: marshalPrep compacts without sorting first.
Marshalled_Unsorted(rec) == [f \in Fields |-> Compacted(rec[f])]

\* marshalPrep: what is encoded, and what it makes of the arrays it was given.
Marshalled(rec) == [f \in Fields |-> Compacted(Sorted(rec[f]))]
Rewritten(rec)  == [f \in Fields |-> CompactedInPlace(Sorted(rec[f]))]

\* Record.Validate on these two fields: both are required, and no access
\* level may be empty.
Validates(rec) == /\ \A f \in Fields : rec[f] # <<>>
                  /\ Zero \notin Range(rec["CallerAccessLevels"])

-------------------------------------------------------------------------------
Init ==
  /\ \E c \in Contents :
       /\ Validates(c)
       /\ heap = [o \in Owners |-> IF o = Template THEN c ELSE Nothing]
  /\ view = [r \in Records |-> r]
  /\ copied = {}
  /\ status = [r \in Records |-> "new"]
  /\ raced = {}
  /\ sorting = NoRecord
  /\ asked = [r \in Records |-> Nothing]
  /\ wire = [r \in Records |-> Nothing]
  /\ writes = [r \in Records |-> 0]

\* Send validates the record and queues a copy of its struct.
Queue(r, rec) ==
  /\ status[r] = "new"
  /\ Validates(rec)
  /\ status' = [status EXCEPT ![r] = "queued"]
  /\ asked' = [asked EXCEPT ![r] = rec]
  /\ UNCHANGED <<sorting, wire, writes>>

\* The sender is writing to the template's arrays.
TemplateInFlux ==
  /\ sorting # NoRecord
  /\ view[sorting] = Template
  /\ Rewritten(heap[Template]) # heap[Template]

\* What a read of an array that is being rewritten may find, element by
\* element.
Torn(s) == [DOMAIN s -> Range(s) \cup {Zero}]

\* What the user may see of the template, and that it was a race.
ReadTemplate(r, rec) ==
  IF TemplateInFlux
  THEN /\ \A f \in Fields : rec[f] \in Torn(heap[Template][f])
       /\ raced' = raced \cup {r}
  ELSE rec = heap[Template] /\ UNCHANGED raced

\* Bound: of the slices that a race may show, those among Contents or as they
\* are.
Seen == Contents \cup {heap[Template]}

\* The user sends a record with slices of its own.
SendOwn(r) ==
  \E rec \in Contents :
    /\ Queue(r, rec)
    /\ heap' = [heap EXCEPT ![r] = rec]
    /\ UNCHANGED <<view, copied, raced>>

\* Mutant: Clone copies the slices' headers only.
SendClone_Shallow(r) ==
  \E rec \in Seen :
    /\ Queue(r, rec)
    /\ ReadTemplate(r, rec)
    /\ view' = [view EXCEPT ![r] = Template]
    /\ UNCHANGED <<heap, copied>>

\* The user sends a Clone() of the template, whose slices are copies.
SendClone(r) ==
  \E rec \in Seen :
    /\ Queue(r, rec)
    /\ ReadTemplate(r, rec)
    /\ heap' = [heap EXCEPT ![r] = rec]
    /\ UNCHANGED <<view, copied>>

\* The user sends a copy of the template's struct, which shares its arrays;
\* Validate reads them.
SendCopy(r) ==
  \E rec \in Seen :
    /\ Queue(r, rec)
    /\ ReadTemplate(r, rec)
    /\ view' = [view EXCEPT ![r] = Template]
    /\ copied' = copied \cup {r}
    /\ UNCHANGED heap

\* conn.Write of r begins: MarshalMsgpack comes to sort.
MarshalBegins(r) ==
  /\ sorting = NoRecord
  /\ status[r] = "queued"
  /\ writes[r] < MaxWrites
  /\ sorting' = r
  /\ UNCHANGED <<heap, view, copied, status, raced, asked, wire, writes>>

\* It goes on to encode, and to the socket.  After an error the Msg is requeued
\* as it was, with the length its slices had.
Write(r, ok) ==
  /\ sorting = r
  /\ sorting' = NoRecord
  /\ wire' = [wire EXCEPT ![r] = Marshalled(heap[view[r]])]
  /\ heap' = [heap EXCEPT ![view[r]] = Rewritten(@)]
  /\ writes' = [writes EXCEPT ![r] = @ + 1]
  /\ status' = [status EXCEPT ![r] = IF ok THEN "done" ELSE "queued"]
  /\ UNCHANGED <<view, copied, raced, asked>>

Next == \E r \in Records : \/ SendOwn(r)
                           \/ SendClone(r)
                           \/ SendCopy(r)
                           \/ MarshalBegins(r)
                           \/ \E ok \in BOOLEAN : Write(r, ok)

Spec == Init /\ [][Next]_vars

-------------------------------------------------------------------------------
SameElements(a, b) == \A f \in Fields : Range(a[f]) = Range(b[f])
NoDuplicates(rec)  == \A f \in Fields : IsInjective(rec[f])

\* "Duplicates are not allowed": whatever was rewritten before, what goes to
\* the wire is strictly increasing, on every attempt.
WireIsCompact ==
  \A r \in Records, f \in Fields :
    \A i, j \in DOMAIN wire[r][f] : i < j => wire[r][f][i] < wire[r][f][j]

\* Where sorting has nothing to remove, sharing and retrying are harmless: a
\* record without duplicates reaches the wire as Send validated it, on every
\* attempt and whoever shares its arrays; a record that shares with nobody
\* does on its first attempt, duplicates or not.  Nothing is said of a record
\* that was read while it changed.
WireIsFaithful ==
  \A r \in Records \ raced :
    writes[r] > 0 /\ (NoDuplicates(asked[r]) \/ (r \notin copied /\ writes[r] = 1))
      => SameElements(wire[r], asked[r])

\* Clone is deep where it matters: the template is what it was as long as
\* every record made from it is a Clone or has slices of its own.
TemplateIsIsolated ==
  [][copied' = {} => heap'[Template] = heap[Template]]_vars

\* A program that sends clones of its template, or records of its own, never
\* reads an array the sender goroutine is rewriting: Clone is what makes it safe
\* to look at a template again, and it takes a copied struct to spoil it.
CloneIsRaceFree == raced # {} => copied # {}

\* msgs.go:102-104: compaction "allows us to remove duplicates and have an
\* ordered slice".  It also clears the end of the array, which a record that is
\* written again still shows: a category or an access level nobody sent.
RetryIsFaithful ==
  \A r \in Records \ raced :
    writes[r] > 0 /\ r \notin copied => SameElements(wire[r], asked[r])
===============================================================================
