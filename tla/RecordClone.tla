----------------------------- MODULE RecordClone -----------------------------
(***************************************************************************)
(* Record.Clone() (msgs.go): which objects of a record a clone has for     *)
(* itself, and what a user who goes on editing the template or a clone     *)
(* does to the clones already sent.  Send queues the Msg by value: what    *)
(* Write encodes later is whatever the record's maps and slices hold then. *)
(*                                                                         *)
(* A record refers to two slices and three maps.  The entries of a map are *)
(* objects too: slices, or the values of CustomData.  An object is named   *)
(* by the owner that allocated it.  Marshalling's own rewriting of the     *)
(* two slices is RecordWire's subject.                                     *)
(***************************************************************************)
EXTENDS Naturals, FiniteSets

CONSTANTS
  Records,     \* the clones the user makes
  Template,    \* the record they are clones of
  Keys,        \* keys of the maps
  NoKey,       \* stands for the key where there is none, in a slice
  CustomKind,  \* what a key of CustomData holds: "plain" data, a "cloner"
               \* that implements Cloner, or a "ref" that does not
  MaxEdits     \* bound: how often the user edits anything

Owners == Records \cup {Template}
Nil    == "nil"

Slices == {"OperationCategories", "CallerAccessLevels"}
Maps   == {"CallerIdentities", "TargetResources", "CustomData"}
Cells  == (Slices \X {NoKey}) \cup (Maps \X Keys)

\* Contents of an object: a nil or an empty slice, or one of two others.
Contents == {"nil", "empty", "a", "b"}

ASSUME CloneAssumption ==
  /\ Template \notin Records
  /\ Nil \notin Owners
  /\ NoKey \notin Keys
  /\ CustomKind \in [Keys -> {"plain", "cloner", "ref"}]
  /\ MaxEdits \in Nat

VARIABLES
  slice,    \* whose slice each record refers to
  mapOf,    \* whose map each record refers to, or Nil
  entry,    \* the map each owner allocated: whose object each key refers to
  data,     \* contents of the objects each owner allocated
  status,   \* of each clone: "new", "cloned", "queued"
  asked,    \* what a clone said when it was sent (history)
  edited,   \* the record the last step edited through, or Nil (history)
  edits     \* how many edits there were

objects == <<slice, mapOf, entry, data>>
vars == <<objects, status, asked, edited, edits>>

\* A partial map from keys to the owners of what they refer to.
Entries == UNION {[ks -> Owners] : ks \in SUBSET Keys}

\* What a record may say in the cells it has.
Sayings == UNION {[cs -> Contents] : cs \in SUBSET Cells}

TypeOK ==
  /\ slice \in [Owners -> [Slices -> Owners]]
  /\ mapOf \in [Owners -> [Maps -> Owners \cup {Nil}]]
  /\ entry \in [Owners -> [Maps -> Entries]]
  /\ data \in [Owners -> [Cells -> Contents]]
  /\ status \in [Records -> {"new", "cloned", "queued"}]
  /\ asked \in [Records -> Sayings]
  /\ edited \in Owners \cup {Nil}
  /\ edits \in 0..MaxEdits

\* The cells record o has: its slices, and the keys its maps hold.
HasCell(o, c) ==
  c[1] \in Maps => /\ mapOf[o][c[1]] # Nil
                  /\ c[2] \in DOMAIN entry[mapOf[o][c[1]]][c[1]]

\* The owner of the object record o has in cell c.
ObjectOf(o, c) == IF c[1] \in Slices THEN slice[o][c[1]]
                                     ELSE entry[mapOf[o][c[1]]][c[1]][c[2]]

\* What record o says, all the way down.
Says(o) == [c \in {d \in Cells : HasCell(o, d)} |-> data[ObjectOf(o, c)][c]]

\* The template's slices and maps are its own; CustomData may be nil, and an
\* entry a nil slice.
Init ==
  /\ slice = [o \in Owners |-> [f \in Slices |-> o]]
  /\ \E nilMaps \in SUBSET {"CustomData"} :
       mapOf = [o \in Owners |-> [f \in Maps |->
                  IF o = Template /\ f \notin nilMaps THEN o ELSE Nil]]
  /\ entry = [o \in Owners |-> [f \in Maps |->
                [k \in IF o = Template THEN Keys ELSE {} |-> o]]]
  /\ \E v \in {"nil", "a"} :
       data = [o \in Owners |-> [c \in Cells |-> IF c[1] \in Maps THEN v ELSE "a"]]
  /\ status = [r \in Records |-> "new"]
  /\ asked = [r \in Records |-> <<>>]
  /\ edited = Nil
  /\ edits = 0

-------------------------------------------------------------------------------
(***************************************************************************)
(* Clone.                                                                  *)
(***************************************************************************)

\* Mutant: the entries of the maps are not copied, only the maps.
OwnEntry_Shallow(f, k) == f = "CustomData" /\ CustomKind[k] # "ref"

\* Mutant: cloneCustomData does not look for Cloner.
OwnEntry_NoCloner(f, k) == f = "CustomData" => CustomKind[k] = "plain"

\* The clone gets an object of its own for key k of map f: always for a slice
\* of entries; in CustomData for plain data, which is copied with the map, and
\* for a Cloner, not for another reference.
OwnEntry(f, k) == f = "CustomData" => CustomKind[k] # "ref"

\* Mutant: Clone does not assign what cloneTargetResources returned, but nil.
CloneOfMap_Forgets(r, f) == IF f = "TargetResources" THEN Nil ELSE r

\* cloneCallerIdentities, cloneTargetResources, cloneCustomData: nil for nil,
\* else a new map.
CloneOfMap(r, f) == IF mapOf[Template][f] = Nil THEN Nil ELSE r

\* make() and copy() turn a nil slice of entries into an empty one;
\* slices.Clone keeps nil, and CustomData's values are what they are.
CopyOf(c, v) == IF v = "nil" /\ c[1] \in {"CallerIdentities", "TargetResources"}
                THEN "empty" ELSE v

\* r becomes template.Clone().
Clone(r) ==
  /\ status[r] = "new"
  /\ status' = [status EXCEPT ![r] = "cloned"]
  /\ slice' = [slice EXCEPT ![r] = [f \in Slices |-> r]]
  /\ mapOf' = [mapOf EXCEPT ![r] = [f \in Maps |-> CloneOfMap(r, f)]]
  /\ entry' = [entry EXCEPT ![r] =
                 [f \in Maps |->
                    [k \in {j \in Keys : HasCell(Template, <<f, j>>)} |->
                       IF OwnEntry(f, k) THEN r ELSE ObjectOf(Template, <<f, k>>)]]]
  /\ data' = [data EXCEPT ![r] =
                [c \in Cells |-> IF HasCell(Template, c)
                                 THEN CopyOf(c, data[ObjectOf(Template, c)][c])
                                 ELSE @[c]]]
  /\ edited' = Nil
  /\ UNCHANGED <<asked, edits>>

-------------------------------------------------------------------------------
(***************************************************************************)
(* The user, who goes on with the template and with clones not yet sent.   *)
(* That a record is changed through the very variable it was sent from is  *)
(* not Clone's concern.                                                    *)
(***************************************************************************)

\* The clone is sent: Send queues the Msg, and not what it refers to.
Send(r) ==
  /\ status[r] = "cloned"
  /\ status' = [status EXCEPT ![r] = "queued"]
  /\ asked' = [asked EXCEPT ![r] = Says(r)]
  /\ edited' = Nil
  /\ UNCHANGED <<objects, edits>>

Edits(o) ==
  /\ o \in {Template} \cup {r \in Records : status[r] = "cloned"}
  /\ edits < MaxEdits
  /\ edits' = edits + 1
  /\ edited' = o
  /\ UNCHANGED <<slice, mapOf, status, asked>>

\* An element of a slice, or what a value of CustomData refers to, is changed.
EditObject(o, c) ==
  /\ Edits(o)
  /\ HasCell(o, c)
  /\ data[ObjectOf(o, c)][c] \notin {"nil", "empty"}
  /\ \E v \in {"a", "b"} \ {data[ObjectOf(o, c)][c]} :
       data' = [data EXCEPT ![ObjectOf(o, c)][c] = v]
  /\ UNCHANGED entry

\* A key of a map is deleted.
DeleteKey(o, f, k) ==
  /\ Edits(o)
  /\ HasCell(o, <<f, k>>)
  /\ entry' = [entry EXCEPT ![mapOf[o][f]][f] = [j \in DOMAIN @ \ {k} |-> @[j]]]
  /\ UNCHANGED data

Next == \/ \E r \in Records : Clone(r) \/ Send(r)
        \/ \E o \in Owners : \/ \E c \in Cells : EditObject(o, c)
                             \/ \E f \in Maps, k \in Keys : DeleteKey(o, f, k)

Spec == Init /\ [][Next]_vars

-------------------------------------------------------------------------------
\* All of s but what the documentation excepts: values of CustomData that are
\* references and implement no Cloner.
Solid(s) ==
  [c \in {d \in DOMAIN s : d[1] = "CustomData" => CustomKind[d[2]] # "ref"} |-> s[c]]

\* A Clone() can be sent and its template edited at once: until it is written,
\* a queued clone says what it said when Send validated it, whatever the user
\* does meanwhile to the template and to clones made before or after.
QueuedIsFrozen ==
  \A r \in Records : status[r] = "queued" => Solid(Says(r)) = Solid(asked[r])

\* "A deep clone": editing one record changes no other, in either direction
\* and through however many clones and deletions.
EditsStayPut ==
  [][\A o \in ({Template} \cup {r \in Records : status[r] # "new"}) \ {edited'} :
       Solid(Says(o))' = Solid(Says(o))]_vars

Alike(v, w) == v = w \/ {v, w} = {"nil", "empty"}

\* A clone says what its template says at that moment, the values of CustomData
\* that stay shared included, and is nil where the template is; only a nil slice
\* of entries comes back empty.
CloneIsEqual ==
  [][\A r \in Records : status[r] = "new" /\ status'[r] = "cloned" =>
       /\ \A f \in Maps : (mapOf'[r][f] = Nil) = (mapOf[Template][f] = Nil)
       /\ DOMAIN Says(r)' = DOMAIN Says(Template)
       /\ \A c \in DOMAIN Says(Template) : Alike(Says(r)'[c], Says(Template)[c])]_vars
===============================================================================
