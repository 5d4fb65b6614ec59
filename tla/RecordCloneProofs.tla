--------------------------- MODULE RecordCloneProofs ---------------------------
(***************************************************************************)
(* What holds of RecordClone for any number of clones, keys and edits and  *)
(* for values of CustomData of every kind.                                 *)
(*                                                                         *)
(* The argument: Separate says that whatever a record refers to is its     *)
(* own, but for the CustomData references that implement no Cloner.  So an *)
(* edit through one record reaches no solid cell of another.               *)
(***************************************************************************)
EXTENDS RecordClone, TLAPS

\* What an owner's record refers to is its own, where Clone copies; and all
\* the template's is the template's.
Separate ==
  /\ \A o \in Owners, f \in Slices : slice[o][f] = o
  /\ \A o \in Owners, f \in Maps : mapOf[o][f] \in {o, Nil}
  /\ \A o \in Owners, f \in Maps : \A k \in DOMAIN entry[o][f] :
       o = Template \/ OwnEntry(f, k) => entry[o][f][k] = o

-------------------------------------------------------------------------------
(***************************************************************************)
(* Type correctness.                                                       *)
(***************************************************************************)

\* A map of entries is a function from some of the keys to owners.
LEMMA EntriesAre ==
  /\ \A e \in Entries : DOMAIN e \subseteq Keys /\ e \in [DOMAIN e -> Owners]
  /\ \A ks \in SUBSET Keys : [ks -> Owners] \subseteq Entries
  BY DEF Entries

\* Deleting a key leaves such a function.
LEMMA DeletedEntries ==
  ASSUME NEW e \in Entries, NEW k
  PROVE  [j \in DOMAIN e \ {k} |-> e[j]] \in Entries
<1> DEFINE ks == DOMAIN e \ {k}
<1>1. ks \in SUBSET Keys /\ [j \in ks |-> e[j]] \in [ks -> Owners]
  BY EntriesAre
<1> QED BY <1>1, EntriesAre

\* A cell is one of a slice or one of a key of a map.
LEMMA CellsAre ==
  \A c \in Cells : /\ c = <<c[1], c[2]>>
                   /\ \/ c[1] \in Slices /\ c[1] \notin Maps /\ c[2] = NoKey
                      \/ c[1] \in Maps /\ c[1] \notin Slices /\ c[2] \in Keys
  BY DEF Cells, Slices, Maps

\* The object in a cell was allocated by some owner.
LEMMA ObjectType ==
  ASSUME TypeOK, NEW o \in Owners, NEW c \in Cells, HasCell(o, c)
  PROVE  ObjectOf(o, c) \in Owners
<1>1. CASE c[1] \in Slices
  BY <1>1 DEF TypeOK, ObjectOf
<1>2. CASE c[1] \in Maps /\ c[1] \notin Slices
  <2>1. mapOf[o][c[1]] \in Owners /\ c[2] \in DOMAIN entry[mapOf[o][c[1]]][c[1]]
    BY <1>2 DEF HasCell, TypeOK
  <2>2. entry[mapOf[o][c[1]]][c[1]] \in Entries
    BY <1>2, <2>1 DEF TypeOK
  <2> QED BY <1>2, <2>1, <2>2, EntriesAre DEF ObjectOf
<1> QED BY <1>1, <1>2, CellsAre

\* A record says something in each cell it has.
LEMMA SaysType == ASSUME TypeOK, NEW o \in Owners PROVE Says(o) \in Sayings
<1> DEFINE cs == {d \in Cells : HasCell(o, d)}
<1>1. \A c \in cs : data[ObjectOf(o, c)][c] \in Contents
  BY ObjectType DEF TypeOK
<1>2. Says(o) \in [cs -> Contents]
  BY <1>1 DEF Says
<1> QED BY <1>2 DEF Sayings

\* The template and the records to be made are well formed.
LEMMA TypeInit == Init => TypeOK
<1> SUFFICES ASSUME Init PROVE TypeOK
  OBVIOUS
<1>1. slice \in [Owners -> [Slices -> Owners]]
  BY DEF Init
<1>2. mapOf \in [Owners -> [Maps -> Owners \cup {Nil}]]
  BY DEF Init
<1>3. entry \in [Owners -> [Maps -> Entries]]
  <2>1. \A o \in Owners : [k \in IF o = Template THEN Keys ELSE {} |-> o] \in Entries
    <3> TAKE o \in Owners
    <3>1. CASE o = Template
      BY <3>1, EntriesAre
    <3>2. CASE o # Template
      BY <3>2, EntriesAre
    <3> QED BY <3>1, <3>2
  <2> QED BY <2>1 DEF Init
<1>4. data \in [Owners -> [Cells -> Contents]]
  BY DEF Init, Contents
<1>5. asked \in [Records -> Sayings]
  <2>1. <<>> \in [{} -> Contents]
    OBVIOUS
  <2>2. <<>> \in Sayings
    BY <2>1 DEF Sayings
  <2> QED BY <2>2 DEF Init
<1>6. status \in [Records -> {"new", "cloned", "queued"}]
  BY DEF Init
<1>7. edited \in Owners \cup {Nil} /\ edits \in 0..MaxEdits
  BY CloneAssumption DEF Init
<1> QED BY <1>1, <1>2, <1>3, <1>4, <1>5, <1>6, <1>7 DEF TypeOK

\* A clone has objects of its own or the template's; edits keep to them.
LEMMA TypeStep == TypeOK /\ [Next]_vars => TypeOK'
<1> SUFFICES ASSUME TypeOK, [Next]_vars PROVE TypeOK'
  OBVIOUS
<1> USE DEF objects
<1>1. ASSUME NEW r \in Records, Clone(r) PROVE TypeOK'
  <2>0. r \in Owners /\ Template \in Owners
    BY DEF Owners
  <2>1. slice' \in [Owners -> [Slices -> Owners]]
    BY <1>1, <2>0 DEF Clone, TypeOK
  <2>2. mapOf' \in [Owners -> [Maps -> Owners \cup {Nil}]]
    BY <1>1, <2>0 DEF Clone, CloneOfMap, TypeOK
  <2>3. entry' \in [Owners -> [Maps -> Entries]]
    <3> DEFINE ks(f) == {j \in Keys : HasCell(Template, <<f, j>>)}
               e(f)  == [k \in ks(f) |-> IF OwnEntry(f, k) THEN r
                                         ELSE ObjectOf(Template, <<f, k>>)]
    <3>1. ASSUME NEW f \in Maps PROVE e(f) \in Entries
      <4>1. \A k \in ks(f) : ObjectOf(Template, <<f, k>>) \in Owners
        BY <2>0, ObjectType DEF Cells
      <4>2. e(f) \in [ks(f) -> Owners]
        BY <2>0, <4>1
      <4> QED BY <4>2, EntriesAre
    <3>2. entry' = [entry EXCEPT ![r] = [f \in Maps |-> e(f)]]
      BY <1>1 DEF Clone
    <3> HIDE DEF e
    <3> QED BY <2>0, <3>1, <3>2 DEF TypeOK
  <2>4. data' \in [Owners -> [Cells -> Contents]]
    <3> DEFINE d == [c \in Cells |-> IF HasCell(Template, c)
                                     THEN CopyOf(c, data[ObjectOf(Template, c)][c])
                                     ELSE data[r][c]]
    <3>1. ASSUME NEW c \in Cells, HasCell(Template, c)
          PROVE  CopyOf(c, data[ObjectOf(Template, c)][c]) \in Contents
      <4>1. data[ObjectOf(Template, c)][c] \in Contents
        BY <2>0, <3>1, ObjectType DEF TypeOK
      <4> QED BY <4>1 DEF CopyOf, Contents
    <3>2. d \in [Cells -> Contents]
      BY <2>0, <3>1 DEF TypeOK
    <3>3. data' = [data EXCEPT ![r] = d]
      BY <1>1, <2>0 DEF Clone, TypeOK
    <3> HIDE DEF d
    <3> QED BY <2>0, <3>2, <3>3 DEF TypeOK
  <2>5. status' \in [Records -> {"new", "cloned", "queued"}]
    BY <1>1 DEF Clone, TypeOK
  <2> QED BY <1>1, <2>1, <2>2, <2>3, <2>4, <2>5 DEF Clone, TypeOK
<1>2. ASSUME NEW r \in Records, Send(r) PROVE TypeOK'
  <2>1. asked' \in [Records -> Sayings]
    BY <1>2, SaysType DEF Send, TypeOK, Owners
  <2>2. status' \in [Records -> {"new", "cloned", "queued"}]
    BY <1>2 DEF Send, TypeOK
  <2> QED BY <1>2, <2>1, <2>2 DEF Send, TypeOK
<1>3. ASSUME NEW o \in Owners, Edits(o)
      PROVE  /\ UNCHANGED <<slice, mapOf, status, asked>>
             /\ edited' \in Owners \cup {Nil} /\ edits' \in 0..MaxEdits
  BY <1>3, CloneAssumption DEF Edits, TypeOK
<1>4. ASSUME NEW o \in Owners, NEW c \in Cells, EditObject(o, c) PROVE TypeOK'
  <2>1. ObjectOf(o, c) \in Owners
    BY <1>4, ObjectType DEF EditObject
  <2>2. PICK v \in Contents : data' = [data EXCEPT ![ObjectOf(o, c)][c] = v]
    BY <1>4 DEF EditObject, Contents
  <2>3. data' \in [Owners -> [Cells -> Contents]]
    BY <2>1, <2>2 DEF TypeOK
  <2> QED BY <1>3, <1>4, <2>3 DEF EditObject, TypeOK
<1>5. ASSUME NEW o \in Owners, NEW f \in Maps, NEW k \in Keys, DeleteKey(o, f, k)
      PROVE  TypeOK'
  <2>1. mapOf[o][f] \in Owners
    BY <1>5 DEF DeleteKey, HasCell, TypeOK
  <2>2. [j \in DOMAIN entry[mapOf[o][f]][f] \ {k} |-> entry[mapOf[o][f]][f][j]] \in Entries
    BY <2>1, DeletedEntries DEF TypeOK
  <2>3. entry' \in [Owners -> [Maps -> Entries]]
    BY <1>5, <2>1, <2>2 DEF DeleteKey, TypeOK
  <2> QED BY <1>3, <1>5, <2>3 DEF DeleteKey, TypeOK
<1>6. CASE UNCHANGED vars
  BY <1>6 DEF vars, TypeOK
<1> QED BY <1>1, <1>2, <1>4, <1>5, <1>6 DEF Next

\* Records, their objects and the history of edits keep their types.
THEOREM TypeCorrect == Spec => []TypeOK
<1> QED BY TypeInit, TypeStep, PTL DEF Spec

-------------------------------------------------------------------------------
(***************************************************************************)
(* Separation.                                                             *)
(***************************************************************************)

\* At first only the template refers to anything but its own slices.
LEMMA SeparateInit == Init => Separate
<1> SUFFICES ASSUME Init PROVE Separate
  OBVIOUS
<1>1. \A o \in Owners, f \in Slices : slice[o][f] = o
  BY DEF Init
<1>2. \A o \in Owners, f \in Maps : mapOf[o][f] \in {o, Nil}
  BY DEF Init
<1>3. \A o \in Owners, f \in Maps : \A k \in DOMAIN entry[o][f] : entry[o][f][k] = o
  BY DEF Init
<1> QED BY <1>1, <1>2, <1>3 DEF Separate

\* Clone gives the clone an object of its own wherever OwnEntry says; an edit
\* only takes keys away.
LEMMA SeparateStep == TypeOK /\ Separate /\ [Next]_vars => Separate'
<1> SUFFICES ASSUME TypeOK, Separate, [Next]_vars PROVE Separate'
  OBVIOUS
<1> USE DEF objects
<1>1. ASSUME NEW r \in Records, Clone(r) PROVE Separate'
  <2>0. r \in Owners /\ r # Template
    BY CloneAssumption DEF Owners
  <2>1. \A o \in Owners, f \in Slices : slice'[o][f] = o
    BY <1>1, <2>0 DEF Clone, TypeOK, Separate
  <2>2. \A o \in Owners, f \in Maps : mapOf'[o][f] \in {o, Nil}
    BY <1>1, <2>0 DEF Clone, CloneOfMap, TypeOK, Separate
  <2>3. \A o \in Owners \ {r} : entry'[o] = entry[o]
    BY <1>1 DEF Clone, TypeOK
  <2>4. \A f \in Maps : \A k \in DOMAIN entry'[r][f] :
          OwnEntry(f, k) => entry'[r][f][k] = r
    BY <1>1, <2>0 DEF Clone, TypeOK
  <2> QED BY <2>0, <2>1, <2>2, <2>3, <2>4 DEF Separate
<1>2. ASSUME UNCHANGED <<slice, mapOf, entry>> PROVE Separate'
  BY <1>2 DEF Separate
<1>3. ASSUME NEW o \in Owners, NEW f \in Maps, NEW k \in Keys, DeleteKey(o, f, k)
      PROVE  Separate'
  <2>1. UNCHANGED <<slice, mapOf>>
    BY <1>3 DEF DeleteKey, Edits
  <2>2. mapOf[o][f] \in Owners
    BY <1>3 DEF DeleteKey, HasCell, TypeOK
  <2>3. \A p \in Owners, g \in Maps : \A j \in DOMAIN entry'[p][g] :
          j \in DOMAIN entry[p][g] /\ entry'[p][g][j] = entry[p][g][j]
    BY <1>3, <2>2 DEF DeleteKey, TypeOK
  <2> QED BY <2>1, <2>3 DEF Separate
<1> QED BY <1>1, <1>2, <1>3 DEF Next, Send, EditObject, Edits, vars

-------------------------------------------------------------------------------
(***************************************************************************)
(* What the records say.                                                   *)
(***************************************************************************)

\* The cells that are not excepted by the documentation.
SolidCells == {c \in Cells : c[1] = "CustomData" => CustomKind[c[2]] # "ref"}

\* Two statements agree on the solid cells if they have the same ones and say
\* the same in each.
LEMMA SolidAlike ==
  ASSUME NEW s, NEW t,
         s = [c \in DOMAIN s |-> s[c]], t = [c \in DOMAIN t |-> t[c]],
         DOMAIN s \subseteq Cells, DOMAIN t \subseteq Cells,
         \A c \in SolidCells : /\ c \in DOMAIN s <=> c \in DOMAIN t
                               /\ c \in DOMAIN s => s[c] = t[c]
  PROVE  Solid(s) = Solid(t)
<1> DEFINE D(u) == {d \in DOMAIN u : d[1] = "CustomData" => CustomKind[d[2]] # "ref"}
<1>1. D(s) = D(t) /\ \A c \in D(s) : s[c] = t[c]
  BY DEF SolidCells
<1>2. Solid(s) = [c \in D(s) |-> s[c]] /\ Solid(t) = [c \in D(t) |-> t[c]]
  BY DEF Solid
<1> HIDE DEF D
<1> QED BY <1>1, <1>2

\* What a record says in a solid cell is in an object of its own, which its
\* own maps or slices lead to.
LEMMA SolidIsOwn ==
  ASSUME TypeOK, Separate, NEW o \in Owners, NEW c \in SolidCells, HasCell(o, c)
  PROVE  ObjectOf(o, c) = o
<1>1. CASE c[1] \in Slices
  BY <1>1 DEF ObjectOf, Separate
<1>2. CASE c[1] \in Maps /\ c[1] \notin Slices
  <2>1. mapOf[o][c[1]] = o /\ c[2] \in DOMAIN entry[o][c[1]]
    BY <1>2 DEF HasCell, Separate
  <2>2. OwnEntry(c[1], c[2])
    BY DEF OwnEntry, SolidCells
  <2> QED BY <1>2, <2>1, <2>2 DEF ObjectOf, Separate
<1> QED BY <1>1, <1>2, CellsAre DEF SolidCells

\* A record whose own maps and solid objects stay put says what it said.
LEMMA SaysFrame ==
  ASSUME TypeOK, Separate, Separate', NEW o \in Owners,
         UNCHANGED <<mapOf[o], entry[o]>>,
         \A c \in SolidCells : data'[o][c] = data[o][c]
  PROVE  Solid(Says(o))' = Solid(Says(o))
<1>1. \A c \in SolidCells : HasCell(o, c)' <=> HasCell(o, c)
  <2> TAKE c \in SolidCells
  <2>1. CASE c[1] \in Slices /\ c[1] \notin Maps
    BY <2>1 DEF HasCell
  <2>2. CASE c[1] \in Maps
    BY <2>2 DEF HasCell, Separate
  <2> QED BY <2>1, <2>2, CellsAre DEF SolidCells
<1>2. ASSUME NEW c \in SolidCells, HasCell(o, c) PROVE ObjectOf(o, c)' = o
  <2>1. CASE c[1] \in Slices
    BY <2>1 DEF ObjectOf, Separate
  <2>2. CASE c[1] \in Maps /\ c[1] \notin Slices
    <3>1. mapOf'[o][c[1]] = o /\ c[2] \in DOMAIN entry'[o][c[1]]
      BY <1>2, <2>2 DEF HasCell, Separate
    <3>2. OwnEntry(c[1], c[2])
      BY DEF OwnEntry, SolidCells
    <3> QED BY <2>2, <3>1, <3>2 DEF ObjectOf, Separate
  <2> QED BY <2>1, <2>2, CellsAre DEF SolidCells
<1>3. \A c \in SolidCells : HasCell(o, c) => ObjectOf(o, c) = o
  BY SolidIsOwn
<1> DEFINE s == Says(o)'
           t == Says(o)
<1>4. /\ DOMAIN s = {c \in Cells : HasCell(o, c)'}
      /\ DOMAIN t = {c \in Cells : HasCell(o, c)}
      /\ s = [c \in DOMAIN s |-> s[c]] /\ t = [c \in DOMAIN t |-> t[c]]
  BY DEF Says
<1>5. ASSUME NEW c \in SolidCells, HasCell(o, c) PROVE s[c] = t[c]
  <2>1. s[c] = data'[o][c]
    BY <1>1, <1>2, <1>5 DEF Says, SolidCells
  <2>2. t[c] = data[o][c]
    BY <1>3, <1>5 DEF Says, SolidCells
  <2> QED BY <2>1, <2>2
<1>6. Solid(s) = Solid(t)
  <2>1. \A c \in SolidCells : /\ c \in DOMAIN s <=> c \in DOMAIN t
                              /\ c \in DOMAIN s => s[c] = t[c]
    BY <1>1, <1>4, <1>5 DEF SolidCells
  <2>2. DOMAIN s \subseteq Cells /\ DOMAIN t \subseteq Cells
    BY <1>4
  <2> HIDE DEF s, t
  <2> QED BY <1>4, <2>1, <2>2, SolidAlike
<1> QED BY <1>6 DEF Solid

\* A record that exists.
Made == {Template} \cup {r \in Records : status[r] # "new"}

\* A step changes what a record says, in a solid cell, only by editing it.
LEMMA OnlyItsEdits ==
  ASSUME TypeOK, Separate, [Next]_vars, NEW o \in Made, o # edited'
  PROVE  Solid(Says(o))' = Solid(Says(o))
<1> USE DEF objects
<1>1. Separate' /\ o \in Owners
  BY SeparateStep DEF Made, Owners
<1>2. ASSUME NEW r \in Records, Clone(r) PROVE Solid(Says(o))' = Solid(Says(o))
  <2>1. o # r
    BY <1>2, CloneAssumption DEF Made, Clone
  <2>2. UNCHANGED <<mapOf[o], entry[o], data[o]>>
    BY <1>1, <1>2, <2>1 DEF Clone, TypeOK
  <2> QED BY <1>1, <2>2, SaysFrame
<1>3. ASSUME NEW p \in Owners, NEW c \in Cells, EditObject(p, c)
      PROVE  Solid(Says(o))' = Solid(Says(o))
  <2>1. p # o /\ UNCHANGED <<mapOf, entry>>
    BY <1>3 DEF EditObject, Edits
  <2>2. c \in SolidCells => ObjectOf(p, c) = p
    BY <1>3, SolidIsOwn DEF EditObject
  <2>3. \A d \in SolidCells : data'[o][d] = data[o][d]
    <3>1. PICK v \in Contents : data' = [data EXCEPT ![ObjectOf(p, c)][c] = v]
      BY <1>3 DEF EditObject, Contents
    <3>2. ObjectOf(p, c) \in Owners
      BY <1>3, ObjectType DEF EditObject
    <3> QED BY <1>1, <2>1, <2>2, <3>1, <3>2 DEF TypeOK, SolidCells
  <2> QED BY <1>1, <2>1, <2>3, SaysFrame
<1>4. ASSUME NEW p \in Owners, NEW f \in Maps, NEW k \in Keys, DeleteKey(p, f, k)
      PROVE  Solid(Says(o))' = Solid(Says(o))
  <2>1. p # o /\ UNCHANGED <<mapOf, data>>
    BY <1>4 DEF DeleteKey, Edits
  <2>2. mapOf[p][f] = p
    BY <1>4 DEF DeleteKey, HasCell, Separate
  <2>3. entry'[o] = entry[o]
    BY <1>1, <1>4, <2>1, <2>2 DEF DeleteKey, TypeOK
  <2> QED BY <1>1, <2>1, <2>3, SaysFrame
<1>5. CASE UNCHANGED <<mapOf, entry, data>>
  BY <1>1, <1>5, SaysFrame
<1> QED BY <1>2, <1>3, <1>4, <1>5 DEF Next, Send, vars

\* What Separate says holds in every state.
LEMMA SeparateAlways == Spec => [](TypeOK /\ Separate)
<1>1. Init => TypeOK /\ Separate
  BY TypeInit, SeparateInit
<1>2. TypeOK /\ Separate /\ [Next]_vars => (TypeOK /\ Separate)'
  BY TypeStep, SeparateStep
<1> QED BY <1>1, <1>2, PTL DEF Spec

\* However many records are cloned and edited, an edit through one is seen in
\* no other, but for the values the documentation excepts.
THEOREM EditsStayPutAlways == Spec => EditsStayPut
<1>1. TypeOK /\ Separate /\ [Next]_vars =>
        [\A o \in ({Template} \cup {r \in Records : status[r] # "new"}) \ {edited'} :
           Solid(Says(o))' = Solid(Says(o))]_vars
  BY OnlyItsEdits DEF Made
<1> QED BY <1>1, SeparateAlways, PTL DEF Spec, EditsStayPut

-------------------------------------------------------------------------------
(***************************************************************************)
(* Queued clones.                                                          *)
(***************************************************************************)

\* The user no longer edits a record it has sent, so that nobody changes what
\* the queued record says.
LEMMA FrozenStep ==
  TypeOK /\ Separate /\ QueuedIsFrozen /\ [Next]_vars => QueuedIsFrozen'
<1> SUFFICES ASSUME TypeOK, Separate, QueuedIsFrozen, [Next]_vars,
                    NEW r \in Records, status'[r] = "queued"
             PROVE  Solid(Says(r))' = Solid(asked'[r])
  BY DEF QueuedIsFrozen, Solid
<1> USE DEF objects
<1>1. CASE Send(r)
  <2>1. Says(r)' = Says(r) /\ asked'[r] = Says(r)
    BY <1>1 DEF Send, Says, HasCell, ObjectOf, TypeOK
  <2> QED BY <2>1 DEF Solid
<1>2. CASE ~Send(r)
  <2>1. status[r] = "queued" /\ asked'[r] = asked[r]
    BY <1>2 DEF Next, Clone, Send, EditObject, DeleteKey, Edits, vars, TypeOK
  <2>2. CASE edited' = edited /\ UNCHANGED objects
    <3>1. Says(r)' = Says(r)
      BY <2>2 DEF Says, HasCell, ObjectOf
    <3> QED BY <2>1, <3>1 DEF QueuedIsFrozen, Solid
  <2>3. CASE ~(edited' = edited /\ UNCHANGED objects)
    <3>1. r # edited'
      <4>1. edited' = Nil \/ edited' = Template \/ status[edited'] = "cloned"
        BY <2>3 DEF Next, Clone, Send, EditObject, DeleteKey, Edits, vars
      <4> QED BY <2>1, <4>1, CloneAssumption DEF Owners
    <3>2. Solid(Says(r))' = Solid(Says(r))
      BY <2>1, <3>1, OnlyItsEdits DEF Made
    <3> QED BY <2>1, <3>2 DEF QueuedIsFrozen
  <2> QED BY <2>2, <2>3
<1> QED BY <1>1, <1>2

\* Of any number of clones, each stays in the queue what it was when it was
\* sent, whatever happens to the template and the other clones.
THEOREM QueuedIsFrozenAlways == Spec => []QueuedIsFrozen
<1>1. Init => QueuedIsFrozen
  BY DEF Init, QueuedIsFrozen
<1>2. TypeOK /\ Separate /\ QueuedIsFrozen /\ [Next]_vars => QueuedIsFrozen'
  BY FrozenStep
<1> QED BY <1>1, <1>2, SeparateAlways, PTL DEF Spec

-------------------------------------------------------------------------------
(***************************************************************************)
(* Clone copies.                                                           *)
(***************************************************************************)

\* A fresh clone has the cells of its template and says the same in them, but
\* for nil slices of entries.
LEMMA CloneCopies ==
  ASSUME TypeOK, Separate, NEW r \in Records, Clone(r)
  PROVE  /\ \A f \in Maps : (mapOf'[r][f] = Nil) = (mapOf[Template][f] = Nil)
         /\ DOMAIN Says(r)' = DOMAIN Says(Template)
         /\ \A c \in DOMAIN Says(Template) : Alike(Says(r)'[c], Says(Template)[c])
<1>0. r \in Owners /\ Template \in Owners /\ r # Template /\ r # Nil
  BY CloneAssumption DEF Owners
<1>1. \A f \in Maps : mapOf'[r][f] = CloneOfMap(r, f)
  BY <1>0 DEF Clone, TypeOK
<1>2. \A f \in Maps : (mapOf'[r][f] = Nil) <=> (mapOf[Template][f] = Nil)
  BY <1>0, <1>1 DEF CloneOfMap
<1>3. \A c \in Cells : HasCell(r, c)' <=> HasCell(Template, c)
  <2> TAKE c \in Cells
  <2>1. CASE c[1] \notin Maps
    BY <2>1 DEF HasCell
  <2>2. CASE c[1] \in Maps /\ mapOf[Template][c[1]] = Nil
    BY <1>2, <2>2 DEF HasCell
  <2>3. CASE c[1] \in Maps /\ mapOf[Template][c[1]] # Nil
    <3>1. mapOf'[r][c[1]] = r
      BY <1>1, <2>3 DEF CloneOfMap
    <3>2. DOMAIN entry'[r][c[1]] = {j \in Keys : HasCell(Template, <<c[1], j>>)}
      BY <1>0, <2>3 DEF Clone, TypeOK
    <3>3. c = <<c[1], c[2]>> /\ c[2] \in Keys
      BY <2>3, CellsAre
    <3>4. c[2] \in DOMAIN entry'[r][c[1]] <=> HasCell(Template, c)
      BY <3>2, <3>3
    <3>5. HasCell(r, c)' <=> c[2] \in DOMAIN entry'[r][c[1]]
      BY <1>0, <2>3, <3>1 DEF HasCell
    <3> QED BY <3>4, <3>5
  <2> QED BY <2>1, <2>2, <2>3
<1>4. ASSUME NEW c \in Cells, HasCell(Template, c)
      PROVE  Alike(data'[ObjectOf(r, c)'][c], data[ObjectOf(Template, c)][c])
  <2>1. ObjectOf(Template, c) = Template
    <3>1. CASE c[1] \in Slices
      BY <1>0, <3>1 DEF ObjectOf, Separate
    <3>2. CASE c[1] \in Maps /\ c[1] \notin Slices
      BY <1>0, <1>4, <3>2 DEF ObjectOf, HasCell, Separate
    <3> QED BY <3>1, <3>2, CellsAre
  <2>2. data'[r][c] = CopyOf(c, data[Template][c]) /\ data'[Template] = data[Template]
    BY <1>0, <1>4, <2>1 DEF Clone, TypeOK
  <2>3. ObjectOf(r, c)' \in {r, Template}
    <3>1. CASE c[1] \in Slices
      BY <1>0, <3>1 DEF ObjectOf, Clone, TypeOK
    <3>2. CASE c[1] \in Maps /\ c[1] \notin Slices
      <4>1. mapOf'[r][c[1]] = r
        BY <1>1, <1>4, <3>2 DEF CloneOfMap, HasCell
      <4>2. c = <<c[1], c[2]>> /\ c[2] \in Keys
        BY <3>2, CellsAre
      <4>3. entry'[r][c[1]][c[2]] = IF OwnEntry(c[1], c[2]) THEN r
                                    ELSE ObjectOf(Template, <<c[1], c[2]>>)
        BY <1>0, <1>4, <3>2, <4>2 DEF Clone, TypeOK
      <4>4. ObjectOf(r, c)' = entry'[r][c[1]][c[2]]
        BY <3>2, <4>1 DEF ObjectOf
      <4> QED BY <2>1, <4>2, <4>3, <4>4
    <3> QED BY <3>1, <3>2, CellsAre
  <2>4. Alike(CopyOf(c, data[Template][c]), data[Template][c])
    BY DEF Alike, CopyOf
  <2>5. Alike(data[Template][c], data[Template][c])
    BY DEF Alike
  <2> QED BY <2>1, <2>2, <2>3, <2>4, <2>5
<1>5. /\ DOMAIN Says(r)' = {c \in Cells : HasCell(r, c)'}
      /\ DOMAIN Says(Template) = {c \in Cells : HasCell(Template, c)}
  BY DEF Says
<1>6. DOMAIN Says(r)' = DOMAIN Says(Template)
  BY <1>3, <1>5
<1>7. ASSUME NEW c \in DOMAIN Says(Template)
      PROVE  Alike(Says(r)'[c], Says(Template)[c])
  <2>1. c \in Cells /\ HasCell(Template, c) /\ HasCell(r, c)'
    BY <1>3, <1>5
  <2>2. Says(r)'[c] = data'[ObjectOf(r, c)'][c]
    BY <2>1 DEF Says
  <2>3. Says(Template)[c] = data[ObjectOf(Template, c)][c]
    BY <2>1 DEF Says
  <2> QED BY <1>4, <2>1, <2>2, <2>3
<1> QED BY <1>2, <1>6, <1>7

\* Whatever the template has become by edits, a clone equals it when made.
THEOREM CloneIsEqualAlways == Spec => CloneIsEqual
<1>1. ASSUME TypeOK, Separate, [Next]_vars, NEW r \in Records,
             status[r] = "new", status'[r] = "cloned"
      PROVE  Clone(r)
  <2>1. PICK q \in Records : Clone(q) \/ Send(q)
    BY <1>1 DEF Next, EditObject, DeleteKey, Edits, vars
  <2>2. ~Send(q) /\ q = r
    BY <1>1, <2>1 DEF Clone, Send, TypeOK
  <2> QED BY <2>1, <2>2
<1>2. TypeOK /\ Separate /\ [Next]_vars =>
        [\A r \in Records : status[r] = "new" /\ status'[r] = "cloned" =>
           /\ \A f \in Maps : (mapOf'[r][f] = Nil) = (mapOf[Template][f] = Nil)
           /\ DOMAIN Says(r)' = DOMAIN Says(Template)
           /\ \A c \in DOMAIN Says(Template) :
                Alike(Says(r)'[c], Says(Template)[c])]_vars
  BY <1>1, CloneCopies
<1> QED BY <1>2, SeparateAlways, PTL DEF Spec, CloneIsEqual

===============================================================================
