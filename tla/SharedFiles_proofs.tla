------------------------- MODULE SharedFiles_proofs -------------------------
(***************************************************************************)
(* The index of the shared files, for any files, names, folders and chunk  *)
(* size and any number of changes and commands: what is listed can be      *)
(* found, nothing is offered while sharing is disabled, the number of      *)
(* files that the others see is corrected; and, as long as nothing was     *)
(* read while a message about it waited and no scan lost its name to an    *)
(* old report, the reference counts are exact and the index agrees with    *)
(* the disk once everything has settled (AgreeInv).                        *)
(***************************************************************************)
EXTENDS SharedFiles, FiniteSetTheorems, TLAPS

Somewhere == Places \cup {Gone}

Tables ==
  [watched : SUBSET Dirs, entry : [Files -> Somewhere], count : [Names -> Nat],
   ref : [Names -> Somewhere], twice : SUBSET Names]

Events ==
  [op : {"created", "moved"}, node : Files, to : Somewhere]
    \cup [op : {"removed"}, node : Files]
    \cup [op : {"dirIn", "dirOut"}, node : Subfolders]

TypeOK ==
  /\ disk \in [at : [Files -> Somewhere], inside : SUBSET Dirs, monitored : SUBSET Dirs]
  /\ events \in Seq(Events)
  /\ tab \in Tables

-----------------------------------------------------------------------------
(* Reference counts *)

\* The files that tables t list under a name, and the two claims about t: a name has
\* references enough, and its entry leads to the file, unless it was counted twice.
Holders(t, name) == {f \in Files : t.entry[f] # Gone /\ t.entry[f][2] = name}
Counts(t) == \A name \in Names : Cardinality(Holders(t, name)) <= t.count[name]
Leads(t) ==
  \A name \in Names \ t.twice : \A f \in Holders(t, name) : t.entry[f] = t.ref[name]
Findable(t) == Counts(t) /\ Leads(t)

\* The fields that the changes of a folder or a file keep.
Record(t) ==
  t = [watched |-> t.watched, entry |-> t.entry, count |-> t.count, ref |-> t.ref,
       twice |-> t.twice]

LEMMA HoldersFinite ==
  \A t, name : IsFiniteSet(Holders(t, name)) /\ Cardinality(Holders(t, name)) \in Nat
<1> SUFFICES ASSUME NEW t, NEW name
             PROVE  IsFiniteSet(Holders(t, name)) /\ Cardinality(Holders(t, name)) \in Nat
  OBVIOUS
<1>1. Holders(t, name) \subseteq Files
  BY DEF Holders
<1> QED
  BY <1>1, FilesAssumption, FS_Subset, FS_CardinalityType

LEMMA Uncounted ==
  ASSUME NEW t, Counts(t), NEW name \in Names, t.count[name] = 0
  PROVE  Holders(t, name) = {}
<1>1. IsFiniteSet(Holders(t, name)) /\ Cardinality(Holders(t, name)) = 0
  BY HoldersFinite DEF Counts
<1> QED
  BY <1>1, FS_EmptySet

\* What AddFile() and the reference counts do to the tables, field by field.
LEMMA RefFilenameFields ==
  ASSUME NEW t \in Tables, NEW place, place[2] \in Names
  PROVE  LET w == RefFilename(t, place)
             name == place[2] IN
         /\ Record(w) /\ w.watched = t.watched /\ w.entry = t.entry
         /\ w.count = [t.count EXCEPT ![name] = @ + 1]
         /\ w.ref = IF t.count[name] > 0 THEN t.ref ELSE [t.ref EXCEPT ![name] = place]
         /\ w.twice = IF t.count[name] > 0 THEN t.twice \cup {name} ELSE t.twice \ {name}
<1> DEFINE name == place[2]
<1>0. t.count[name] \in Nat /\ Record(t)
  BY DEF Tables, Record
<1>1. CASE t.count[name] > 0
  <2>1. RefFilename(t, place)
          = [watched |-> t.watched, entry |-> t.entry,
             count |-> [t.count EXCEPT ![name] = @ + 1], ref |-> t.ref,
             twice |-> t.twice \cup {name}]
    BY <1>0, <1>1 DEF RefFilename, Record
  <2> QED
    BY <1>1, <2>1 DEF Record
<1>2. CASE ~(t.count[name] > 0)
  <2>1. t.count[name] = 0
    BY <1>0, <1>2
  <2>2. [t.count EXCEPT ![name] = 1] = [t.count EXCEPT ![name] = @ + 1]
    BY <2>1
  <2>3. RefFilename(t, place)
          = [watched |-> t.watched, entry |-> t.entry,
             count |-> [t.count EXCEPT ![name] = 1],
             ref |-> [t.ref EXCEPT ![name] = place], twice |-> t.twice \ {name}]
    BY <1>0, <1>2 DEF RefFilename, Record
  <2> QED
    BY <1>2, <2>2, <2>3 DEF Record
<1> QED
  BY <1>1, <1>2

LEMMA UnrefFilenameFields ==
  ASSUME NEW t \in Tables, NEW name \in Names
  PROVE  LET w == UnrefFilename(t, name)
             c == IF t.count[name] > 0 THEN t.count[name] - 1 ELSE 0 IN
         /\ Record(w) /\ w.watched = t.watched /\ w.entry = t.entry
         /\ w.count = [t.count EXCEPT ![name] = c]
         /\ w.ref = IF t.count[name] > 1 THEN t.ref ELSE [t.ref EXCEPT ![name] = Gone]
         /\ w.twice = IF t.count[name] > 1 THEN t.twice ELSE t.twice \ {name}
<1> DEFINE c == IF t.count[name] > 0 THEN t.count[name] - 1 ELSE 0
<1>0. t.count[name] \in Nat /\ Record(t)
  BY DEF Tables, Record
<1>1. CASE t.count[name] > 1
  <2>1. c = t.count[name] - 1
    BY <1>0, <1>1
  <2>2. UnrefFilename(t, name)
          = [watched |-> t.watched, entry |-> t.entry,
             count |-> [t.count EXCEPT ![name] = t.count[name] - 1], ref |-> t.ref,
             twice |-> t.twice]
    BY <1>0, <1>1 DEF UnrefFilename, Record
  <2> HIDE DEF c
  <2> QED
    BY <1>1, <2>1, <2>2 DEF Record, c
<1>2. CASE ~(t.count[name] > 1)
  <2>1. c = 0
    BY <1>0, <1>2
  <2>2. UnrefFilename(t, name)
          = [watched |-> t.watched, entry |-> t.entry,
             count |-> [t.count EXCEPT ![name] = 0],
             ref |-> [t.ref EXCEPT ![name] = Gone], twice |-> t.twice \ {name}]
    BY <1>0, <1>2 DEF UnrefFilename, Record
  <2> HIDE DEF c
  <2> QED
    BY <1>2, <2>1, <2>2 DEF Record, c
<1> QED
  BY <1>1, <1>2

LEMMA EntryFields ==
  ASSUME NEW t, Record(t), NEW f, NEW place
  PROVE  LET w == [t EXCEPT !.entry[f] = place] IN
         /\ Record(w) /\ w.watched = t.watched /\ w.count = t.count
         /\ w.ref = t.ref /\ w.twice = t.twice
         /\ w.entry = [t.entry EXCEPT ![f] = place]
<1> DEFINE w == [t EXCEPT !.entry[f] = place]
<1>1. w = [watched |-> t.watched, entry |-> [t.entry EXCEPT ![f] = place],
           count |-> t.count, ref |-> t.ref, twice |-> t.twice]
  BY DEF Record
<1> QED
  BY <1>1 DEF Record

LEMMA AddedFields ==
  ASSUME NEW t \in Tables, NEW f \in Files, NEW place \in Somewhere, place[2] \in Names
  PROVE  LET u == AddFile(t, f, place)
             name == place[2] IN
         /\ Record(u) /\ u.watched = t.watched
         /\ u.entry = [t.entry EXCEPT ![f] = place]
         /\ u.count = [t.count EXCEPT ![name] = @ + 1]
         /\ u.ref = IF t.count[name] > 0 THEN t.ref ELSE [t.ref EXCEPT ![name] = place]
         /\ u.twice = IF t.count[name] > 0 THEN t.twice \cup {name} ELSE t.twice \ {name}
<1> DEFINE w == RefFilename(t, place)
<1>1. /\ Record(w) /\ w.watched = t.watched /\ w.entry = t.entry
      /\ w.count = [t.count EXCEPT ![place[2]] = @ + 1]
      /\ w.ref = IF t.count[place[2]] > 0 THEN t.ref ELSE [t.ref EXCEPT ![place[2]] = place]
      /\ w.twice = IF t.count[place[2]] > 0 THEN t.twice \cup {place[2]}
                   ELSE t.twice \ {place[2]}
  BY RefFilenameFields
<1>2. AddFile(t, f, place) = [w EXCEPT !.entry[f] = place]
  BY DEF AddFile
<1> HIDE DEF w
<1> QED
  BY <1>1, <1>2, EntryFields DEF Record

\* A name has at most one holder more when one file is entered under it.
LEMMA AddFileFindable ==
  ASSUME NEW t \in Tables, Findable(t), NEW f \in Files, NEW place \in Somewhere,
         place[2] \in Names
  PROVE  AddFile(t, f, place) \in Tables /\ Findable(AddFile(t, f, place))
<1> DEFINE u == AddFile(t, f, place)
<1>1. /\ Record(u) /\ u.watched = t.watched
      /\ u.entry = [t.entry EXCEPT ![f] = place]
      /\ u.count = [t.count EXCEPT ![place[2]] = @ + 1]
      /\ u.ref = IF t.count[place[2]] > 0 THEN t.ref ELSE [t.ref EXCEPT ![place[2]] = place]
      /\ u.twice = IF t.count[place[2]] > 0 THEN t.twice \cup {place[2]}
                   ELSE t.twice \ {place[2]}
  <2> HIDE DEF u
  <2>1. u = AddFile(t, f, place)
    BY DEF u
  <2> QED
    BY <2>1, AddedFields
<1> HIDE DEF u
<1>2. u \in Tables
  <2>1. u.entry \in [Files -> Somewhere] /\ u.watched \in SUBSET Dirs
        /\ u.count \in [Names -> Nat]
    BY <1>1 DEF Tables
  <2>2. u.ref \in [Names -> Somewhere] /\ u.twice \in SUBSET Names
    BY <1>1 DEF Tables
  <2> QED
    BY <1>1, <2>1, <2>2 DEF Tables, Record
<1>3. ASSUME NEW name \in Names PROVE Cardinality(Holders(u, name)) <= u.count[name]
  <2>0. Cardinality(Holders(t, name)) <= t.count[name] /\ t.count[name] \in Nat
    BY DEF Findable, Counts, Tables
  <2>1. CASE name = place[2]
    <3>1. Holders(u, name) \subseteq Holders(t, name) \cup {f}
      BY <1>1 DEF Holders, Tables
    <3>2. /\ IsFiniteSet(Holders(t, name) \cup {f})
          /\ Cardinality(Holders(t, name) \cup {f}) <= Cardinality(Holders(t, name)) + 1
      <4> DEFINE H == Holders(t, name)
      <4>1. IsFiniteSet(H) /\ Cardinality(H) \in Nat
        BY HoldersFinite
      <4> HIDE DEF H
      <4>2. IsFiniteSet(H \cup {f}) /\ Cardinality(H \cup {f}) <= Cardinality(H) + 1
        <5>1. IsFiniteSet(H \cup {f})
              /\ Cardinality(H \cup {f}) = IF f \in H THEN Cardinality(H) ELSE Cardinality(H) + 1
          BY <4>1, FS_AddElement
        <5> QED
          BY <4>1, <5>1
      <4> QED
        BY <4>2 DEF H
    <3>3. Cardinality(Holders(u, name)) <= Cardinality(Holders(t, name) \cup {f})
      BY <3>1, <3>2, FS_Subset
    <3>4. u.count[name] = t.count[name] + 1
      BY <1>1, <2>1 DEF Tables
    <3> QED
      BY <2>0, <3>2, <3>3, <3>4, HoldersFinite, FS_CardinalityType
  <2>2. CASE name # place[2]
    <3>1. Holders(u, name) \subseteq Holders(t, name)
      BY <1>1, <2>2 DEF Holders, Tables
    <3>2. Cardinality(Holders(u, name)) <= Cardinality(Holders(t, name))
      BY <3>1, HoldersFinite, FS_Subset
    <3>3. u.count[name] = t.count[name]
      BY <1>1, <2>2 DEF Tables
    <3> QED
      BY <2>0, <3>2, <3>3, HoldersFinite
  <2> QED
    BY <2>1, <2>2
<1>4. Leads(u)
  <2> SUFFICES ASSUME NEW name \in Names \ u.twice, NEW g \in Holders(u, name)
               PROVE  u.entry[g] = u.ref[name]
    BY DEF Leads
  <2>1. CASE name = place[2]
    <3>1. t.count[name] = 0 /\ u.ref = [t.ref EXCEPT ![name] = place]
      BY <1>1, <2>1 DEF Tables
    <3>2. Holders(t, name) = {}
      BY <3>1, Uncounted DEF Findable
    <3>3. g = f
      BY <1>1, <3>2 DEF Holders, Tables
    <3> QED
      BY <1>1, <2>1, <3>1, <3>3 DEF Tables
  <2>2. CASE name # place[2]
    <3>1. g # f /\ g \in Files
      BY <1>1, <2>2 DEF Holders, Tables
    <3>2. g \in Holders(t, name) /\ u.entry[g] = t.entry[g]
      BY <1>1, <3>1 DEF Holders, Tables
    <3>3. name \notin t.twice /\ u.ref[name] = t.ref[name]
      BY <1>1, <2>2 DEF Tables
    <3> QED
      BY <3>2, <3>3 DEF Findable, Leads
  <2> QED
    BY <2>1, <2>2
<1> QED
  BY <1>2, <1>3, <1>4 DEF u, Findable, Counts

\* Removing a file takes away one reference and one holder.
LEMMA UnrefFindable ==
  ASSUME NEW t \in Tables, Findable(t), NEW f \in Files, t.entry[f] # Gone
  PROVE  LET u == [UnrefFilename(t, t.entry[f][2]) EXCEPT !.entry[f] = Gone] IN
         u \in Tables /\ Findable(u)
<1> DEFINE name == t.entry[f][2]
           c == IF t.count[name] > 0 THEN t.count[name] - 1 ELSE 0
           w == UnrefFilename(t, name)
           u == [w EXCEPT !.entry[f] = Gone]
<1>0. t.entry[f] \in Places /\ name \in Names /\ t.count \in [Names -> Nat]
  BY DEF Tables, Somewhere, Places
<1>1. /\ Record(w) /\ w.watched = t.watched /\ w.entry = t.entry
      /\ w.count = [t.count EXCEPT ![name] = c]
      /\ w.ref = IF t.count[name] > 1 THEN t.ref ELSE [t.ref EXCEPT ![name] = Gone]
      /\ w.twice = IF t.count[name] > 1 THEN t.twice ELSE t.twice \ {name}
  <2> HIDE DEF name
  <2> QED
    BY <1>0, UnrefFilenameFields
<1> HIDE DEF w
<1>3. /\ Record(u) /\ u.watched = t.watched
      /\ u.entry = [t.entry EXCEPT ![f] = Gone]
      /\ u.count = [t.count EXCEPT ![name] = c]
      /\ u.ref = w.ref /\ u.twice = w.twice
  <2> HIDE DEF name, c
  <2> QED
    BY <1>1, EntryFields DEF Record
<1>4. c \in Nat
  BY <1>0
<1> HIDE DEF c, u
<1>5. u \in Tables
  <2>1. u.entry \in [Files -> Somewhere] /\ u.watched \in SUBSET Dirs
    BY <1>3 DEF Tables, Somewhere
  <2>2. u.count \in [Names -> Nat]
    BY <1>3, <1>4 DEF Tables
  <2>3. u.ref \in [Names -> Somewhere] /\ u.twice \in SUBSET Names
    <3> HIDE DEF name
    <3>1. t.ref \in [Names -> Somewhere] /\ t.twice \in SUBSET Names /\ Gone \in Somewhere
      BY DEF Tables, Somewhere
    <3>2. name \in Names
      BY <1>0 DEF name
    <3>3. CASE t.count[name] > 1
      BY <1>1, <1>3, <3>1, <3>3
    <3>4. CASE ~(t.count[name] > 1)
      <4>1. u.ref = [t.ref EXCEPT ![name] = Gone] /\ u.twice = t.twice \ {name}
        BY <1>1, <1>3, <3>4
      <4> QED
        BY <3>1, <3>2, <4>1
    <3> QED
      BY <3>3, <3>4
  <2> QED
    BY <1>3, <2>1, <2>2, <2>3 DEF Tables, Record
<1>6. ASSUME NEW n \in Names PROVE Cardinality(Holders(u, n)) <= u.count[n]
  <2>0. /\ Cardinality(Holders(t, n)) <= t.count[n] /\ t.count[n] \in Nat
        /\ IsFiniteSet(Holders(t, n)) /\ Cardinality(Holders(t, n)) \in Nat
    BY HoldersFinite DEF Findable, Counts, Tables
  <2>1. CASE n = name
    <3>1. Holders(u, n) = Holders(t, n) \ {f} /\ f \in Holders(t, n)
      BY <1>3, <2>1 DEF Holders, Tables
    <3>2. Cardinality(Holders(u, n)) = Cardinality(Holders(t, n)) - 1
      BY <2>0, <3>1, FS_RemoveElement
    <3>3. u.count[n] = c
      BY <1>0, <1>3, <2>1
    <3> QED
      BY <2>0, <2>1, <3>2, <3>3 DEF c
  <2>2. CASE n # name
    <3>1. Holders(u, n) \subseteq Holders(t, n)
      BY <1>3, <2>2 DEF Holders, Tables
    <3>2. Cardinality(Holders(u, n)) <= Cardinality(Holders(t, n))
      BY <2>0, <3>1, FS_Subset
    <3>3. u.count[n] = t.count[n]
      BY <1>0, <1>3, <2>2
    <3> QED
      BY <2>0, <3>2, <3>3, HoldersFinite
  <2> QED
    BY <2>1, <2>2
<1>7. Leads(u)
  <2> SUFFICES ASSUME NEW n \in Names \ u.twice, NEW g \in Holders(u, n)
               PROVE  u.entry[g] = u.ref[n]
    BY DEF Leads
  <2>1. g \in Holders(t, n) /\ u.entry[g] = t.entry[g]
    BY <1>3 DEF Holders, Tables
  <2>2. n \notin t.twice /\ u.ref[n] = t.ref[n]
    <3>1. CASE n # name \/ t.count[name] > 1
      BY <1>0, <1>1, <1>3, <3>1 DEF Tables
    <3>2. CASE n = name /\ ~(t.count[name] > 1)
      <4>1. u.count[n] = 0
        BY <1>0, <1>3, <3>2 DEF c
      <4> QED
        BY <1>6, <4>1, Uncounted DEF Counts
    <3> QED
      BY <3>1, <3>2
  <2> QED
    BY <2>1, <2>2 DEF Findable, Leads
<1> QED
  BY <1>5, <1>6, <1>7 DEF u, w, Findable, Counts

\* Without a connection the file goes and its references stay.
LEMMA ForgottenFindable ==
  ASSUME NEW t \in Tables, Findable(t), NEW f \in Files
  PROVE  LET u == [t EXCEPT !.entry[f] = Gone] IN u \in Tables /\ Findable(u)
<1> DEFINE u == [t EXCEPT !.entry[f] = Gone]
<1>1. /\ Record(u) /\ u.watched = t.watched /\ u.count = t.count
      /\ u.ref = t.ref /\ u.twice = t.twice
      /\ u.entry = [t.entry EXCEPT ![f] = Gone]
  <2>1. Record(t)
    BY DEF Tables, Record
  <2> QED
    BY <2>1, EntryFields
<1> HIDE DEF u
<1>2. u \in Tables
  BY <1>1 DEF Tables, Record, Somewhere
<1>3. ASSUME NEW n \in Names PROVE Cardinality(Holders(u, n)) <= u.count[n]
  <2>1. Holders(u, n) \subseteq Holders(t, n)
    BY <1>1 DEF Holders, Tables
  <2>2. /\ Cardinality(Holders(t, n)) <= t.count[n] /\ t.count[n] \in Nat
        /\ Cardinality(Holders(u, n)) <= Cardinality(Holders(t, n))
    BY <2>1, HoldersFinite, FS_Subset DEF Findable, Counts, Tables
  <2> QED
    BY <1>1, <2>2, HoldersFinite
<1>4. Leads(u)
  BY <1>1 DEF Leads, Findable, Holders, Tables
<1> QED
  BY <1>2, <1>3, <1>4 DEF u, Findable, Counts

LEMMA FileRemovedFindable ==
  ASSUME NEW s, s.tab \in Tables, Findable(s.tab), NEW f \in Files
  PROVE  FileRemoved(s, f).tab \in Tables /\ Findable(FileRemoved(s, f).tab)
<1>1. CASE s.tab.entry[f] = Gone
  BY <1>1 DEF FileRemoved
<1>2. CASE s.tab.entry[f] # Gone /\ win.mtt = "none"
  <2>1. FileRemoved(s, f).tab = [s.tab EXCEPT !.entry[f] = Gone]
    BY <1>2 DEF FileRemoved
  <2> QED
    BY <2>1, ForgottenFindable
<1>3. CASE s.tab.entry[f] # Gone /\ win.mtt # "none"
  <2>1. FileRemoved(s, f).tab
          = [UnrefFilename(s.tab, s.tab.entry[f][2]) EXCEPT !.entry[f] = Gone]
    BY <1>3 DEF FileRemoved
  <2> QED
    BY <1>3, <2>1, UnrefFindable
<1> QED
  BY <1>1, <1>2, <1>3

LEMMA FileCreatedFindable ==
  ASSUME TypeOK, NEW s, s.tab \in Tables, Findable(s.tab), NEW f \in Files, NEW place
  PROVE  FileCreated(s, f, place).tab \in Tables /\ Findable(FileCreated(s, f, place).tab)
<1>1. CASE place # Gone /\ place[1] \in s.tab.watched /\ At(place)
  <2>1. place \in Somewhere /\ place[2] \in Names
    BY <1>1 DEF At, TypeOK, Somewhere, Places
  <2>2. FileCreated(s, f, place).tab = AddFile(s.tab, f, place)
    BY <1>1 DEF FileCreated
  <2> QED
    BY <2>1, <2>2, AddFileFindable
<1>2. CASE ~(place # Gone /\ place[1] \in s.tab.watched /\ At(place))
  BY <1>2 DEF FileCreated
<1> QED
  BY <1>1, <1>2

LEMMA DirRemovedFields ==
  ASSUME NEW s, NEW dir
  PROVE  LET t == s.tab
             u == DirRemoved(s, dir).tab
             known == {f \in FilesIn(dir) : t.entry[f] # Gone}
             gone(n) == IF win.mtt = "none" THEN 0
                        ELSE Cardinality({f \in known : t.entry[f][2] = n}) IN
         /\ Record(u) /\ u.watched = t.watched \ {dir}
         /\ u.entry = [f \in Files |-> IF f \in known THEN Gone ELSE t.entry[f]]
         /\ u.count = [n \in Names |-> IF t.count[n] > gone(n)
                                        THEN t.count[n] - gone(n) ELSE 0]
         /\ u.ref = [n \in Names |-> IF t.count[n] > gone(n) THEN t.ref[n] ELSE Gone]
         /\ u.twice = {n \in Names : n \in t.twice /\ t.count[n] > gone(n)}
<1> DEFINE t == s.tab
           u == DirRemoved(s, dir).tab
           known == {f \in FilesIn(dir) : t.entry[f] # Gone}
           gone(n) == IF win.mtt = "none" THEN 0
                      ELSE Cardinality({f \in known : t.entry[f][2] = n})
           stays == {n \in Names : t.count[n] > gone(n)}
<1>1. u = [watched |-> t.watched \ {dir},
           entry |-> [f \in Files |-> IF f \in known THEN Gone ELSE t.entry[f]],
           count |-> [n \in Names |-> IF n \in stays THEN t.count[n] - gone(n) ELSE 0],
           ref |-> [n \in Names |-> IF n \in stays THEN t.ref[n] ELSE Gone],
           twice |-> t.twice \cap stays]
  BY DEF DirRemoved
<1> HIDE DEF u, gone, known
<1> QED
  BY <1>1 DEF Record, u, gone, known

LEMMA DirCreatedFields ==
  ASSUME NEW s, NEW dir
  PROVE  LET t == s.tab
             u == DirCreated(s, dir).tab
             here == FilesIn(dir)
             found(n) == Cardinality({f \in here : disk.at[f][2] = n}) IN
         /\ Record(u) /\ u.watched = t.watched \cup {dir}
         /\ u.entry = [f \in Files |-> IF f \in here THEN disk.at[f] ELSE t.entry[f]]
         /\ u.count = [n \in Names |-> t.count[n] + found(n)]
         /\ u.ref = [n \in Names |-> IF t.count[n] = 0 /\ found(n) > 0
                                      THEN <<dir, n>> ELSE t.ref[n]]
         /\ u.twice = t.twice \cup {n \in Names : found(n) > 0 /\ t.count[n] > 0}
BY DEF DirCreated, Record

\* A folder's files are taken away with exactly as many references as they hold.
LEMMA DirRemovedFindable ==
  ASSUME TypeOK, NEW s, s.tab \in Tables, Findable(s.tab), NEW dir \in Dirs
  PROVE  DirRemoved(s, dir).tab \in Tables /\ Findable(DirRemoved(s, dir).tab)
<1> DEFINE t == s.tab
           known == {f \in FilesIn(dir) : t.entry[f] # Gone}
           Dropped(n) == {f \in known : t.entry[f][2] = n}
           gone(n) == IF win.mtt = "none" THEN 0 ELSE Cardinality(Dropped(n))
           u == DirRemoved(s, dir).tab
<1>1. /\ Record(u) /\ u.watched = t.watched \ {dir}
      /\ u.entry = [f \in Files |-> IF f \in known THEN Gone ELSE t.entry[f]]
      /\ u.count = [n \in Names |-> IF t.count[n] > gone(n) THEN t.count[n] - gone(n) ELSE 0]
      /\ u.ref = [n \in Names |-> IF t.count[n] > gone(n) THEN t.ref[n] ELSE Gone]
      /\ u.twice = {n \in Names : n \in t.twice /\ t.count[n] > gone(n)}
  BY DirRemovedFields
<1>2. known \subseteq Files
  BY DEF FilesIn
<1> HIDE DEF u
<1>3. ASSUME NEW n \in Names
      PROVE  /\ IsFiniteSet(Holders(t, n)) /\ Cardinality(Holders(t, n)) \in Nat
             /\ Cardinality(Dropped(n)) \in Nat /\ gone(n) \in Nat
             /\ Cardinality(Holders(u, n))
                  = Cardinality(Holders(t, n)) - Cardinality(Dropped(n))
             /\ gone(n) <= Cardinality(Dropped(n))
  <2>1. IsFiniteSet(Holders(t, n)) /\ Cardinality(Holders(t, n)) \in Nat
    BY HoldersFinite
  <2>2. Dropped(n) \subseteq Holders(t, n) /\ Holders(u, n) = Holders(t, n) \ Dropped(n)
    BY <1>1, <1>2 DEF Holders
  <2> HIDE DEF known, Dropped
  <2>3. IsFiniteSet(Dropped(n)) /\ Cardinality(Dropped(n)) \in Nat
    BY <2>1, <2>2, FS_Subset, FS_CardinalityType
  <2>4. Holders(t, n) \cap Dropped(n) = Dropped(n)
    BY <2>2
  <2>5. gone(n) \in Nat /\ gone(n) <= Cardinality(Dropped(n))
    BY <2>3
  <2> HIDE DEF gone
  <2> QED
    BY <2>1, <2>2, <2>3, <2>4, <2>5, FS_Difference
<1>4. u \in Tables
  <2>1. u.watched \in SUBSET Dirs
    BY <1>1 DEF Tables
  <2>2. u.entry \in [Files -> Somewhere]
    BY <1>1 DEF Tables, Somewhere
  <2>3. u.count \in [Names -> Nat]
    <3> HIDE DEF gone, Dropped, known
    <3> SUFFICES ASSUME NEW n \in Names
                 PROVE  (IF t.count[n] > gone(n) THEN t.count[n] - gone(n) ELSE 0) \in Nat
      BY <1>1
    <3>1. t.count[n] \in Nat /\ gone(n) \in Nat
      BY <1>3 DEF Tables
    <3> QED
      BY <3>1
  <2>4. u.ref \in [Names -> Somewhere] /\ u.twice \in SUBSET Names
    <3> HIDE DEF gone
    <3> QED
      BY <1>1 DEF Tables, Somewhere
  <2> QED
    BY <1>1, <2>1, <2>2, <2>3, <2>4 DEF Tables, Record
<1>5. ASSUME NEW n \in Names PROVE Cardinality(Holders(u, n)) <= u.count[n]
  <2>1. Cardinality(Holders(t, n)) <= t.count[n] /\ t.count[n] \in Nat
    BY DEF Findable, Counts, Tables
  <2>2. u.count[n] = IF t.count[n] > gone(n) THEN t.count[n] - gone(n) ELSE 0
    BY <1>1
  <2>3. /\ Cardinality(Holders(t, n)) \in Nat /\ Cardinality(Dropped(n)) \in Nat
        /\ gone(n) \in Nat /\ gone(n) <= Cardinality(Dropped(n))
        /\ Cardinality(Holders(u, n)) = Cardinality(Holders(t, n)) - Cardinality(Dropped(n))
        /\ Cardinality(Holders(u, n)) \in Nat
    BY <1>3, HoldersFinite
  <2> HIDE DEF known, Dropped, gone
  <2> QED
    BY <2>1, <2>2, <2>3
<1>6. Leads(u)
  <2> SUFFICES ASSUME NEW n \in Names \ u.twice, NEW g \in Holders(u, n)
               PROVE  u.entry[g] = u.ref[n]
    BY DEF Leads
  <2>1. g \in Holders(t, n) /\ u.entry[g] = t.entry[g]
    BY <1>1 DEF Holders
  <2> HIDE DEF known, Dropped, gone
  <2>2. t.count[n] > gone(n)
    <3> SUFFICES ASSUME ~(t.count[n] > gone(n)) PROVE FALSE
      OBVIOUS
    <3>1. u.count[n] = 0 /\ Counts(u)
      BY <1>1, <1>5 DEF Counts
    <3> QED
      BY <3>1, Uncounted
  <2>3. n \notin t.twice /\ u.ref[n] = t.ref[n]
    BY <1>1, <2>2
  <2> QED
    BY <2>1, <2>3 DEF Findable, Leads
<1> QED
  BY <1>4, <1>5, <1>6 DEF u, Findable, Counts

\* A folder's files bring as many references as there are new holders, or more.
LEMMA DirCreatedFindable ==
  ASSUME TypeOK, NEW s, s.tab \in Tables, Findable(s.tab), NEW dir \in Dirs
  PROVE  DirCreated(s, dir).tab \in Tables /\ Findable(DirCreated(s, dir).tab)
<1> DEFINE t == s.tab
           here == FilesIn(dir)
           Found(n) == {f \in here : disk.at[f][2] = n}
           u == DirCreated(s, dir).tab
<1>1. /\ Record(u) /\ u.watched = t.watched \cup {dir}
      /\ u.entry = [f \in Files |-> IF f \in here THEN disk.at[f] ELSE t.entry[f]]
      /\ u.count = [n \in Names |-> t.count[n] + Cardinality(Found(n))]
      /\ u.ref = [n \in Names |-> IF t.count[n] = 0 /\ Cardinality(Found(n)) > 0
                                   THEN <<dir, n>> ELSE t.ref[n]]
      /\ u.twice = t.twice \cup {n \in Names : Cardinality(Found(n)) > 0 /\ t.count[n] > 0}
  BY DirCreatedFields
<1>2. here \subseteq Files
  BY DEF FilesIn
<1> HIDE DEF u, here
<1>3. ASSUME NEW n \in Names
      PROVE  /\ Cardinality(Holders(t, n)) \in Nat /\ Cardinality(Found(n)) \in Nat
             /\ Cardinality(Holders(u, n)) \in Nat
             /\ Cardinality(Holders(u, n))
                  <= Cardinality(Holders(t, n)) + Cardinality(Found(n))
  <2>1. /\ IsFiniteSet(Holders(t, n)) /\ Cardinality(Holders(t, n)) \in Nat
        /\ Cardinality(Holders(u, n)) \in Nat
    BY HoldersFinite
  <2>2. Found(n) \subseteq Files /\ Holders(u, n) \subseteq Holders(t, n) \cup Found(n)
    BY <1>1, <1>2 DEF Holders
  <2> HIDE DEF Found
  <2>3. IsFiniteSet(Found(n)) /\ Cardinality(Found(n)) \in Nat
    BY <2>2, FilesAssumption, FS_Subset, FS_CardinalityType
  <2>4. /\ IsFiniteSet(Holders(t, n) \cup Found(n))
        /\ Cardinality(Holders(t, n) \cup Found(n))
             <= Cardinality(Holders(t, n)) + Cardinality(Found(n))
        /\ Cardinality(Holders(t, n) \cup Found(n)) \in Nat
    <3>1. /\ IsFiniteSet(Holders(t, n) \cap Found(n))
          /\ Cardinality(Holders(t, n) \cap Found(n)) \in Nat
      BY <2>1, FS_Intersection, FS_CardinalityType
    <3>2. /\ IsFiniteSet(Holders(t, n) \cup Found(n))
          /\ Cardinality(Holders(t, n) \cup Found(n))
               = Cardinality(Holders(t, n)) + Cardinality(Found(n))
                   - Cardinality(Holders(t, n) \cap Found(n))
      BY <2>1, <2>3, FS_Union
    <3>3. Cardinality(Holders(t, n) \cup Found(n)) \in Nat
      BY <3>2, FS_CardinalityType
    <3> QED
      BY <2>1, <2>3, <3>1, <3>2, <3>3
  <2>5. Cardinality(Holders(u, n)) <= Cardinality(Holders(t, n) \cup Found(n))
    BY <2>2, <2>4, FS_Subset
  <2> QED
    BY <2>1, <2>3, <2>4, <2>5
<1>4. u \in Tables
  <2>1. u.watched \in SUBSET Dirs
    BY <1>1 DEF Tables
  <2>2. u.entry \in [Files -> Somewhere]
    BY <1>1 DEF Tables, TypeOK
  <2>3. u.count \in [Names -> Nat]
    <3> SUFFICES ASSUME NEW n \in Names PROVE t.count[n] + Cardinality(Found(n)) \in Nat
      BY <1>1
    <3>1. t.count[n] \in Nat /\ Cardinality(Found(n)) \in Nat
      BY <1>3 DEF Tables
    <3> HIDE DEF Found
    <3> QED
      BY <3>1
  <2>4. u.ref \in [Names -> Somewhere] /\ u.twice \in SUBSET Names
    <3> HIDE DEF Found
    <3> QED
      BY <1>1 DEF Tables, Somewhere, Places
  <2> QED
    BY <1>1, <2>1, <2>2, <2>3, <2>4 DEF Tables, Record
<1>5. ASSUME NEW n \in Names PROVE Cardinality(Holders(u, n)) <= u.count[n]
  <2>1. Cardinality(Holders(t, n)) <= t.count[n] /\ t.count[n] \in Nat
    BY DEF Findable, Counts, Tables
  <2>2. u.count[n] = t.count[n] + Cardinality(Found(n))
    BY <1>1
  <2> HIDE DEF Found
  <2> QED
    BY <1>3, <2>1, <2>2
<1>6. Leads(u)
  <2> SUFFICES ASSUME NEW n \in Names \ u.twice, NEW g \in Holders(u, n)
               PROVE  u.entry[g] = u.ref[n]
    BY DEF Leads
  <2>1. CASE g \in here
    <3>1. g \in Found(n) /\ u.entry[g] = disk.at[g]
      BY <1>1, <2>1 DEF Holders
    <3>2. disk.at[g] = <<dir, n>>
      <4>1. disk.at[g] \in Places /\ disk.at[g][1] = dir /\ disk.at[g][2] = n
        BY <1>2, <2>1, <3>1 DEF here, FilesIn, TypeOK, Somewhere
      <4> QED
        BY <4>1 DEF Places
    <3>3. IsFiniteSet(Found(n)) /\ Cardinality(Found(n)) \in Nat /\ Found(n) # {}
      <4>1. Found(n) \subseteq Files
        BY <1>2
      <4> HIDE DEF Found
      <4> QED
        BY <3>1, <4>1, FilesAssumption, FS_Subset, FS_CardinalityType
    <3> HIDE DEF Found
    <3>4. Cardinality(Found(n)) > 0
      BY <3>3, FS_EmptySet
    <3>5. t.count[n] = 0
      BY <1>1, <3>4 DEF Tables
    <3> QED
      BY <1>1, <3>1, <3>2, <3>4, <3>5
  <2>2. CASE g \notin here
    <3> HIDE DEF Found
    <3>1. g \in Holders(t, n) /\ u.entry[g] = t.entry[g]
      BY <1>1, <2>2 DEF Holders
    <3>2. t.count[n] # 0
      BY <3>1, Uncounted DEF Findable
    <3>3. n \notin t.twice /\ u.ref[n] = t.ref[n]
      BY <1>1, <3>2
    <3> QED
      BY <3>1, <3>3 DEF Findable, Leads
  <2> QED
    BY <2>1, <2>2
<1> QED
  BY <1>4, <1>5, <1>6 DEF u, Findable, Counts

\* One B_NODE_MONITOR message, whichever it is.
LEMMA HandledFindable ==
  ASSUME TypeOK, NEW s, s.tab \in Tables, Findable(s.tab), NEW e \in Events
  PROVE  Handled(s, e).tab \in Tables /\ Findable(Handled(s, e).tab)
<1> DEFINE Good(x) == x.tab \in Tables /\ Findable(x.tab)
<1>1. CASE e.op = "created"
  <2>1. e.node \in Files /\ Handled(s, e) = FileCreated(s, e.node, e.to)
    BY <1>1 DEF Events, Handled
  <2> QED
    BY <2>1, FileCreatedFindable
<1>2. CASE e.op = "moved"
  <2>1. /\ e.node \in Files
        /\ Handled(s, e) = FileCreated(FileRemoved(s, e.node), e.node, e.to)
    BY <1>2 DEF Events, Handled
  <2>2. Good(FileRemoved(s, e.node))
    BY <2>1, FileRemovedFindable
  <2> QED
    BY <2>1, <2>2, FileCreatedFindable
<1>3. CASE e.op = "removed"
  <2>1. e.node \in Files /\ Handled(s, e) = FileRemoved(s, e.node)
    BY <1>3 DEF Events, Handled
  <2> QED
    BY <2>1, FileRemovedFindable
<1>4. CASE e.op = "dirOut"
  <2>1. /\ e.node \in Dirs
        /\ Handled(s, e) \in {s, DirRemoved(s, e.node)}
    BY <1>4 DEF Events, Handled, Subfolders
  <2> QED
    BY <2>1, DirRemovedFindable
<1>5. CASE e.op = "dirIn"
  <2> DEFINE t == IF e.node \in s.tab.watched THEN DirRemoved(s, e.node) ELSE s
  <2>1. /\ e.node \in Dirs
        /\ Handled(s, e) \in {t, DirCreated(t, e.node)}
    BY <1>5 DEF Events, Handled, Subfolders
  <2>2. Good(t)
    BY <2>1, DirRemovedFindable
  <2> HIDE DEF t
  <2> QED
    BY <2>1, <2>2, DirCreatedFindable
<1> QED
  BY <1>1, <1>2, <1>3, <1>4, <1>5 DEF Events

LEMMA EmptyTablesFindable == EmptyTables \in Tables /\ Findable(EmptyTables)
<1>1. EmptyTables \in Tables
  BY DEF EmptyTables, Tables, Somewhere
<1>2. \A name \in Names : Holders(EmptyTables, name) = {} /\ EmptyTables.count[name] = 0
  BY DEF EmptyTables, Holders
<1> QED
  BY <1>1, <1>2, FS_EmptySet DEF Findable, Counts, Leads

FindInv == TypeOK /\ Findable(tab)

\* The disk changes, and tells of files and folders it has.
LEMMA ChangedFind ==
  ASSUME FindInv, NEW at \in [Files -> Somewhere], NEW inside \in SUBSET Dirs, NEW folders,
         NEW event \in Events, Changed(at, inside, folders, event)
  PROVE  FindInv'
<1>1. /\ disk' \in [at : [Files -> Somewhere], inside : SUBSET Dirs, monitored : SUBSET Dirs]
      /\ tab' = tab
  BY DEF FindInv, TypeOK, Changed
<1>2. events' \in Seq(Events)
  BY DEF FindInv, TypeOK, Changed
<1> QED
  BY <1>1, <1>2 DEF FindInv, TypeOK, Findable, Counts, Leads, Holders

LEMMA DiskFind == FindInv /\ DiskChanges => FindInv'
<1> SUFFICES ASSUME FindInv, DiskChanges PROVE FindInv'
  OBVIOUS
<1>0. disk.at \in [Files -> Somewhere] /\ disk.inside \in SUBSET Dirs /\ Gone \in Somewhere
      /\ Places \subseteq Somewhere
  BY DEF FindInv, TypeOK, Somewhere
<1>1. ASSUME NEW f \in Files, RemoveFile(f) PROVE FindInv'
  <2>1. [disk.at EXCEPT ![f] = Gone] \in [Files -> Somewhere]
        /\ [op |-> "removed", node |-> f] \in Events
    BY <1>0 DEF Events
  <2> QED
    BY <1>0, <1>1, <2>1, ChangedFind DEF RemoveFile
<1>2. ASSUME NEW f \in Files, NEW place \in Somewhere, MoveFile(f, place) PROVE FindInv'
  <2>1. [disk.at EXCEPT ![f] = place] \in [Files -> Somewhere]
        /\ [op |-> "moved", node |-> f, to |-> place] \in Events
    BY <1>0 DEF Events
  <2> QED
    BY <1>0, <1>2, <2>1, ChangedFind DEF MoveFile
<1>3. ASSUME NEW f \in Files, NEW place \in Places, NEW op \in {"created", "moved"},
             CreateFile(f, place, op)
      PROVE  FindInv'
  <2>1. [disk.at EXCEPT ![f] = place] \in [Files -> Somewhere]
        /\ [op |-> op, node |-> f, to |-> place] \in Events
    BY <1>0 DEF Events
  <2> QED
    BY <1>0, <1>3, <2>1, ChangedFind DEF CreateFile
<1>4. ASSUME NEW d \in Subfolders, MoveDir(d) PROVE FindInv'
  <2>1. /\ disk.inside \ {d} \in SUBSET Dirs /\ disk.inside \cup {d} \in SUBSET Dirs
        /\ [op |-> "dirOut", node |-> d] \in Events /\ [op |-> "dirIn", node |-> d] \in Events
    BY <1>0 DEF Events, Subfolders
  <2> QED
    BY <1>0, <1>4, <2>1, ChangedFind DEF MoveDir
<1> QED
  BY <1>0, <1>1, <1>2, <1>3, <1>4 DEF DiskChanges

LEMMA EnterFind ==
  ASSUME FindInv, NEW d \in Dirs, EnterDirectory(d), UNCHANGED events
  PROVE  FindInv'
<1>1. /\ tab' \in Tables /\ tab'.entry = tab.entry /\ tab'.count = tab.count
      /\ tab'.ref = tab.ref /\ tab'.twice = tab.twice
  BY DEF FindInv, TypeOK, EnterDirectory, Tables
<1>2. disk' \in [at : [Files -> Somewhere], inside : SUBSET Dirs, monitored : SUBSET Dirs]
  BY DEF FindInv, TypeOK, EnterDirectory
<1> QED
  BY <1>1, <1>2 DEF FindInv, TypeOK, Findable, Counts, Leads, Holders

LEMMA ScanFind == FindInv /\ ScanThread => FindInv'
<1> SUFFICES ASSUME FindInv, ScanThread PROVE FindInv'
  OBVIOUS
<1>0. ASSUME UNCHANGED <<disk, events, tab>> PROVE FindInv'
  BY <1>0 DEF FindInv, TypeOK, Findable, Counts, Leads, Holders
<1>1. CASE StartScan \/ StrayStarts
  BY <1>0, <1>1, RootAssumption, EnterFind DEF StartScan, StrayStarts
<1>2. ASSUME NEW name \in Names, ReadFile(name) PROVE FindInv'
  <2> DEFINE place == <<Top.dir, name>>
             f == CHOOSE f \in Files : disk.at[f] = place
  <2>1. CASE At(place)
    <3>1. f \in Files /\ disk.at[f] = place
      BY <2>1 DEF At
    <3>2. place \in Somewhere /\ place[2] \in Names
      BY <3>1 DEF FindInv, TypeOK
    <3>3. tab' = AddFile(tab, f, place) /\ UNCHANGED <<disk, events>>
      BY <1>2, <2>1 DEF ReadFile
    <3> HIDE DEF f, place
    <3>4. tab' \in Tables /\ Findable(tab')
      BY <3>1, <3>2, <3>3, AddFileFindable DEF FindInv, TypeOK
    <3> QED
      BY <3>3, <3>4 DEF FindInv, TypeOK, Findable, Counts, Leads, Holders
  <2>2. CASE ~At(place)
    BY <1>0, <1>2, <2>2 DEF ReadFile
  <2> QED
    BY <2>1, <2>2
<1>3. ASSUME NEW d \in Subfolders, ReadDirectory(d) PROVE FindInv'
  <2>1. d \in Dirs
    BY DEF Subfolders
  <2> QED
    BY <1>0, <1>3, <2>1, EnterFind DEF ReadDirectory
<1>4. CASE LeaveDirectory \/ StrayAborts
  BY <1>0, <1>4 DEF LeaveDirectory, StrayAborts
<1> QED
  BY <1>1, <1>2, <1>3, <1>4 DEF ScanThread

LEMMA UnwatchFind ==
  ASSUME FindInv, UnwatchAllDirs, UNCHANGED events
  PROVE  FindInv'
<1>1. disk' \in [at : [Files -> Somewhere], inside : SUBSET Dirs, monitored : SUBSET Dirs]
  BY DEF FindInv, TypeOK, UnwatchAllDirs
<1>2. tab' \in Tables /\ Findable(tab')
  BY EmptyTablesFindable DEF UnwatchAllDirs
<1> QED
  BY <1>1, <1>2 DEF FindInv, TypeOK, Findable, Counts, Leads, Holders

LEMMA LooperFind == FindInv /\ Looper => FindInv'
<1> SUFFICES ASSUME FindInv, Looper PROVE FindInv'
  OBVIOUS
<1>0. ASSUME UNCHANGED <<disk, events, tab>> PROVE FindInv'
  BY <1>0 DEF FindInv, TypeOK, Findable, Counts, Leads, Holders
<1>1. CASE NodeMonitor
  <2>0. events' \in Seq(Events) /\ Head(events) \in Events
    BY <1>1 DEF NodeMonitor, FindInv, TypeOK
  <2>1. CASE win.sharing
    <3> DEFINE s == Handled([tab |-> tab, out |-> out], Head(events))
    <3>1. tab' = s.tab /\ disk' = [disk EXCEPT !.monitored = @ \cup s.tab.watched]
      BY <1>1, <2>1 DEF NodeMonitor
    <3>2. s.tab \in Tables /\ Findable(s.tab)
      BY <2>0, HandledFindable DEF FindInv, TypeOK
    <3> HIDE DEF s
    <3>3. disk' \in [at : [Files -> Somewhere], inside : SUBSET Dirs, monitored : SUBSET Dirs]
      BY <3>1, <3>2 DEF FindInv, TypeOK, Tables
    <3>4. tab' \in Tables /\ Findable(tab')
      BY <3>1, <3>2
    <3> QED
      BY <2>0, <3>3, <3>4 DEF FindInv, TypeOK, Findable, Counts, Leads, Holders
  <2>2. CASE ~win.sharing
    BY <1>1, <2>0, <2>2 DEF NodeMonitor, FindInv, TypeOK, Findable, Counts, Leads, Holders
  <2> QED
    BY <2>1, <2>2
<1>2. CASE Drained \/ CheckFileCount \/ ScanThreadReport
  BY <1>0, <1>2 DEF Drained, CheckFileCount, ScanThreadReport
<1>3. CASE ConnectToServer \/ DisconnectFromServer
  BY <1>0, <1>3, UnwatchFind DEF ConnectToServer, DisconnectFromServer, Disconnected
<1>4. CASE SessionConnected \/ SetFileSharingEnabled \/ SetFirewalled
  <2>1. UNCHANGED events /\ (UNCHANGED <<tab, disk>> \/ UnwatchAllDirs)
    BY <1>4 DEF SessionConnected, SetFileSharingEnabled, SetFirewalled, ReuploadFiles,
       RemoveFileSharing
  <2> QED
    BY <1>0, <2>1, UnwatchFind
<1> QED
  BY <1>1, <1>2, <1>3, <1>4 DEF Looper

LEMMA NextFind == FindInv /\ [Next]_vars => FindInv'
<1>1. FindInv /\ UNCHANGED vars => FindInv'
  BY DEF FindInv, TypeOK, Findable, Counts, Leads, Holders, vars
<1> QED
  BY <1>1, DiskFind, ScanFind, LooperFind DEF Next

LEMMA InitFind == Init => FindInv
<1> SUFFICES ASSUME Init PROVE FindInv
  OBVIOUS
<1>1. disk \in [at : [Files -> Somewhere], inside : SUBSET Dirs, monitored : SUBSET Dirs]
      /\ events \in Seq(Events)
  BY DEF Init, Somewhere
<1> QED
  BY <1>1, EmptyTablesFindable DEF Init, FindInv, TypeOK

\* Whatever the scans, the node monitor messages and the commands did, and though a file
\* may be counted twice, a file in _nodeToEntry keeps its name in _nameToEntry, and the
\* entry there has the file's place, unless a file was counted under that name while it
\* had an entry already: a request for it finds it.
THEOREM ListedIsFindableHolds == Spec => []ListedIsFindable
<1>1. FindInv => ListedIsFindable
  BY DEF FindInv, Findable, Counts, Leads, Holders, ListedIsFindable, Listed, FindSharedFile
<1> QED
  BY <1>1, InitFind, NextFind, PTL DEF Spec

-----------------------------------------------------------------------------
(* The frames of the walk *)

FramesOfWalk == [dir : Dirs, left : SUBSET (Names \cup Subfolders), names : SUBSET Names]

\* The thread that has the name and the lock has a folder; without the lock there is
\* nothing that it could have seen.
ScanTypeOK ==
  /\ scan = [state |-> scan.state, frames |-> scan.frames, go |-> scan.go,
             strays |-> scan.strays]
  /\ scan.state \in {"none", "started", "walking"}
  /\ scan.frames \in Seq(FramesOfWalk)
  /\ scan.go \in BOOLEAN /\ scan.strays \in Nat
  /\ Named => ~LockFree
  /\ LockFree => scan.go = FALSE

\* The innermost folder is replaced, left, or another one entered.
LEMMA TopReplaced ==
  ASSUME NEW fr \in Seq(FramesOfWalk), fr # <<>>, NEW g \in FramesOfWalk
  PROVE  /\ Len(fr) \in 1..Len(fr) /\ Len(fr) \in Nat /\ fr[Len(fr)] \in FramesOfWalk
         /\ [fr EXCEPT ![Len(fr)] = g] \in Seq(FramesOfWalk)
         /\ Len([fr EXCEPT ![Len(fr)] = g]) = Len(fr)
         /\ [fr EXCEPT ![Len(fr)] = g] # <<>>
         /\ \A i \in 1..Len(fr) :
              [fr EXCEPT ![Len(fr)] = g][i] = IF i = Len(fr) THEN g ELSE fr[i]
OBVIOUS

LEMMA AppendedFrames ==
  ASSUME NEW fr \in Seq(FramesOfWalk), NEW g \in FramesOfWalk
  PROVE  /\ Append(fr, g) \in Seq(FramesOfWalk) /\ Append(fr, g) # <<>>
         /\ Len(fr) \in Nat /\ Len(Append(fr, g)) = Len(fr) + 1
         /\ \A i \in 1..Len(fr) : Append(fr, g)[i] = fr[i]
         /\ Append(fr, g)[Len(fr) + 1] = g
OBVIOUS

LEMMA ShorterFrames ==
  ASSUME NEW fr \in Seq(FramesOfWalk), fr # <<>>
  PROVE  LET rest == SubSeq(fr, 1, Len(fr) - 1) IN
         /\ Len(fr) \in Nat /\ Len(fr) >= 1
         /\ rest \in Seq(FramesOfWalk) /\ Len(rest) = Len(fr) - 1
         /\ \A i \in 1..Len(fr) - 1 : rest[i] = fr[i]
<1>1. PICK n \in Nat : Len(fr) = n + 1
  <2>1. Len(fr) \in Nat /\ Len(fr) >= 1
    OBVIOUS
  <2> QED
    BY <2>1
<1>2. PICK rest : rest = SubSeq(fr, 1, n)
  OBVIOUS
<1>3. /\ rest \in Seq(FramesOfWalk) /\ Len(rest) = n
      /\ \A i \in 1..n : rest[i] = fr[i]
  BY <1>1, <1>2
<1>4. Len(fr) - 1 = n
  BY <1>1
<1> QED
  BY <1>1, <1>2, <1>3, <1>4

\* The folder that is being read, and the walk with it replaced.
LEMMA TopFrame ==
  ASSUME ScanTypeOK, ~LockFree
  PROVE  /\ scan.frames \in Seq(FramesOfWalk) /\ scan.frames # <<>>
         /\ Len(scan.frames) \in 1..Len(scan.frames) /\ Len(scan.frames) \in Nat
         /\ Top \in FramesOfWalk /\ Top = scan.frames[Len(scan.frames)]
         /\ Top = [dir |-> Top.dir, left |-> Top.left, names |-> Top.names]
<1>1. PICK fr : fr = scan.frames
  OBVIOUS
<1>2. fr \in Seq(FramesOfWalk) /\ fr # <<>>
  BY <1>1 DEF ScanTypeOK, LockFree
<1>3. Len(fr) \in 1..Len(fr) /\ Len(fr) \in Nat /\ fr[Len(fr)] \in FramesOfWalk
  BY <1>2, TopReplaced
<1>4. Top = fr[Len(fr)]
  BY <1>1 DEF Top
<1>5. Top = [dir |-> Top.dir, left |-> Top.left, names |-> Top.names]
  BY <1>3, <1>4 DEF FramesOfWalk
<1> QED
  BY <1>1, <1>2, <1>3, <1>4, <1>5

LEMMA WithTopFrames ==
  ASSUME ScanTypeOK, ~LockFree, NEW g \in FramesOfWalk
  PROVE  \E new \in Seq(FramesOfWalk) :
         /\ WithTop(g) = [state |-> scan.state, frames |-> new, go |-> scan.go,
                          strays |-> scan.strays]
         /\ new # <<>> /\ Len(new) = Len(scan.frames)
         /\ \A i \in 1..Len(scan.frames) :
              new[i] = IF i = Len(scan.frames) THEN g ELSE scan.frames[i]
<1>1. PICK fr : fr = scan.frames
  OBVIOUS
<1>2. fr \in Seq(FramesOfWalk) /\ fr # <<>>
  BY <1>1, TopFrame
<1>3. PICK new : new = [fr EXCEPT ![Len(fr)] = g]
  OBVIOUS
<1>4. WithTop(g) = [state |-> scan.state, frames |-> new, go |-> scan.go,
                    strays |-> scan.strays]
  BY <1>1, <1>3 DEF WithTop, ScanTypeOK
<1>5. /\ new \in Seq(FramesOfWalk) /\ new # <<>> /\ Len(new) = Len(fr)
      /\ \A i \in 1..Len(fr) : new[i] = IF i = Len(fr) THEN g ELSE fr[i]
  BY <1>2, <1>3, TopReplaced
<1> QED
  BY <1>1, <1>4, <1>5

LEMMA DoneFields ==
  ASSUME NEW sc, sc = [state |-> sc.state, frames |-> sc.frames, go |-> sc.go,
                       strays |-> sc.strays]
  PROVE  Done(sc) = [state |-> sc.state, frames |-> sc.frames, go |-> Named,
                     strays |-> sc.strays]
BY DEF Done

\* A folder that is entered: everything in it is still to be read.
LEMMA FrameType ==
  ASSUME NEW d \in Dirs
  PROVE  /\ Frame(d) \in FramesOfWalk /\ Frame(d).dir = d /\ Frame(d).names = {}
         /\ Names \subseteq Frame(d).left
         /\ d = Root => Subfolders \subseteq Frame(d).left
         /\ d # Root => Frame(d).left = Names
BY DEF Frame, FramesOfWalk, Subfolders

\* The frame of a folder of which an entry has been read.
LEMMA PoppedFrame ==
  ASSUME ScanTypeOK, ~LockFree, NEW x, NEW nm \in SUBSET Names
  PROVE  LET g == [Top EXCEPT !.left = @ \ {x}]
             h == [g EXCEPT !.names = nm] IN
         /\ g \in FramesOfWalk /\ g.dir = Top.dir /\ g.left = Top.left \ {x}
         /\ g.names = Top.names
         /\ h \in FramesOfWalk /\ h.dir = Top.dir /\ h.left = Top.left \ {x}
         /\ h.names = nm
<1>1. PICK dir, left, names : /\ Top = [dir |-> dir, left |-> left, names |-> names]
                              /\ dir \in Dirs /\ left \in SUBSET (Names \cup Subfolders)
                              /\ names \in SUBSET Names
  BY TopFrame DEF FramesOfWalk
<1>2. PICK g : g = [Top EXCEPT !.left = @ \ {x}]
  OBVIOUS
<1>3. g = [dir |-> dir, left |-> left \ {x}, names |-> names]
  BY <1>1, <1>2
<1>5. [g EXCEPT !.names = nm] = [dir |-> dir, left |-> left \ {x}, names |-> nm]
  BY <1>3
<1>4. \A z \in SUBSET Names : [dir |-> dir, left |-> left \ {x}, names |-> z] \in FramesOfWalk
  BY <1>1 DEF FramesOfWalk
<1> QED
  BY <1>1, <1>2, <1>3, <1>4, <1>5

\* The walk after its innermost frame has become g.
WalkIs(new, g, go) ==
  /\ scan' = [state |-> scan.state, frames |-> new, go |-> go, strays |-> scan.strays]
  /\ new # <<>> /\ Len(new) = Len(scan.frames)
  /\ \A i \in 1..Len(scan.frames) :
       new[i] = IF i = Len(scan.frames) THEN g ELSE scan.frames[i]

LEMMA ReadFileScan ==
  ASSUME ScanTypeOK, NEW name \in Names, ReadFile(name)
  PROVE  \E new \in Seq(FramesOfWalk), g \in FramesOfWalk, go \in BOOLEAN :
         /\ WalkIs(new, g, go)
         /\ g.dir = Top.dir /\ g.left = Top.left \ {name}
         /\ At(<<Top.dir, name>>) =>
              \/ out' = Queued(Top.names \cup {name}) /\ g.names = {}
              \/ out' = out /\ g.names = Top.names \cup {name}
         /\ ~At(<<Top.dir, name>>) => out' = out /\ g.names = Top.names
<1>0. ~LockFree
  BY DEF ReadFile
<1>1. PICK top \in FramesOfWalk :
        top = Top /\ top = [dir |-> top.dir, left |-> top.left, names |-> top.names]
  BY <1>0, TopFrame
<1>2. top.names \cup {name} \in SUBSET Names
  BY <1>1 DEF FramesOfWalk
<1>3. PICK h : h = [Top EXCEPT !.left = @ \ {name}]
  OBVIOUS
<1>4. /\ h \in FramesOfWalk /\ h.dir = Top.dir /\ h.left = Top.left \ {name}
      /\ h.names = Top.names
  BY <1>0, <1>3, PoppedFrame
<1>5. CASE ~At(<<Top.dir, name>>)
  <2>1. scan' = WithTop(h) /\ out' = out
    BY <1>3, <1>5 DEF ReadFile
  <2>2. PICK new \in Seq(FramesOfWalk) :
          /\ WithTop(h) = [state |-> scan.state, frames |-> new, go |-> scan.go,
                           strays |-> scan.strays]
          /\ new # <<>> /\ Len(new) = Len(scan.frames)
          /\ \A i \in 1..Len(scan.frames) :
               new[i] = IF i = Len(scan.frames) THEN h ELSE scan.frames[i]
    BY <1>0, <1>4, WithTopFrames
  <2>3. WalkIs(new, h, scan.go) /\ scan.go \in BOOLEAN
    BY <2>1, <2>2 DEF WalkIs, ScanTypeOK
  <2> QED
    BY <1>4, <1>5, <2>1, <2>3
<1>6. CASE At(<<Top.dir, name>>)
  <2> DEFINE names == Top.names \cup {name}
             full == Cardinality(names) >= ChunkSize
             nm == IF full THEN {} ELSE names
             g == [h EXCEPT !.names = nm]
  <2>1. /\ out' = IF full THEN Queued(names) ELSE out
        /\ scan' = Done(WithTop(g))
    BY <1>3, <1>6 DEF ReadFile
  <2>2. nm \in SUBSET Names
    BY <1>1, <1>2
  <2>3. /\ g \in FramesOfWalk /\ g.dir = Top.dir /\ g.left = Top.left \ {name} /\ g.names = nm
    <3> HIDE DEF nm
    <3>1. LET h1 == [Top EXCEPT !.left = @ \ {name}]
              g1 == [h1 EXCEPT !.names = nm] IN
          /\ g1 \in FramesOfWalk /\ g1.dir = Top.dir /\ g1.left = Top.left \ {name}
          /\ g1.names = nm
      BY <1>0, <2>2, PoppedFrame
    <3> QED
      BY <1>3, <3>1
  <2> HIDE DEF g
  <2>4. PICK new \in Seq(FramesOfWalk) :
          /\ WithTop(g) = [state |-> scan.state, frames |-> new, go |-> scan.go,
                           strays |-> scan.strays]
          /\ new # <<>> /\ Len(new) = Len(scan.frames)
          /\ \A i \in 1..Len(scan.frames) :
               new[i] = IF i = Len(scan.frames) THEN g ELSE scan.frames[i]
    BY <1>0, <2>3, WithTopFrames
  <2>5. Done(WithTop(g)) = [state |-> scan.state, frames |-> new, go |-> Named,
                            strays |-> scan.strays]
    BY <2>4 DEF Done
  <2>6. WalkIs(new, g, Named) /\ Named \in BOOLEAN
    BY <2>1, <2>4, <2>5 DEF WalkIs, Named
  <2>7. \/ out' = Queued(names) /\ g.names = {}
        \/ out' = out /\ g.names = names
    BY <2>1, <2>3
  <2> QED
    BY <1>6, <2>3, <2>6, <2>7
<1> QED
  BY <1>5, <1>6

\* An entry that is a folder: passed over, or entered.
LEMMA ReadDirectoryScan ==
  ASSUME ScanTypeOK, NEW d \in Subfolders, ReadDirectory(d)
  PROVE  \E pop \in Seq(FramesOfWalk), g \in FramesOfWalk, go \in BOOLEAN :
         /\ pop # <<>> /\ Len(pop) = Len(scan.frames)
         /\ \A i \in 1..Len(scan.frames) :
              pop[i] = IF i = Len(scan.frames) THEN g ELSE scan.frames[i]
         /\ g.dir = Top.dir /\ g.left = Top.left \ {d} /\ g.names = Top.names
         /\ scan' = [state |-> scan.state,
                     frames |-> IF d \in disk.inside \ tab.watched
                                THEN Append(pop, Frame(d)) ELSE pop,
                     go |-> go, strays |-> scan.strays]
<1>0. ~LockFree
  BY DEF ReadDirectory
<1>1. PICK g : g = [Top EXCEPT !.left = @ \ {d}]
  OBVIOUS
<1>2. /\ g \in FramesOfWalk /\ g.dir = Top.dir /\ g.left = Top.left \ {d}
      /\ g.names = Top.names
  BY <1>0, <1>1, PoppedFrame
<1>3. PICK new \in Seq(FramesOfWalk) :
        /\ WithTop(g) = [state |-> scan.state, frames |-> new, go |-> scan.go,
                         strays |-> scan.strays]
        /\ new # <<>> /\ Len(new) = Len(scan.frames)
        /\ \A i \in 1..Len(scan.frames) :
             new[i] = IF i = Len(scan.frames) THEN g ELSE scan.frames[i]
  BY <1>0, <1>2, WithTopFrames
<1>4. scan.go \in BOOLEAN /\ Named \in BOOLEAN
  BY DEF ScanTypeOK, Named
<1>5. CASE d \in disk.inside \ tab.watched
  <2>1. scan' = Done([WithTop(g) EXCEPT !.frames = Append(@, Frame(d))])
    BY <1>1, <1>5 DEF ReadDirectory
  <2>2. [WithTop(g) EXCEPT !.frames = Append(@, Frame(d))]
          = [state |-> scan.state, frames |-> Append(new, Frame(d)), go |-> scan.go,
             strays |-> scan.strays]
    <3>1. PICK w : w = WithTop(g)
      OBVIOUS
    <3>2. PICK fr : fr = Append(new, Frame(d))
      OBVIOUS
    <3>3. w = [state |-> scan.state, frames |-> new, go |-> scan.go, strays |-> scan.strays]
      BY <1>3, <3>1
    <3>4. [w EXCEPT !.frames = fr]
            = [state |-> scan.state, frames |-> fr, go |-> scan.go, strays |-> scan.strays]
      BY <3>3
    <3>5. w.frames = new
      BY <3>3
    <3> QED
      BY <3>1, <3>2, <3>4, <3>5
  <2>3. scan' = [state |-> scan.state, frames |-> Append(new, Frame(d)), go |-> Named,
                 strays |-> scan.strays]
    BY <2>1, <2>2 DEF Done
  <2> QED
    BY <1>2, <1>3, <1>4, <1>5, <2>3
<1>6. CASE d \notin disk.inside \ tab.watched
  <2>1. scan' = IF d \in disk.inside THEN Done(WithTop(g)) ELSE WithTop(g)
    BY <1>1, <1>6 DEF ReadDirectory
  <2>2. Done(WithTop(g)) = [state |-> scan.state, frames |-> new, go |-> Named,
                            strays |-> scan.strays]
    BY <1>3 DEF Done
  <2>3. \E go \in BOOLEAN : scan' = [state |-> scan.state, frames |-> new, go |-> go,
                                     strays |-> scan.strays]
    BY <1>3, <1>4, <2>1, <2>2
  <2> QED
    BY <1>2, <1>3, <1>6, <2>3
<1> QED
  BY <1>5, <1>6

\* A folder is left: there is one around it, or the thread ends.
LEMMA ReturnedScan ==
  ASSUME ScanTypeOK, ~LockFree, Returned
  PROVE  /\ Len(scan.frames) = 1 =>
              /\ scan' = [state |-> IF Named THEN "none" ELSE scan.state, frames |-> <<>>,
                          go |-> FALSE, strays |-> scan.strays]
              /\ Reported
         /\ Len(scan.frames) # 1 =>
              /\ scan' = [state |-> scan.state,
                          frames |-> SubSeq(scan.frames, 1, Len(scan.frames) - 1),
                          go |-> Named, strays |-> scan.strays]
              /\ scan'.frames # <<>>
              /\ UNCHANGED win
<1> DEFINE fr == scan.frames
           rest == SubSeq(fr, 1, Len(fr) - 1)
<1>1. fr \in Seq(FramesOfWalk) /\ fr # <<>>
  BY TopFrame
<1> HIDE DEF fr
<1>2. /\ Len(fr) \in Nat /\ Len(fr) >= 1 /\ rest \in Seq(FramesOfWalk)
      /\ Len(rest) = Len(fr) - 1
  BY <1>1, ShorterFrames
<1>3. rest = <<>> <=> Len(fr) = 1
  <2> HIDE DEF rest
  <2> QED
    BY <1>2
<1>4. CASE rest = <<>>
  <2>1. /\ scan' = [scan EXCEPT !.frames = <<>>, !.go = FALSE,
                                !.state = IF Named THEN "none" ELSE @]
        /\ Reported
    BY <1>4 DEF Returned, fr
  <2>2. scan' = [state |-> IF Named THEN "none" ELSE scan.state, frames |-> <<>>,
                 go |-> FALSE, strays |-> scan.strays]
    BY <2>1 DEF ScanTypeOK
  <2> QED
    BY <1>3, <1>4, <2>1, <2>2 DEF fr
<1>5. CASE rest # <<>>
  <2>1. scan' = Done([scan EXCEPT !.frames = rest]) /\ UNCHANGED win
    BY <1>5 DEF Returned, fr
  <2> HIDE DEF rest
  <2>2. [scan EXCEPT !.frames = rest]
          = [state |-> scan.state, frames |-> rest, go |-> scan.go, strays |-> scan.strays]
    BY DEF ScanTypeOK
  <2>3. scan' = [state |-> scan.state, frames |-> rest, go |-> Named, strays |-> scan.strays]
    BY <2>1, <2>2 DEF Done
  <2>4. scan'.frames = rest /\ Len(scan.frames) # 1
    BY <1>3, <1>5, <2>3 DEF fr
  <2> QED
    BY <1>5, <2>1, <2>3, <2>4 DEF fr, rest
<1> QED
  BY <1>4, <1>5

LEMMA AbortedScan ==
  ASSUME ScanTypeOK
  PROVE  /\ Aborted = [state |-> "none", frames |-> IF Named THEN <<>> ELSE scan.frames,
                       go |-> IF Named THEN FALSE ELSE scan.go, strays |-> scan.strays]
         /\ NameTaken = [state |-> "none", frames |-> scan.frames, go |-> scan.go,
                         strays |-> IF scan.state = "started" THEN scan.strays + 1
                                    ELSE scan.strays]
<1>1. PICK st, fr, go, k :
        /\ scan = [state |-> st, frames |-> fr, go |-> go, strays |-> k]
        /\ st = scan.state /\ fr = scan.frames /\ go = scan.go /\ k = scan.strays
  BY Zenon DEF ScanTypeOK
<1>2. PICK l : l = IF scan.state = "started" THEN scan.strays + 1 ELSE scan.strays
  OBVIOUS
<1>6. PICK z : z = FALSE
  OBVIOUS
<1>7. PICK a : a = [scan EXCEPT !.state = "none"]
  OBVIOUS
<1>8. a = [state |-> "none", frames |-> fr, go |-> go, strays |-> k]
  BY <1>1, <1>7
<1>9. PICK b : b = [a EXCEPT !.frames = <<>>]
  OBVIOUS
<1>10. b = [state |-> "none", frames |-> <<>>, go |-> go, strays |-> k]
  BY <1>8, <1>9
<1>11. [a EXCEPT !.strays = l] = [state |-> "none", frames |-> fr, go |-> go, strays |-> l]
  BY <1>8
<1>12. [b EXCEPT !.go = z] = [state |-> "none", frames |-> <<>>, go |-> z, strays |-> k]
  BY <1>10
<1>3. /\ [scan EXCEPT !.state = "none"]
           = [state |-> "none", frames |-> fr, go |-> go, strays |-> k]
      /\ [scan EXCEPT !.state = "none", !.strays = l]
           = [state |-> "none", frames |-> fr, go |-> go, strays |-> l]
      /\ [scan EXCEPT !.state = "none", !.frames = <<>>, !.go = z]
           = [state |-> "none", frames |-> <<>>, go |-> z, strays |-> k]
  BY <1>7, <1>8, <1>9, <1>11, <1>12, Zenon
<1>4. NameTaken = [state |-> "none", frames |-> fr, go |-> go, strays |-> l]
  BY <1>2, <1>3, Zenon DEF NameTaken
<1>5. Aborted = [state |-> "none", frames |-> IF Named THEN <<>> ELSE scan.frames,
                 go |-> IF Named THEN FALSE ELSE scan.go, strays |-> scan.strays]
  <2>1. CASE Named
    <3>1. Aborted = [state |-> "none", frames |-> <<>>, go |-> FALSE, strays |-> k]
      BY <1>3, <1>6, <2>1, Zenon DEF Aborted
    <3> QED
      BY <1>1, <2>1, <3>1, Zenon
  <2>2. CASE ~Named
    BY <1>1, <1>3, <2>2, Zenon DEF Aborted
  <2> QED
    BY <2>1, <2>2
<1> QED
  BY <1>1, <1>2, <1>4, <1>5, Zenon

\* A record of the scan with these fields is well-formed.
LEMMA ScanRecord ==
  ASSUME NEW state \in {"none", "started", "walking"}, NEW fr \in Seq(FramesOfWalk),
         NEW go \in BOOLEAN, NEW strays \in Nat,
         state = "walking" => fr # <<>>, fr = <<>> => go = FALSE,
         scan' = [state |-> state, frames |-> fr, go |-> go, strays |-> strays]
  PROVE  ScanTypeOK'
BY DEF ScanTypeOK, Named, LockFree

LEMMA ScanThreadType == ScanTypeOK /\ ScanThread => ScanTypeOK'
<1> SUFFICES ASSUME ScanTypeOK, ScanThread PROVE ScanTypeOK'
  OBVIOUS
<1>0. /\ scan.state \in {"none", "started", "walking"} /\ scan.strays \in Nat
      /\ scan.frames \in Seq(FramesOfWalk) /\ scan.go \in BOOLEAN
      /\ (scan.state = "walking" => scan.frames # <<>>)
      /\ (scan.frames = <<>> => scan.go = FALSE)
      /\ scan = [state |-> scan.state, frames |-> scan.frames, go |-> scan.go,
                 strays |-> scan.strays]
  BY DEF ScanTypeOK, Named, LockFree
<1>1. CASE StartScan
  <2>1. CASE Root \in tab.watched
    <3>1. scan' = [state |-> "none", frames |-> scan.frames, go |-> scan.go,
                   strays |-> scan.strays]
      BY <1>0, <1>1, <2>1 DEF StartScan
    <3> QED
      BY <1>0, <3>1, ScanRecord
  <2>2. CASE Root \notin tab.watched
    <3>1. scan' = [state |-> "walking", frames |-> <<Frame(Root)>>, go |-> TRUE,
                   strays |-> scan.strays]
      BY <1>0, <1>1, <2>2 DEF StartScan
    <3>2. <<Frame(Root)>> \in Seq(FramesOfWalk) /\ <<Frame(Root)>> # <<>>
      BY RootAssumption, FrameType
    <3> QED
      BY <1>0, <3>1, <3>2, ScanRecord
  <2> QED
    BY <2>1, <2>2
<1>2. CASE StrayStarts
  <2>1. scan' = [state |-> scan.state, frames |-> scan.frames, go |-> scan.go,
                 strays |-> scan.strays - 1] /\ scan.strays - 1 \in Nat
    BY <1>0, <1>2 DEF StrayStarts
  <2> QED
    BY <1>0, <2>1, ScanRecord
<1>3. ASSUME NEW name \in Names, ReadFile(name) PROVE ScanTypeOK'
  <2>1. PICK new \in Seq(FramesOfWalk), g \in FramesOfWalk, go \in BOOLEAN : WalkIs(new, g, go)
    <3>1. \E new \in Seq(FramesOfWalk), g \in FramesOfWalk, go \in BOOLEAN :
            /\ WalkIs(new, g, go)
            /\ g.dir = Top.dir /\ g.left = Top.left \ {name}
            /\ At(<<Top.dir, name>>) =>
                 \/ out' = Queued(Top.names \cup {name}) /\ g.names = {}
                 \/ out' = out /\ g.names = Top.names \cup {name}
            /\ ~At(<<Top.dir, name>>) => out' = out /\ g.names = Top.names
      BY <1>3, ReadFileScan
    <3> QED
      BY <3>1
  <2> QED
    BY <1>0, <2>1, ScanRecord DEF WalkIs
<1>4. ASSUME NEW d \in Subfolders, ReadDirectory(d) PROVE ScanTypeOK'
  <2>1. PICK pop \in Seq(FramesOfWalk), go \in BOOLEAN :
          /\ pop # <<>>
          /\ scan' = [state |-> scan.state,
                      frames |-> IF d \in disk.inside \ tab.watched
                                 THEN Append(pop, Frame(d)) ELSE pop,
                      go |-> go, strays |-> scan.strays]
    BY <1>4, ReadDirectoryScan
  <2>2. PICK fr : fr = IF d \in disk.inside \ tab.watched THEN Append(pop, Frame(d)) ELSE pop
    OBVIOUS
  <2>3. fr \in Seq(FramesOfWalk) /\ fr # <<>>
    <3>1. Frame(d) \in FramesOfWalk
      BY FrameType DEF Subfolders
    <3>2. Append(pop, Frame(d)) \in Seq(FramesOfWalk) /\ Append(pop, Frame(d)) # <<>>
      BY <3>1, AppendedFrames
    <3> QED
      BY <2>1, <2>2, <3>2
  <2> QED
    BY <1>0, <2>1, <2>2, <2>3, ScanRecord
<1>5. CASE LeaveDirectory \/ StrayAborts
  <2>1. ~LockFree /\ Returned
    BY <1>5 DEF LeaveDirectory, StrayAborts
  <2>2. CASE Len(scan.frames) = 1
    <3>1. PICK state : state = IF Named THEN "none" ELSE scan.state
      OBVIOUS
    <3>2. scan' = [state |-> state, frames |-> <<>>, go |-> FALSE, strays |-> scan.strays]
      BY <2>1, <2>2, <3>1, ReturnedScan
    <3>3. state \in {"none", "started", "walking"} /\ (state = "walking" => FALSE)
      BY <1>0, <3>1 DEF Named
    <3>4. <<>> \in Seq(FramesOfWalk) /\ FALSE \in BOOLEAN
      OBVIOUS
    <3>5. state = "walking" => <<>> # <<>>
      BY <3>3
    <3> QED
      BY <1>0, <3>2, <3>3, <3>4, <3>5, ScanRecord
  <2>3. CASE Len(scan.frames) # 1
    <3>1. PICK fr : fr = SubSeq(scan.frames, 1, Len(scan.frames) - 1)
      OBVIOUS
    <3>2. /\ scan' = [state |-> scan.state, frames |-> fr, go |-> Named, strays |-> scan.strays]
          /\ scan'.frames # <<>>
      BY <2>1, <2>3, <3>1, ReturnedScan
    <3>3. fr \in Seq(FramesOfWalk)
      BY <1>0, <2>1, <3>1, ShorterFrames DEF LockFree
    <3>4. Named \in BOOLEAN
      BY DEF Named
    <3>5. fr # <<>>
      BY <3>2
    <3> QED
      BY <1>0, <3>2, <3>3, <3>4, <3>5, ScanRecord
  <2> QED
    BY <2>2, <2>3
<1> QED
  BY <1>1, <1>2, <1>3, <1>4, <1>5 DEF ScanThread

-----------------------------------------------------------------------------
(* The window's side *)

\* Only the fields: what is in the queue is not looked at.
IsOutput(o) == o = [server |-> o.server, low |-> o.low, sending |-> o.sending]

WindowTypeOK ==
  /\ IsOutput(out)
  /\ ScanTypeOK
  /\ win = [mtt |-> win.mtt, sharing |-> win.sharing, reports |-> win.reports,
            lastSent |-> win.lastSent, runner |-> win.runner, commands |-> win.commands]
  /\ win.mtt \in {"none", "connecting", "connected"}
  /\ win.sharing \in BOOLEAN
  /\ win.runner \in BOOLEAN
  /\ win.reports \in Nat

\* No scan: no thread has the name, the lock or waits for it.
Idle == scan.state = "none" /\ LockFree /\ scan.strays = 0

Empty == out.server = {} /\ out.low = <<>>

\* Without a connection there is nothing on the server either: RemoveFileSharing()
\* does not look at the queue then, and strays send nothing.
NothingInv ==
  /\ win.mtt = "none" => Empty /\ scan.state = "none"
  /\ ~win.sharing /\ ~forced /\ ~loose => Empty /\ Idle

\* Connected, with sharing on and no scan or report under way, the number that was
\* sent is right or the runner is there: also while node monitor messages wait.
CountInv ==
  win.mtt = "connected" /\ win.sharing /\ Idle /\ win.reports = 0
    => win.runner \/ win.lastSent = NumItems(tab)

WindowInv == WindowTypeOK /\ NothingInv /\ CountInv

LEMMA IdleIsNoScan == ScanTypeOK => (Idle <=> scan = NoScan)
<1> SUFFICES ASSUME ScanTypeOK PROVE Idle <=> scan = NoScan
  OBVIOUS
<1>1. Idle => scan = NoScan
  <2> SUFFICES ASSUME Idle PROVE scan = NoScan
    OBVIOUS
  <2>1. scan.state = "none" /\ scan.frames = <<>> /\ scan.go = FALSE /\ scan.strays = 0
    BY DEF ScanTypeOK, Idle, LockFree
  <2>2. scan = [state |-> scan.state, frames |-> scan.frames, go |-> scan.go,
                strays |-> scan.strays]
    BY DEF ScanTypeOK
  <2> QED
    BY <2>1, <2>2, Zenon DEF NoScan
<1>2. scan = NoScan => Idle
  BY DEF NoScan, Idle, LockFree
<1> QED
  BY <1>1, <1>2

LEMMA InitScan == Init => ScanTypeOK
<1> SUFFICES ASSUME Init PROVE ScanTypeOK
  OBVIOUS
<1>1. scan = [state |-> "none", frames |-> <<>>, go |-> FALSE, strays |-> 0]
  BY DEF Init, NoScan
<1>2. <<>> \in Seq(FramesOfWalk)
  OBVIOUS
<1> QED
  BY <1>1, <1>2 DEF ScanTypeOK, Named, LockFree

LEMMA InitWindow == Init => WindowInv
<1> SUFFICES ASSUME Init PROVE WindowInv
  OBVIOUS
<1>1. WindowTypeOK
  BY InitScan DEF Init, Removed, IsOutput, WindowTypeOK
<1>2. NothingInv /\ CountInv
  BY <1>1, IdleIsNoScan DEF Init, Removed, NoScan, NothingInv, Empty, CountInv, WindowTypeOK
<1> QED
  BY <1>1, <1>2 DEF WindowInv

\* UploadSharedFileCount() touches two fields only, and leaves the right count behind.
LEMMA UploadCount ==
  ASSUME NEW w, NEW t, NEW locked \in BOOLEAN,
         w = [mtt |-> w.mtt, sharing |-> w.sharing, reports |-> w.reports,
              lastSent |-> w.lastSent, runner |-> w.runner, commands |-> w.commands],
         w.sharing \in BOOLEAN, w.runner \in BOOLEAN
  PROVE  LET u == UploadSharedFileCount(w, t, locked) IN
         /\ u = [mtt |-> w.mtt, sharing |-> w.sharing, reports |-> w.reports,
                 lastSent |-> u.lastSent, runner |-> u.runner, commands |-> w.commands]
         /\ u.runner \in BOOLEAN
         /\ u.lastSent = w.lastSent \/ u.runner = w.runner
         /\ locked => u = w
         /\ ~locked /\ w.sharing /\ w.mtt # "none" => u.lastSent = NumItems(t)
BY DEF UploadSharedFileCount

\* The window's record after sharing was toggled.
LEMMA SharingToggled ==
  ASSUME NEW w, NEW v, NEW r, w.sharing \in BOOLEAN,
         w = [mtt |-> w.mtt, sharing |-> w.sharing, reports |-> w.reports,
              lastSent |-> w.lastSent, runner |-> w.runner, commands |-> w.commands],
         v = [w EXCEPT !.sharing = ~@, !.commands = @ + 1, !.reports = r]
  PROVE  v = [mtt |-> w.mtt, sharing |-> ~w.sharing, reports |-> r, lastSent |-> w.lastSent,
              runner |-> w.runner, commands |-> w.commands + 1]
OBVIOUS

\* Sending changes fields of the output.
LEMMA SendOutput ==
  ASSUME NEW o, IsOutput(o), NEW m
  PROVE  IsOutput(SendLow(o, m)) /\ IsOutput(SendHigh(o, m))
<1>1. IsOutput(SendHigh(o, m))
  BY DEF IsOutput, SendHigh
<1>2. CASE o.sending
  <2>1. SendLow(o, m) = [server |-> o.server, low |-> Append(o.low, m), sending |-> o.sending]
    BY <1>2 DEF IsOutput, SendLow
  <2> QED
    BY <1>1, <2>1 DEF IsOutput
<1>3. CASE ~o.sending
  <2>1. SendLow(o, m) = [server |-> Applied(o.server, m), low |-> o.low, sending |-> TRUE]
    BY <1>3 DEF IsOutput, SendLow
  <2> QED
    BY <1>1, <2>1 DEF IsOutput
<1> QED
  BY <1>2, <1>3

LEMMA HandledOutput ==
  ASSUME NEW s, IsOutput(s.out), NEW e \in Events
  PROVE  IsOutput(Handled(s, e).out)
<1>1. ASSUME NEW x, IsOutput(x.out), NEW f PROVE IsOutput(FileRemoved(x, f).out)
  BY <1>1, SendOutput DEF FileRemoved
<1>2. ASSUME NEW x, IsOutput(x.out), NEW f, NEW place
      PROVE  IsOutput(FileCreated(x, f, place).out)
  BY <1>2, SendOutput DEF FileCreated
<1>3. ASSUME NEW x, IsOutput(x.out), NEW dir PROVE IsOutput(DirRemoved(x, dir).out)
  BY <1>3, SendOutput DEF DirRemoved
<1>4. ASSUME NEW x, IsOutput(x.out), NEW dir PROVE IsOutput(DirCreated(x, dir).out)
  BY <1>4, SendOutput DEF DirCreated
<1>5. CASE e.op \in {"created", "moved", "removed"}
  BY <1>1, <1>2, <1>5 DEF Handled
<1>6. CASE e.op = "dirOut"
  BY <1>3, <1>6 DEF Handled
<1>7. CASE e.op = "dirIn"
  <2> DEFINE t == IF e.node \in s.tab.watched THEN DirRemoved(s, e.node) ELSE s
  <2>1. Handled(s, e) \in {t, DirCreated(t, e.node)}
    BY <1>7 DEF Handled
  <2>2. IsOutput(t.out)
    BY <1>3
  <2> HIDE DEF t
  <2> QED
    BY <1>4, <2>1, <2>2
<1> QED
  BY <1>5, <1>6, <1>7 DEF Events

\* What the scan threads find is sent if there is a connection.
LEMMA QueuedOutput ==
  ASSUME NEW names
  PROVE  /\ IsOutput(out) => IsOutput(Queued(names))
         /\ win.mtt = "none" => Queued(names) = out
BY SendOutput DEF Queued

\* A step of a scan thread: there is one; it makes no name; and after it a thread is
\* there or a report.
LEMMA ThreadStep ==
  ASSUME ScanTypeOK, ScanThread, IsOutput(out)
  PROVE  /\ ~Idle
         /\ scan.state = "none" => scan'.state = "none"
         /\ win.mtt = "none" => out' = out
         /\ IsOutput(out')
         /\ \/ Reported
            \/ UNCHANGED win /\ ~LockFree'
         /\ UNCHANGED <<forced, loose>>
<1>1. CASE StartScan
  <2>1. UNCHANGED <<out, forced, loose>> /\ scan.state = "started"
    BY <1>1 DEF StartScan
  <2>2. \/ Reported
        \/ UNCHANGED win /\ ~LockFree'
    <3>1. CASE Root \in tab.watched
      BY <1>1, <3>1 DEF StartScan
    <3>2. CASE Root \notin tab.watched
      <4>1. /\ scan' = [scan EXCEPT !.state = "walking", !.frames = <<Frame(Root)>>, !.go = TRUE]
            /\ UNCHANGED win
        BY <1>1, <3>2 DEF StartScan
      <4>2. scan'.frames = <<Frame(Root)>>
        BY <4>1 DEF ScanTypeOK
      <4> QED
        BY <4>1, <4>2 DEF LockFree
    <3> QED
      BY <3>1, <3>2
  <2> QED
    BY <2>1, <2>2 DEF Idle
<1>2. CASE StrayStarts
  <2>1. scan' = [scan EXCEPT !.strays = @ - 1] /\ scan.strays > 0
        /\ Reported /\ UNCHANGED <<out, forced, loose>>
    BY <1>2 DEF StrayStarts
  <2> QED
    BY <2>1 DEF Idle, ScanTypeOK
<1> DEFINE Goal == /\ ~Idle
                   /\ scan.state = "none" => scan'.state = "none"
                   /\ win.mtt = "none" => out' = out
                   /\ IsOutput(out')
                   /\ \/ Reported
                      \/ UNCHANGED win /\ ~LockFree'
                   /\ UNCHANGED <<forced, loose>>
<1>3. ASSUME NEW name \in Names, ReadFile(name) PROVE Goal
  <2>1. PICK new \in Seq(FramesOfWalk), g \in FramesOfWalk, go \in BOOLEAN : WalkIs(new, g, go)
    <3>1. \E new \in Seq(FramesOfWalk), g \in FramesOfWalk, go \in BOOLEAN :
            /\ WalkIs(new, g, go)
            /\ g.dir = Top.dir /\ g.left = Top.left \ {name}
            /\ At(<<Top.dir, name>>) =>
                 \/ out' = Queued(Top.names \cup {name}) /\ g.names = {}
                 \/ out' = out /\ g.names = Top.names \cup {name}
            /\ ~At(<<Top.dir, name>>) => out' = out /\ g.names = Top.names
      BY <1>3, ReadFileScan
    <3> QED
      BY <3>1
  <2>2. scan'.state = scan.state /\ scan'.frames # <<>>
    BY <2>1 DEF WalkIs
  <2>3. ~LockFree /\ UNCHANGED <<win, forced, loose>>
    BY <1>3 DEF ReadFile
  <2>4. \/ out' = out
        \/ out' = Queued(Top.names \cup {name})
    BY <1>3 DEF ReadFile
  <2>5. IsOutput(out') /\ (win.mtt = "none" => out' = out)
    BY <2>4, QueuedOutput
  <2> QED
    BY <2>2, <2>3, <2>5 DEF Idle, LockFree
<1>4. ASSUME NEW d \in Subfolders, ReadDirectory(d) PROVE Goal
  <2>1. PICK pop \in Seq(FramesOfWalk), go \in BOOLEAN :
          /\ pop # <<>>
          /\ scan' = [state |-> scan.state,
                      frames |-> IF d \in disk.inside \ tab.watched
                                 THEN Append(pop, Frame(d)) ELSE pop,
                      go |-> go, strays |-> scan.strays]
    BY <1>4, ReadDirectoryScan
  <2>2. scan'.state = scan.state /\ scan'.frames # <<>>
    BY <2>1
  <2>3. ~LockFree /\ UNCHANGED <<out, win, forced, loose>>
    BY <1>4 DEF ReadDirectory
  <2> QED
    BY <2>2, <2>3 DEF Idle, LockFree
<1>5. CASE LeaveDirectory \/ StrayAborts
  <2>1. ~LockFree /\ Returned /\ UNCHANGED <<forced, loose>>
    BY <1>5 DEF LeaveDirectory, StrayAborts
  <2>2. out' = out \/ out' = Queued(Top.names)
    BY <1>5 DEF LeaveDirectory, StrayAborts
  <2>3. IsOutput(out') /\ (win.mtt = "none" => out' = out)
    BY <2>2, QueuedOutput
  <2>4. /\ scan.state = "none" => scan'.state = "none"
        /\ Reported \/ (UNCHANGED win /\ ~LockFree')
    BY <2>1, ReturnedScan DEF Named, LockFree
  <2> QED
    BY <2>1, <2>3, <2>4 DEF Idle
<1> QED
  BY <1>1, <1>2, <1>3, <1>4, <1>5 DEF ScanThread

LEMMA ScanWindow == WindowInv /\ ScanThread => WindowInv'
<1> SUFFICES ASSUME WindowInv, ScanThread PROVE WindowInv'
  OBVIOUS
<1> USE DEF WindowInv, WindowTypeOK, NothingInv, Empty, CountInv
<1>1. /\ ~Idle
      /\ scan.state = "none" => scan'.state = "none"
      /\ win.mtt = "none" => out' = out
      /\ IsOutput(out')
      /\ \/ Reported
         \/ UNCHANGED win /\ ~LockFree'
      /\ UNCHANGED <<forced, loose>>
  BY ThreadStep
<1>2. ScanTypeOK'
  BY ScanThreadType
<1>3. CASE Reported
  <2>1. win' = [mtt |-> win.mtt, sharing |-> win.sharing, reports |-> win.reports + 1,
                lastSent |-> win.lastSent, runner |-> win.runner, commands |-> win.commands]
    BY <1>3 DEF Reported
  <2>2. win'.mtt = win.mtt /\ win'.sharing = win.sharing /\ win'.reports = win.reports + 1
        /\ win'.runner = win.runner
    BY <2>1
  <2>3. WindowTypeOK'
    BY <1>1, <1>2, <2>1, <2>2
  <2>4. NothingInv' /\ CountInv'
    BY <1>1, <2>2
  <2> QED
    BY <2>3, <2>4
<1>4. CASE UNCHANGED win /\ ~LockFree'
  <2>1. ~Idle'
    BY <1>4 DEF Idle
  <2> QED
    BY <1>1, <1>2, <1>4, <2>1
<1> QED
  BY <1>1, <1>3, <1>4

\* The disk is no part of it.
LEMMA WindowUnchanged ==
  ASSUME WindowInv, UNCHANGED <<tab, out, scan, win, forced, loose>>
  PROVE  WindowInv'
BY DEF WindowInv, WindowTypeOK, NothingInv, Empty, CountInv, IsOutput, NumItems, Idle,
   ScanTypeOK, LockFree, Named

LEMMA DiskWindow == WindowInv /\ DiskChanges => WindowInv'
<1> SUFFICES ASSUME WindowInv, DiskChanges PROVE WindowInv'
  OBVIOUS
<1>1. UNCHANGED <<tab, out, scan, win, forced, loose>>
  BY DEF DiskChanges, RemoveFile, MoveFile, CreateFile, MoveDir, Changed
<1> QED
  BY <1>1, WindowUnchanged

LEMMA MonitorWindow == TypeOK /\ WindowInv /\ NodeMonitor => WindowInv'
<1> SUFFICES ASSUME TypeOK, WindowInv, NodeMonitor PROVE WindowInv'
  OBVIOUS
<1> USE DEF WindowInv, WindowTypeOK, NothingInv, Empty, CountInv
<1>1. CASE win.sharing
  <2> DEFINE s == Handled([tab |-> tab, out |-> out], Head(events))
  <2>1. Head(events) \in Events
    BY DEF NodeMonitor, TypeOK
  <2>2. IsOutput(s.out)
    BY <2>1, HandledOutput
  <2>3. /\ out' = IF win.mtt = "none" THEN out ELSE s.out
        /\ win' = StartFileCountRunner(win, s.tab)
        /\ UNCHANGED <<scan, forced, loose>>
    BY <1>1 DEF NodeMonitor
  <2> HIDE DEF s
  <2>4. /\ win' = [mtt |-> win.mtt, sharing |-> win.sharing, reports |-> win.reports,
                   lastSent |-> win'.lastSent, runner |-> TRUE, commands |-> win.commands]
    <3>1. CASE win.runner
      BY <2>3, <3>1 DEF StartFileCountRunner
    <3>2. CASE ~win.runner
      <4> DEFINE u == UploadSharedFileCount(win, s.tab, FALSE)
      <4>1. u = [mtt |-> win.mtt, sharing |-> win.sharing, reports |-> win.reports,
                 lastSent |-> u.lastSent, runner |-> u.runner, commands |-> win.commands]
        BY UploadCount
      <4>2. win' = [u EXCEPT !.runner = TRUE]
        BY <2>3, <3>2 DEF StartFileCountRunner
      <4> HIDE DEF u
      <4>3. PICK l, k : u = [mtt |-> win.mtt, sharing |-> win.sharing,
                             reports |-> win.reports, lastSent |-> l, runner |-> k,
                             commands |-> win.commands]
        BY <4>1
      <4>4. win' = [mtt |-> win.mtt, sharing |-> win.sharing, reports |-> win.reports,
                    lastSent |-> l, runner |-> TRUE, commands |-> win.commands]
        BY <4>2, <4>3
      <4> QED
        BY <4>4
    <3> QED
      BY <3>1, <3>2
  <2>5. IsOutput(out')
    BY <2>2, <2>3
  <2>6. win'.mtt = win.mtt /\ win'.sharing = win.sharing /\ win'.reports = win.reports
        /\ win'.commands = win.commands /\ win'.runner = TRUE
    BY <2>4
  <2>9. UNCHANGED scan => (ScanTypeOK' <=> ScanTypeOK) /\ (Idle' <=> Idle)
    BY DEF ScanTypeOK, Idle, LockFree, Named
  <2>7. WindowTypeOK'
    BY <2>3, <2>4, <2>5, <2>6, <2>9
  <2>8. NothingInv'
    BY <1>1, <2>3, <2>6, <2>9
  <2> QED
    BY <2>6, <2>7, <2>8
<1>2. CASE ~win.sharing
  <2>1. UNCHANGED <<tab, out, win, scan, forced, loose>>
    BY <1>2 DEF NodeMonitor
  <2> QED
    BY <2>1, WindowUnchanged
<1> QED
  BY <1>1, <1>2

\* The runner goes only when the count that was sent is the right one.
LEMMA CountedWindow ==
  ASSUME NEW w, NEW reports \in Nat, WindowInv,
         w = [mtt |-> win.mtt, sharing |-> win.sharing, reports |-> reports,
              lastSent |-> win.lastSent, runner |-> win.runner, commands |-> win.commands],
         win' = UploadSharedFileCount(w, tab, ~LockFree), UNCHANGED tab
  PROVE  /\ win' = [mtt |-> win.mtt, sharing |-> win.sharing, reports |-> reports,
                    lastSent |-> win'.lastSent, runner |-> win'.runner,
                    commands |-> win.commands]
         /\ win'.mtt = win.mtt /\ win'.sharing = win.sharing /\ win'.reports = reports
         /\ win'.commands = win.commands
         /\ win'.runner \in BOOLEAN
         /\ LockFree /\ win.sharing /\ win.mtt # "none" => win'.lastSent = NumItems(tab)
<1> DEFINE locked == ~LockFree
<1>1. locked \in BOOLEAN
  OBVIOUS
<1>2. w.sharing \in BOOLEAN /\ w.runner \in BOOLEAN /\ w.reports = reports
      /\ w.mtt = win.mtt /\ w.sharing = win.sharing /\ w.commands = win.commands
  BY DEF WindowInv, WindowTypeOK
<1>3. w = [mtt |-> w.mtt, sharing |-> w.sharing, reports |-> w.reports,
           lastSent |-> w.lastSent, runner |-> w.runner, commands |-> w.commands]
  OBVIOUS
<1>4. win' = UploadSharedFileCount(w, tab, locked)
  OBVIOUS
<1> HIDE DEF locked
<1>5. /\ win' = [mtt |-> w.mtt, sharing |-> w.sharing, reports |-> w.reports,
                 lastSent |-> win'.lastSent, runner |-> win'.runner,
                 commands |-> w.commands]
      /\ win'.runner \in BOOLEAN
      /\ ~locked /\ w.sharing /\ w.mtt # "none" => win'.lastSent = NumItems(tab)
  BY <1>1, <1>2, <1>3, <1>4, UploadCount
<1>6. win' = [mtt |-> win.mtt, sharing |-> win.sharing, reports |-> reports,
              lastSent |-> win'.lastSent, runner |-> win'.runner, commands |-> win.commands]
  BY <1>2, <1>5
<1> QED
  BY <1>2, <1>5, <1>6 DEF locked

LEMMA CountWindow == WindowInv /\ (CheckFileCount \/ ScanThreadReport) => WindowInv'
<1> SUFFICES ASSUME WindowInv, CheckFileCount \/ ScanThreadReport PROVE WindowInv'
  OBVIOUS
<1> DEFINE Uploaded(w, reports) ==
             w = [mtt |-> win.mtt, sharing |-> win.sharing, reports |-> reports,
                  lastSent |-> win.lastSent, runner |-> win.runner, commands |-> win.commands]
<1>0. \E reports \in Nat : \E w :
        /\ Uploaded(w, reports)
        /\ win' = UploadSharedFileCount(w, tab, ~LockFree)
  <2>1. CASE CheckFileCount
    <3>1. win.reports \in Nat /\ Uploaded(win, win.reports)
      BY DEF WindowInv, WindowTypeOK
    <3>2. win' = UploadSharedFileCount(win, tab, ~LockFree)
      BY <2>1 DEF CheckFileCount
    <3> HIDE DEF Uploaded
    <3> QED
      BY <3>1, <3>2, Zenon
  <2>2. CASE ScanThreadReport
    <3>1. PICK r \in Nat : r = win.reports - 1
      BY <2>2 DEF ScanThreadReport, WindowInv, WindowTypeOK
    <3>2. [win EXCEPT !.reports = r]
            = [mtt |-> win.mtt, sharing |-> win.sharing, reports |-> r,
               lastSent |-> win.lastSent, runner |-> win.runner, commands |-> win.commands]
      BY DEF WindowInv, WindowTypeOK
    <3>3. [win EXCEPT !.reports = @ - 1] = [win EXCEPT !.reports = r]
      BY <3>1
    <3>4. win' = UploadSharedFileCount([win EXCEPT !.reports = r], tab, ~LockFree)
      BY <2>2, <3>3, Zenon DEF ScanThreadReport
    <3>5. Uploaded([win EXCEPT !.reports = r], r)
      BY <3>2
    <3> HIDE DEF Uploaded
    <3> QED
      BY <3>1, <3>4, <3>5, Zenon
  <2> QED
    BY <2>1, <2>2
<1>8. PICK reports \in Nat :
        \E w : Uploaded(w, reports) /\ win' = UploadSharedFileCount(w, tab, ~LockFree)
  BY <1>0
<1>1. PICK w : Uploaded(w, reports) /\ win' = UploadSharedFileCount(w, tab, ~LockFree)
  BY <1>8
<1>2. UNCHANGED <<tab, out, forced, loose>>
  BY DEF CheckFileCount, ScanThreadReport
<1>3. /\ win' = [mtt |-> win.mtt, sharing |-> win.sharing, reports |-> reports,
                 lastSent |-> win'.lastSent, runner |-> win'.runner,
                 commands |-> win.commands]
      /\ win'.mtt = win.mtt /\ win'.sharing = win.sharing /\ win'.reports = reports
      /\ win'.commands = win.commands
      /\ win'.runner \in BOOLEAN
      /\ LockFree /\ win.sharing /\ win.mtt # "none" => win'.lastSent = NumItems(tab)
  BY <1>1, <1>2, CountedWindow
<1>4. /\ ScanTypeOK' /\ (Idle => Idle') /\ (Idle' => LockFree)
      /\ scan.state = "none" => scan'.state = "none"
  <2>0. ScanTypeOK
    BY DEF WindowInv, WindowTypeOK
  <2>1. CASE CheckFileCount
    BY <2>0, <2>1 DEF CheckFileCount, ScanTypeOK, Idle, LockFree, Named
  <2>2. CASE ScanThreadReport
    <3>1. PICK k : k = IF scan.state = "started" THEN scan.strays + 1 ELSE scan.strays
      OBVIOUS
    <3>2. scan' = [state |-> "none", frames |-> scan.frames, go |-> scan.go, strays |-> k]
      BY <2>0, <2>2, <3>1, AbortedScan, Zenon DEF ScanThreadReport
    <3>3. k \in Nat /\ scan.frames \in Seq(FramesOfWalk) /\ scan.go \in BOOLEAN
          /\ (scan.frames = <<>> => scan.go = FALSE)
      BY <2>0, <3>1 DEF ScanTypeOK, LockFree
    <3>4. ScanTypeOK'
      BY <3>2, <3>3, ScanRecord
    <3> QED
      BY <2>0, <3>1, <3>2, <3>4 DEF Idle, LockFree
  <2> QED
    BY <2>1, <2>2
<1>5. WindowTypeOK'
  BY <1>2, <1>3, <1>4 DEF WindowInv, WindowTypeOK, IsOutput
<1>6. NothingInv'
  BY <1>2, <1>3, <1>4 DEF WindowInv, NothingInv, Empty
<1>7. CountInv'
  BY <1>2, <1>3, <1>4 DEF CountInv, NumItems
<1> QED
  BY <1>5, <1>6, <1>7 DEF WindowInv

\* The looper ends the thread that has the name: what stays are strays, and those are
\* remembered.
LEMMA AbortedIdle ==
  ASSUME ScanTypeOK, scan' = Aborted
  PROVE  /\ ScanTypeOK' /\ scan'.state = "none"
         /\ StraysStay <=> ~Idle'
         /\ LockFree' <=> Aborted.frames = <<>>
<1>1. PICK fr, go : /\ fr = IF Named THEN <<>> ELSE scan.frames
                    /\ go = IF Named THEN FALSE ELSE scan.go
  OBVIOUS
<1>2. Aborted = [state |-> "none", frames |-> fr, go |-> go, strays |-> scan.strays]
  BY <1>1, AbortedScan, Zenon
<1>3. fr \in Seq(FramesOfWalk) /\ go \in BOOLEAN /\ (fr = <<>> => go = FALSE)
      /\ scan.strays \in Nat
  <2>1. <<>> \in Seq(FramesOfWalk) /\ FALSE \in BOOLEAN
    OBVIOUS
  <2>2. CASE Named
    BY <1>1, <2>1, <2>2 DEF ScanTypeOK
  <2>3. CASE ~Named
    BY <1>1, <2>3 DEF ScanTypeOK, LockFree
  <2> QED
    BY <2>2, <2>3
<1>4. ScanTypeOK'
  BY <1>2, <1>3, ScanRecord
<1>5. scan'.state = "none" /\ scan'.frames = fr /\ Aborted.frames = fr
      /\ scan'.strays = scan.strays
  BY <1>2
<1> QED
  BY <1>3, <1>4, <1>5 DEF StraysStay, Idle, LockFree

LEMMA RestartedScan ==
  ASSUME ScanTypeOK, scan' = [Aborted EXCEPT !.state = "started"]
  PROVE  ScanTypeOK' /\ scan'.state = "started"
<1>1. PICK fr, go : /\ fr = IF Named THEN <<>> ELSE scan.frames
                    /\ go = IF Named THEN FALSE ELSE scan.go
  OBVIOUS
<1>2. Aborted = [state |-> "none", frames |-> fr, go |-> go, strays |-> scan.strays]
  BY <1>1, AbortedScan, Zenon
<1>3. scan' = [state |-> "started", frames |-> fr, go |-> go, strays |-> scan.strays]
  <2>1. PICK a : a = Aborted
    OBVIOUS
  <2>2. a = [state |-> "none", frames |-> fr, go |-> go, strays |-> scan.strays]
    BY <1>2, <2>1, Zenon
  <2>3. [a EXCEPT !.state = "started"]
          = [state |-> "started", frames |-> fr, go |-> go, strays |-> scan.strays]
    BY <2>2
  <2> QED
    BY <2>1, <2>3, Zenon
<1>4. fr \in Seq(FramesOfWalk) /\ go \in BOOLEAN /\ (fr = <<>> => go = FALSE)
      /\ scan.strays \in Nat
  <2>1. <<>> \in Seq(FramesOfWalk) /\ FALSE \in BOOLEAN
    OBVIOUS
  <2>2. CASE Named
    BY <1>1, <2>1, <2>2 DEF ScanTypeOK
  <2>3. CASE ~Named
    BY <1>1, <2>3 DEF ScanTypeOK, LockFree
  <2> QED
    BY <2>2, <2>3
<1> QED
  BY <1>3, <1>4, ScanRecord

\* Every command either starts a scan on a connection, or leaves nothing behind.
LEMMA CommandWindow ==
  WindowInv /\ (\/ ConnectToServer \/ DisconnectFromServer \/ SessionConnected
                \/ SetFileSharingEnabled \/ SetFirewalled) => WindowInv'
<1> SUFFICES ASSUME WindowInv,
                    \/ ConnectToServer \/ DisconnectFromServer \/ SessionConnected
                    \/ SetFileSharingEnabled \/ SetFirewalled
             PROVE  WindowInv'
  OBVIOUS
<1> USE DEF WindowInv, WindowTypeOK, NothingInv, Empty
<1>0. AbortedReports \in Nat
  BY DEF AbortedReports
<1>1. ASSUME NEW mtt \in {"none", "connecting"}, SetConnection(mtt), Disconnected
      PROVE  WindowInv'
  <2>1. win' = [mtt |-> mtt, sharing |-> win.sharing, reports |-> AbortedReports,
                lastSent |-> Gone, runner |-> FALSE, commands |-> win.commands + 1]
    BY <1>1 DEF SetConnection
  <2>2. out' = Removed /\ scan' = Aborted /\ loose' = StraysStay
    BY <1>1 DEF Disconnected
  <2>3. ScanTypeOK' /\ scan'.state = "none" /\ (~loose' => Idle')
    BY <2>2, AbortedIdle
  <2> QED
    BY <1>0, <2>1, <2>2, <2>3 DEF Removed, IsOutput, CountInv
<1>2. ASSUME win.mtt # "none", RemoveFileSharing
      PROVE  IsOutput(out') /\ out'.server = {} /\ out'.low = <<>>
  BY <1>2 DEF RemoveFileSharing, IsOutput
<1>3. ASSUME win.mtt = "none", RemoveFileSharing PROVE IsOutput(out') /\ out' = out
  BY <1>3 DEF RemoveFileSharing, IsOutput
<1>4. ASSUME ReuploadFiles, win.mtt # "none"
      PROVE  /\ IsOutput(out')
             /\ ScanTypeOK' /\ ~Idle'
  <2>1. RemoveFileSharing /\ scan' = [Aborted EXCEPT !.state = "started"]
    BY <1>4 DEF ReuploadFiles
  <2> QED
    BY <1>2, <1>4, <2>1, RestartedScan DEF Idle
<1>5. CASE SessionConnected
  <2>1. CASE win.sharing
    <3>1. win' = [mtt |-> "connected", sharing |-> win.sharing, reports |-> AbortedReports,
                  lastSent |-> win.lastSent, runner |-> win.runner, commands |-> win.commands]
          /\ ReuploadFiles /\ win.mtt # "none"
      BY <1>5, <2>1 DEF SessionConnected
    <3>2. IsOutput(out') /\ ScanTypeOK' /\ ~Idle'
      BY <1>4, <3>1
    <3> QED
      BY <1>0, <2>1, <3>1, <3>2 DEF CountInv
  <2>2. CASE ~win.sharing
    <3>1. win' = [mtt |-> "connected", sharing |-> win.sharing, reports |-> win.reports,
                  lastSent |-> win.lastSent, runner |-> win.runner, commands |-> win.commands]
          /\ UNCHANGED <<out, scan, forced, loose>>
      BY <1>5, <2>2 DEF SessionConnected
    <3>2. ScanTypeOK' /\ (Idle' <=> Idle)
      BY <3>1 DEF ScanTypeOK, Idle, LockFree, Named
    <3> QED
      BY <2>2, <3>1, <3>2 DEF CountInv, IsOutput
  <2> QED
    BY <2>1, <2>2
<1>6. CASE SetFileSharingEnabled
  <2> DEFINE w == [win EXCEPT !.sharing = ~@, !.commands = @ + 1, !.reports = AbortedReports]
  <2>1. PICK v : v = w
    OBVIOUS
  <2>2. v = [mtt |-> win.mtt, sharing |-> ~win.sharing, reports |-> AbortedReports,
             lastSent |-> win.lastSent, runner |-> win.runner, commands |-> win.commands + 1]
    BY <2>1, SharingToggled
  <2>3. IF w.sharing THEN ReuploadFiles /\ win' = w
        ELSE RemoveFileSharing /\ scan' = Aborted
             /\ win' = UploadSharedFileCount(w, EmptyTables, Aborted.frames # <<>>)
    BY <1>6 DEF SetFileSharingEnabled
  <2>6. loose' = StraysStay
    BY <1>6 DEF SetFileSharingEnabled
  <2> HIDE DEF w
  <2>4. CASE ~win.sharing
    <3>1. v = [mtt |-> win.mtt, sharing |-> TRUE, reports |-> AbortedReports,
               lastSent |-> win.lastSent, runner |-> win.runner, commands |-> win.commands + 1]
      BY <2>2, <2>4
    <3>2. win' = v /\ ReuploadFiles
      BY <2>1, <2>3, <3>1
    <3>3. CASE win.mtt # "none"
      <4>1. IsOutput(out') /\ ScanTypeOK' /\ ~Idle'
        BY <1>4, <3>2, <3>3
      <4> QED
        BY <1>0, <2>4, <3>1, <3>2, <3>3, <4>1 DEF CountInv
    <3>4. CASE win.mtt = "none"
      <4>1. scan' = Aborted /\ UNCHANGED out
        BY <3>2, <3>4 DEF ReuploadFiles
      <4>2. ScanTypeOK' /\ scan'.state = "none"
        BY <4>1, AbortedIdle
      <4> QED
        BY <1>0, <2>4, <3>1, <3>2, <3>4, <4>1, <4>2 DEF CountInv, IsOutput
    <3> QED
      BY <3>3, <3>4
  <2>5. CASE win.sharing
    <3>1. v = [mtt |-> win.mtt, sharing |-> FALSE, reports |-> AbortedReports,
               lastSent |-> win.lastSent, runner |-> win.runner, commands |-> win.commands + 1]
      BY <2>2, <2>5
    <3> DEFINE locked == Aborted.frames # <<>>
    <3>0. locked \in BOOLEAN
      OBVIOUS
    <3>2. /\ RemoveFileSharing /\ scan' = Aborted
          /\ win' = UploadSharedFileCount(v, EmptyTables, locked)
      BY <2>1, <2>3, <3>1
    <3> HIDE DEF locked
    <3>3. /\ v.sharing = FALSE /\ v.sharing \in BOOLEAN /\ v.runner \in BOOLEAN
          /\ v.mtt = win.mtt /\ v.reports = AbortedReports
          /\ v = [mtt |-> v.mtt, sharing |-> v.sharing, reports |-> v.reports,
                  lastSent |-> v.lastSent, runner |-> v.runner, commands |-> v.commands]
      BY <3>1
    <3>4. /\ win' = [mtt |-> v.mtt, sharing |-> v.sharing, reports |-> v.reports,
                     lastSent |-> win'.lastSent, runner |-> win'.runner,
                     commands |-> v.commands]
          /\ win'.runner \in BOOLEAN
      BY <3>0, <3>2, <3>3, UploadCount
    <3>5. /\ win'.mtt = win.mtt /\ win'.sharing = v.sharing
          /\ win'.reports = AbortedReports /\ win'.commands = v.commands
      BY <3>3, <3>4
    <3>6. IsOutput(out') /\ out'.server = {} /\ out'.low = <<>>
      BY <1>2, <1>3, <3>2
    <3>9. ScanTypeOK' /\ scan'.state = "none" /\ (~loose' => Idle')
      BY <2>6, <3>2, AbortedIdle
    <3>7. WindowTypeOK'
      BY <1>0, <3>2, <3>3, <3>6, <3>4, <3>5, <3>9
    <3>8. ~win'.sharing
      BY <3>3, <3>5
    <3> QED
      BY <3>6, <3>7, <3>8, <3>9 DEF CountInv
  <2> QED
    BY <2>4, <2>5
<1>7. CASE SetFirewalled
  <2>1. win' = [mtt |-> win.mtt, sharing |-> win.sharing, reports |-> AbortedReports,
                lastSent |-> win.lastSent, runner |-> win.runner,
                commands |-> win.commands + 1]
        /\ ReuploadFiles /\ win.mtt = "connected" /\ forced' = (forced \/ ~win.sharing)
    BY <1>7 DEF SetFirewalled
  <2>2. IsOutput(out') /\ ScanTypeOK' /\ ~Idle'
    BY <1>4, <2>1
  <2> QED
    BY <1>0, <2>1, <2>2 DEF CountInv
<1> QED
  BY <1>1, <1>5, <1>6, <1>7 DEF ConnectToServer, DisconnectFromServer

LEMMA NextWindow == TypeOK /\ WindowInv /\ [Next]_vars => WindowInv'
<1>1. WindowInv /\ Drained => WindowInv'
  <2> SUFFICES ASSUME WindowInv, Drained PROVE WindowInv'
    OBVIOUS
  <2>1. /\ UNCHANGED <<tab, scan, win, forced, loose>> /\ IsOutput(out')
        /\ out.low = <<>> => out'.low = <<>> /\ out'.server = out.server
    BY DEF Drained, WindowInv, WindowTypeOK, IsOutput
  <2>2. ScanTypeOK' /\ (Idle' <=> Idle)
    BY <2>1 DEF WindowInv, WindowTypeOK, ScanTypeOK, Idle, LockFree, Named
  <2> QED
    BY <2>1, <2>2 DEF WindowInv, WindowTypeOK, NothingInv, Empty, CountInv, NumItems
<1>2. WindowInv /\ UNCHANGED vars => WindowInv'
  BY WindowUnchanged DEF vars
<1> QED
  BY <1>1, <1>2, ScanWindow, DiskWindow, MonitorWindow, CountWindow, CommandWindow
     DEF Next, Looper

LEMMA WindowInvariant == Spec => []WindowInv
<1>1. FindInv => TypeOK
  BY DEF FindInv
<1> QED
  BY <1>1, InitFind, NextFind, InitWindow, NextWindow, PTL DEF Spec

\* With file sharing disabled there is nothing of ours on the server, nothing in the
\* queue and no scan that could add something, whatever was under way when it was
\* disabled, connected or not.  Two things are excepted, both of the code: SetFirewalled()
\* shares regardless, and scans that ran on without a name when the sharing (or the
\* connection) was ended, for which AbortScanSharesThread() does not wait.  A scan that had
\* its name then leaves nothing behind.
THEOREM NothingWhileDisabledHolds == Spec => []NothingWhileDisabled
<1>1. WindowInv => NothingWhileDisabled
  BY IdleIsNoScan DEF WindowInv, WindowTypeOK, NothingInv, Empty, NothingWhileDisabled
<1> QED
  BY <1>1, WindowInvariant, PTL

\* The number of files that the others see follows the index: no handler deletes the
\* runner of UploadSharedFileCount() before the right number was sent, whichever scans
\* hold the lock and whichever of them the report came from.
THEOREM CountIsAnnouncedHolds == Spec => []CountIsAnnounced
<1>1. WindowInv => CountIsAnnounced
  BY IdleIsNoScan DEF WindowInv, WindowTypeOK, CountInv, CountIsAnnounced, Settled
<1> QED
  BY <1>1, WindowInvariant, PTL

-----------------------------------------------------------------------------
(* Exact counts *)

\* The claim of CountsExact about tables t.
Counted(t) == \A name \in Names : Cardinality(Holders(t, name)) = t.count[name]

\* What a removal does to the tables while there is a connection.
LEMMA FileRemovedFields ==
  ASSUME NEW s, s.tab \in Tables, NEW f \in Files, s.tab.entry[f] # Gone, win.mtt # "none"
  PROVE  LET t == s.tab
             u == FileRemoved(s, f).tab
             name == t.entry[f][2] IN
         /\ name \in Names
         /\ u.watched = t.watched
         /\ u.entry = [t.entry EXCEPT ![f] = Gone]
         /\ u.count = [t.count EXCEPT ![name] = IF @ > 0 THEN @ - 1 ELSE 0]
         /\ FileRemoved(s, f).out = SendLow(s.out, [op |-> "remove", names |-> {name}])
<1>1. PICK t : t = s.tab
  OBVIOUS
<1>2. PICK name : name = t.entry[f][2]
  OBVIOUS
<1>3. t \in Tables /\ name \in Names
  BY <1>1, <1>2 DEF Tables, Somewhere, Places
<1>4. PICK w : w = UnrefFilename(t, name)
  OBVIOUS
<1>5. /\ Record(w) /\ w.watched = t.watched /\ w.entry = t.entry
      /\ w.count = [t.count EXCEPT ![name] = IF t.count[name] > 0 THEN t.count[name] - 1 ELSE 0]
  BY <1>3, <1>4, UnrefFilenameFields
<1>6. /\ FileRemoved(s, f).tab = [w EXCEPT !.entry[f] = Gone]
      /\ FileRemoved(s, f).out = SendLow(s.out, [op |-> "remove", names |-> {name}])
  BY <1>1, <1>2, <1>4 DEF FileRemoved
<1>7. PICK u : u = [w EXCEPT !.entry[f] = Gone]
  OBVIOUS
<1>8. u.watched = w.watched /\ u.count = w.count /\ u.entry = [w.entry EXCEPT ![f] = Gone]
  BY <1>5, <1>7, EntryFields
<1> QED
  BY <1>1, <1>2, <1>3, <1>5, <1>6, <1>7, <1>8

\* What a file's addition does to them.
LEMMA AddFileFields ==
  ASSUME NEW t \in Tables, NEW f \in Files, NEW place \in Places
  PROVE  LET u == AddFile(t, f, place) IN
         /\ u.watched = t.watched
         /\ u.entry = [t.entry EXCEPT ![f] = place]
         /\ u.count = [t.count EXCEPT ![place[2]] = @ + 1]
<1>1. PICK p \in Somewhere : p = place /\ p[2] \in Names
  BY DEF Somewhere, Places
<1>2. PICK a : a = AddFile(t, f, p)
  OBVIOUS
<1>3. /\ Record(a) /\ a.watched = t.watched
      /\ a.entry = [t.entry EXCEPT ![f] = p]
      /\ a.count = [t.count EXCEPT ![p[2]] = @ + 1]
      /\ a.ref = IF t.count[p[2]] > 0 THEN t.ref ELSE [t.ref EXCEPT ![p[2]] = p]
      /\ a.twice = IF t.count[p[2]] > 0 THEN t.twice \cup {p[2]} ELSE t.twice \ {p[2]}
  BY <1>1, <1>2, AddedFields, SMTT(30)
<1> QED
  BY <1>1, <1>2, <1>3

\* One file that was not listed is entered.
LEMMA AddFileCounted ==
  ASSUME NEW t \in Tables, Counted(t), NEW f \in Files, NEW place \in Places,
         t.entry[f] = Gone
  PROVE  Counted(AddFile(t, f, place))
<1> DEFINE u == AddFile(t, f, place)
<1>1. /\ u.entry = [t.entry EXCEPT ![f] = place]
      /\ u.count = [t.count EXCEPT ![place[2]] = @ + 1]
  BY AddFileFields
<1>2. place # Gone /\ place[2] \in Names
  BY GoneAssumption DEF Places
<1> HIDE DEF u
<1> SUFFICES ASSUME NEW n \in Names PROVE Cardinality(Holders(u, n)) = u.count[n]
  BY DEF Counted, u
<1>3. Cardinality(Holders(t, n)) = t.count[n] /\ IsFiniteSet(Holders(t, n))
      /\ t.count \in [Names -> Nat]
  BY HoldersFinite DEF Counted, Tables
<1>4. CASE n = place[2]
  <2>1. Holders(u, n) = Holders(t, n) \cup {f} /\ f \notin Holders(t, n)
    BY <1>1, <1>2, <1>4 DEF Holders, Tables
  <2>2. Cardinality(Holders(u, n)) = Cardinality(Holders(t, n)) + 1
    BY <1>3, <2>1, FS_AddElement
  <2> QED
    BY <1>1, <1>3, <1>4, <2>2
<1>5. CASE n # place[2]
  <2>1. Holders(u, n) = Holders(t, n)
    BY <1>1, <1>2, <1>5 DEF Holders, Tables
  <2> QED
    BY <1>1, <1>3, <1>5, <2>1
<1> QED
  BY <1>4, <1>5

LEMMA FileRemovedCounted ==
  ASSUME NEW s, s.tab \in Tables, Counted(s.tab), NEW f \in Files, win.mtt # "none"
  PROVE  Counted(FileRemoved(s, f).tab)
<1>1. CASE s.tab.entry[f] = Gone
  BY <1>1 DEF FileRemoved
<1>2. CASE s.tab.entry[f] # Gone
  <2> DEFINE u == FileRemoved(s, f).tab
  <2>1. PICK t : t = s.tab
    OBVIOUS
  <2>2. PICK name : name = t.entry[f][2]
    OBVIOUS
  <2>3. /\ name \in Names
        /\ u.entry = [t.entry EXCEPT ![f] = Gone]
        /\ u.count = [t.count EXCEPT ![name] = IF @ > 0 THEN @ - 1 ELSE 0]
        /\ t \in Tables /\ Counted(t) /\ t.entry[f] # Gone
    BY <1>2, <2>1, <2>2, FileRemovedFields
  <2> HIDE DEF u
  <2> SUFFICES ASSUME NEW n \in Names PROVE Cardinality(Holders(u, n)) = u.count[n]
    BY DEF Counted, u
  <2>4. Cardinality(Holders(t, n)) = t.count[n] /\ IsFiniteSet(Holders(t, n))
        /\ t.count \in [Names -> Nat]
    BY <2>3, HoldersFinite DEF Counted, Tables
  <2>5. CASE n = name
    <3>1. Holders(u, n) = Holders(t, n) \ {f} /\ f \in Holders(t, n)
      BY <2>2, <2>3, <2>5 DEF Holders, Tables
    <3>2. Cardinality(Holders(u, n)) = Cardinality(Holders(t, n)) - 1
      BY <2>4, <3>1, FS_RemoveElement
    <3>3. Holders(t, n) # {} /\ Cardinality(Holders(t, n)) # 0
      BY <2>4, <3>1, FS_EmptySet
    <3>4. t.count[n] \in Nat /\ t.count[n] > 0
      BY <2>4, <3>3
    <3>5. u.count[n] = t.count[n] - 1
      BY <2>3, <2>4, <2>5, <3>4
    <3> QED
      BY <2>4, <3>2, <3>5
  <2>6. CASE n # name
    <3>1. Holders(u, n) = Holders(t, n)
      BY <2>2, <2>3, <2>6 DEF Holders, Tables
    <3> QED
      BY <2>3, <2>4, <2>6, <3>1
  <2> QED
    BY <2>5, <2>6
<1> QED
  BY <1>1, <1>2

LEMMA DirRemovedCounted ==
  ASSUME NEW s, s.tab \in Tables, Counted(s.tab), NEW dir, win.mtt # "none"
  PROVE  Counted(DirRemoved(s, dir).tab)
<1> DEFINE t == s.tab
           known == {f \in FilesIn(dir) : t.entry[f] # Gone}
           u == DirRemoved(s, dir).tab
           Dropped(n) == {f \in known : t.entry[f][2] = n}
<1>1. t \in Tables /\ Counted(t)
  OBVIOUS
<1>4. /\ u.entry = [f \in Files |-> IF f \in known THEN Gone ELSE t.entry[f]]
      /\ u.count = [n \in Names |-> IF t.count[n] > Cardinality(Dropped(n))
                                    THEN t.count[n] - Cardinality(Dropped(n)) ELSE 0]
  <2> DEFINE gone(n) == IF win.mtt = "none" THEN 0 ELSE Cardinality(Dropped(n))
  <2>1. /\ Record(u) /\ u.watched = t.watched \ {dir}
        /\ u.entry = [f \in Files |-> IF f \in known THEN Gone ELSE t.entry[f]]
        /\ u.count = [n \in Names |-> IF t.count[n] > gone(n) THEN t.count[n] - gone(n) ELSE 0]
        /\ u.ref = [n \in Names |-> IF t.count[n] > gone(n) THEN t.ref[n] ELSE Gone]
        /\ u.twice = {n \in Names : n \in t.twice /\ t.count[n] > gone(n)}
    BY DirRemovedFields
  <2>2. \A n : gone(n) = Cardinality(Dropped(n))
    OBVIOUS
  <2> HIDE DEF gone, u, known, Dropped
  <2> QED
    BY <2>1, <2>2
<1>5. known \subseteq Files /\ \A f \in known : t.entry[f] # Gone
  BY DEF FilesIn
<1> SUFFICES ASSUME NEW n \in Names PROVE Cardinality(Holders(u, n)) = u.count[n]
  BY DEF Counted
<1> HIDE DEF t, known, u
<1>6. Cardinality(Holders(t, n)) = t.count[n] /\ IsFiniteSet(Holders(t, n))
      /\ t.count[n] \in Nat
  BY <1>1, HoldersFinite DEF Counted, Tables
<1>7. Dropped(n) \subseteq Holders(t, n) /\ Holders(u, n) = Holders(t, n) \ Dropped(n)
  BY <1>4, <1>5 DEF Holders
<1>8. u.count[n] = IF t.count[n] > Cardinality(Dropped(n))
                   THEN t.count[n] - Cardinality(Dropped(n)) ELSE 0
  BY <1>4
<1> HIDE DEF Dropped
<1>9. /\ IsFiniteSet(Dropped(n)) /\ Cardinality(Dropped(n)) \in Nat
      /\ Cardinality(Dropped(n)) <= Cardinality(Holders(t, n))
      /\ Holders(t, n) \cap Dropped(n) = Dropped(n)
  BY <1>6, <1>7, FS_Subset, FS_CardinalityType
<1>10. Cardinality(Holders(u, n)) = Cardinality(Holders(t, n)) - Cardinality(Dropped(n))
  <2>1. Cardinality(Holders(t, n) \ Dropped(n))
          = Cardinality(Holders(t, n)) - Cardinality(Holders(t, n) \cap Dropped(n))
    BY <1>6, <1>9, FS_Difference
  <2> QED
    BY <1>7, <1>9, <2>1
<1> QED
  BY <1>6, <1>8, <1>9, <1>10

\* None of the folder's files was listed.
LEMMA DirCreatedCounted ==
  ASSUME TypeOK, NEW s, s.tab \in Tables, Counted(s.tab), NEW dir,
         \A f \in FilesIn(dir) : s.tab.entry[f] = Gone
  PROVE  Counted(DirCreated(s, dir).tab)
<1> DEFINE t == s.tab
           here == FilesIn(dir)
           u == DirCreated(s, dir).tab
           Found(n) == {f \in here : disk.at[f][2] = n}
           found(n) == Cardinality(Found(n))
<1>1. t \in Tables /\ Counted(t)
  OBVIOUS
<1>4. /\ u.entry = [f \in Files |-> IF f \in here THEN disk.at[f] ELSE t.entry[f]]
      /\ u.count = [n \in Names |-> t.count[n] + found(n)]
  <2>1. /\ Record(u) /\ u.watched = t.watched \cup {dir}
        /\ u.entry = [f \in Files |-> IF f \in here THEN disk.at[f] ELSE t.entry[f]]
        /\ u.count = [n \in Names |-> t.count[n] + found(n)]
        /\ u.ref = [n \in Names |-> IF t.count[n] = 0 /\ found(n) > 0
                                     THEN <<dir, n>> ELSE t.ref[n]]
        /\ u.twice = t.twice \cup {n \in Names : found(n) > 0 /\ t.count[n] > 0}
    BY DirCreatedFields
  <2> HIDE DEF u, here, found
  <2> QED
    BY <2>1
<1>5. /\ here \subseteq Files
      /\ \A f \in here : t.entry[f] = Gone /\ disk.at[f] # Gone
  BY DEF FilesIn
<1> SUFFICES ASSUME NEW n \in Names PROVE Cardinality(Holders(u, n)) = u.count[n]
  BY DEF Counted
<1> HIDE DEF t, here, u
<1>6. Cardinality(Holders(t, n)) = t.count[n] /\ IsFiniteSet(Holders(t, n))
      /\ t.count[n] \in Nat
  BY <1>1, HoldersFinite DEF Counted, Tables
<1>7. /\ Found(n) \subseteq Files /\ Found(n) \cap Holders(t, n) = {}
      /\ Holders(u, n) = Holders(t, n) \cup Found(n)
  BY <1>4, <1>5 DEF Holders
<1>8. u.count[n] = t.count[n] + Cardinality(Found(n))
  BY <1>4
<1> HIDE DEF Found
<1>9. IsFiniteSet(Found(n)) /\ Cardinality(Found(n)) \in Nat
      /\ Holders(t, n) \cap Found(n) = {}
  BY <1>7, FilesAssumption, FS_Subset, FS_CardinalityType
<1>10. Cardinality(Holders(u, n))
         = Cardinality(Holders(t, n)) + Cardinality(Found(n)) - Cardinality({})
  BY <1>6, <1>7, <1>9, FS_Union
<1>11. Cardinality({}) = 0
  BY FS_EmptySet
<1> QED
  BY <1>6, <1>8, <1>9, <1>10, <1>11

LEMMA EmptyCounted == Counted(EmptyTables)
<1>1. \A name \in Names : Holders(EmptyTables, name) = {} /\ EmptyTables.count[name] = 0
  BY DEF EmptyTables, Holders
<1> QED
  BY <1>1, FS_EmptySet DEF Counted

-----------------------------------------------------------------------------
(* A file and what waits to be handled about it *)

Leaves(e, f) == e.op \in {"moved", "removed"} /\ e.node = f
Puts(e, f) == e.op \in {"created", "moved"} /\ e.node = f
About(e, f) == Leaves(e, f) \/ Puts(e, f)

\* Where the tables will list the file after i messages, if no later one undoes it.
Listing(t, evs, f, i) ==
  IF i = 0 THEN t.entry[f]
  ELSE IF Puts(evs[i], f) /\ evs[i].to # Gone /\ evs[i].to[1] \in t.watched THEN evs[i].to
  ELSE Gone

\* A file is not created again before a message took it away ...
Separate(t, evs, f) ==
  \A i \in 0..Len(evs), k \in 1..Len(evs) :
    i < k /\ Listing(t, evs, f, i) # Gone /\ evs[k].op = "created" /\ evs[k].node = f
      => \E j \in 1..Len(evs) : i < j /\ j < k /\ Leaves(evs[j], f)

\* ... nor listed for good where it is not ...
Overtaken(t, at, evs, f) ==
  \A i \in 0..Len(evs) :
    Listing(t, evs, f, i) \notin {Gone, at[f]}
      => \E j \in 1..Len(evs) : i < j /\ Leaves(evs[j], f)

\* ... or in a folder that is not watched.
InWatched(t, evs, f) ==
  t.entry[f] # Gone /\ t.entry[f][1] \notin t.watched
    => \E j \in 1..Len(evs) : Leaves(evs[j], f)

\* A file in a watched folder will be found by the scan, or is listed, or a message will
\* list it, and the last message about it is the one that does.
Found(t, at, evs, f, toRead) ==
  at[f] # Gone /\ at[f][1] \in t.watched /\ ~toRead =>
    /\ \/ t.entry[f] = at[f]
       \/ \E i \in 1..Len(evs) : Puts(evs[i], f) /\ evs[i].to = at[f]
    /\ \A i \in 1..Len(evs) :
         About(evs[i], f) => \E j \in i..Len(evs) : Puts(evs[j], f) /\ evs[j].to = at[f]

FileFollows(t, at, evs, f, toRead) ==
  /\ Separate(t, evs, f)
  /\ Overtaken(t, at, evs, f)
  /\ InWatched(t, evs, f)
  /\ Found(t, at, evs, f, toRead)

\* A message joins the queue, or leaves it.
LEMMA AppendedEvents ==
  ASSUME NEW evs \in Seq(Events), NEW e \in Events
  PROVE  /\ Append(evs, e) \in Seq(Events) /\ Len(evs) \in Nat
         /\ Len(Append(evs, e)) = Len(evs) + 1
         /\ \A i \in 1..Len(evs) : Append(evs, e)[i] = evs[i]
         /\ Append(evs, e)[Len(evs) + 1] = e
OBVIOUS

LEMMA TailEvents ==
  ASSUME NEW evs \in Seq(Events), evs # <<>>
  PROVE  /\ Tail(evs) \in Seq(Events) /\ Len(evs) \in Nat /\ Len(evs) >= 1
         /\ Len(Tail(evs)) \in Nat /\ Len(Tail(evs)) = Len(evs) - 1
         /\ \A i \in 1..Len(Tail(evs)) : Tail(evs)[i] = evs[i + 1]
         /\ Head(evs) = evs[1] /\ evs[1] \in Events
OBVIOUS

\* A message about something else.
LEMMA OtherAppended ==
  ASSUME NEW t, NEW at, NEW at2, NEW evs \in Seq(Events), NEW e \in Events, NEW f, NEW w,
         FileFollows(t, at, evs, f, w), at2[f] = at[f], ~About(e, f)
  PROVE  FileFollows(t, at2, Append(evs, e), f, w)
<1>1. PICK new : new = Append(evs, e)
  OBVIOUS
<1>2. PICK n \in Nat : n = Len(evs)
  OBVIOUS
<1>3. /\ Len(new) = n + 1
      /\ \A i \in 1..n : new[i] = evs[i]
      /\ new[n + 1] = e
  BY <1>1, <1>2, AppendedEvents
<1>4. \A i \in 0..n : Listing(t, new, f, i) = Listing(t, evs, f, i)
  BY <1>3 DEF Listing
<1>5. Listing(t, new, f, n + 1) = Gone
  BY <1>3 DEF Listing, About
<1>6. Separate(t, new, f)
  <2> SUFFICES ASSUME NEW i \in 0..Len(new), NEW k \in 1..Len(new), i < k,
                      Listing(t, new, f, i) # Gone, new[k].op = "created", new[k].node = f
               PROVE  \E j \in 1..Len(new) : i < j /\ j < k /\ Leaves(new[j], f)
    BY DEF Separate
  <2>1. i \in 0..n /\ k \in 1..n
    BY <1>3, <1>5 DEF About, Puts
  <2>2. PICK j \in 1..n : i < j /\ j < k /\ Leaves(evs[j], f)
    BY <1>2, <1>3, <1>4, <2>1 DEF FileFollows, Separate
  <2> QED
    BY <1>3, <2>2
<1>7. Overtaken(t, at2, new, f)
  <2> SUFFICES ASSUME NEW i \in 0..Len(new), Listing(t, new, f, i) \notin {Gone, at2[f]}
               PROVE  \E j \in 1..Len(new) : i < j /\ Leaves(new[j], f)
    BY DEF Overtaken
  <2>1. i \in 0..n
    BY <1>3, <1>5
  <2>2. PICK j \in 1..n : i < j /\ Leaves(evs[j], f)
    BY <1>2, <1>4, <2>1 DEF FileFollows, Overtaken
  <2> QED
    BY <1>3, <2>2
<1>8. InWatched(t, new, f)
  BY <1>2, <1>3 DEF FileFollows, InWatched
<1>9. Found(t, at2, new, f, w)
  <2> SUFFICES ASSUME at[f] # Gone, at[f][1] \in t.watched, ~w
               PROVE  /\ \/ t.entry[f] = at[f]
                         \/ \E i \in 1..Len(new) : Puts(new[i], f) /\ new[i].to = at[f]
                      /\ \A i \in 1..Len(new) :
                           About(new[i], f)
                             => \E j \in i..Len(new) : Puts(new[j], f) /\ new[j].to = at[f]
    BY DEF Found
  <2>1. \/ t.entry[f] = at[f]
        \/ \E i \in 1..Len(new) : Puts(new[i], f) /\ new[i].to = at[f]
    BY <1>2, <1>3 DEF FileFollows, Found
  <2>2. ASSUME NEW i \in 1..Len(new), About(new[i], f)
        PROVE  \E j \in i..Len(new) : Puts(new[j], f) /\ new[j].to = at[f]
    <3>1. i \in 1..n /\ About(evs[i], f)
      BY <1>3, <2>2
    <3>2. PICK j \in i..n : Puts(evs[j], f) /\ evs[j].to = at[f]
      BY <1>2, <3>1 DEF FileFollows, Found
    <3> QED
      BY <1>3, <3>1, <3>2
  <2> QED
    BY <2>1, <2>2
<1> QED
  BY <1>1, <1>6, <1>7, <1>8, <1>9 DEF FileFollows

\* The message that tells where the file went.
LEMMA OwnAppended ==
  ASSUME NEW t, NEW at, NEW at2, NEW evs \in Seq(Events), NEW e \in Events, NEW f,
         NEW w, NEW w2,
         FileFollows(t, at, evs, f, w), About(e, f),
         Puts(e, f) => e.to = at2[f],
         at2[f] # Gone => Puts(e, f),
         e.op = "created" => at[f] = Gone
  PROVE  FileFollows(t, at2, Append(evs, e), f, w2)
<1>1. PICK new : new = Append(evs, e)
  OBVIOUS
<1>2. PICK n \in Nat : n = Len(evs)
  OBVIOUS
<1>3. /\ Len(new) = n + 1
      /\ \A i \in 1..n : new[i] = evs[i]
      /\ new[n + 1] = e
  BY <1>1, <1>2, AppendedEvents
<1>4. \A i \in 0..n : Listing(t, new, f, i) = Listing(t, evs, f, i)
  BY <1>3 DEF Listing
<1>5. Listing(t, new, f, n + 1) \in {Gone, at2[f]}
  BY <1>3 DEF Listing
<1>0. e.op = "created" \/ Leaves(e, f)
  BY DEF About, Puts, Leaves
<1>6. Separate(t, new, f)
  <2> SUFFICES ASSUME NEW i \in 0..Len(new), NEW k \in 1..Len(new), i < k,
                      Listing(t, new, f, i) # Gone, new[k].op = "created", new[k].node = f
               PROVE  \E j \in 1..Len(new) : i < j /\ j < k /\ Leaves(new[j], f)
    BY DEF Separate
  <2>1. i \in 0..n
    BY <1>3
  <2>2. CASE k \in 1..n
    <3>1. PICK j \in 1..n : i < j /\ j < k /\ Leaves(evs[j], f)
      BY <1>2, <1>3, <1>4, <2>1, <2>2 DEF FileFollows, Separate
    <3> QED
      BY <1>3, <3>1
  <2>3. CASE k = n + 1
    <3>1. Listing(t, evs, f, i) \notin {Gone, at[f]}
      BY <1>3, <1>4, <2>1, <2>3
    <3>2. PICK j \in 1..n : i < j /\ Leaves(evs[j], f)
      BY <1>2, <2>1, <3>1 DEF FileFollows, Overtaken
    <3> QED
      BY <1>3, <2>3, <3>2
  <2> QED
    BY <1>3, <2>2, <2>3
<1>7. Overtaken(t, at2, new, f)
  <2> SUFFICES ASSUME NEW i \in 0..Len(new), Listing(t, new, f, i) \notin {Gone, at2[f]}
               PROVE  \E j \in 1..Len(new) : i < j /\ Leaves(new[j], f)
    BY DEF Overtaken
  <2>1. i \in 0..n
    BY <1>3, <1>5
  <2>2. CASE Leaves(e, f)
    BY <1>3, <2>1, <2>2
  <2>3. CASE e.op = "created"
    <3>1. PICK j \in 1..n : i < j /\ Leaves(evs[j], f)
      BY <1>2, <1>4, <2>1, <2>3 DEF FileFollows, Overtaken
    <3> QED
      BY <1>3, <3>1
  <2> QED
    BY <1>0, <2>2, <2>3
<1>8. InWatched(t, new, f)
  BY <1>2, <1>3 DEF FileFollows, InWatched
<1>9. Found(t, at2, new, f, w2)
  BY <1>3 DEF Found
<1> QED
  BY <1>1, <1>6, <1>7, <1>8, <1>9 DEF FileFollows

\* The file moves between places of which no message tells.
LEMMA MovedUntold ==
  ASSUME NEW t, NEW at, NEW at2, NEW evs \in Seq(Events), NEW f, NEW w, NEW w2,
         FileFollows(t, at, evs, f, w),
         at[f] # Gone => at[f][1] \notin t.watched,
         at2[f] # Gone => at2[f][1] \notin t.watched
  PROVE  FileFollows(t, at2, evs, f, w2)
<1>1. Overtaken(t, at2, evs, f)
  <2> SUFFICES ASSUME NEW i \in 0..Len(evs), Listing(t, evs, f, i) \notin {Gone, at2[f]}
               PROVE  \E j \in 1..Len(evs) : i < j /\ Leaves(evs[j], f)
    BY DEF Overtaken
  <2>1. CASE Listing(t, evs, f, i) # at[f]
    BY <2>1 DEF FileFollows, Overtaken
  <2>2. CASE Listing(t, evs, f, i) = at[f]
    <3>1. i = 0 /\ t.entry[f] # Gone /\ t.entry[f][1] \notin t.watched
      BY <2>2 DEF Listing
    <3> QED
      BY <3>1 DEF FileFollows, InWatched
  <2> QED
    BY <2>1, <2>2
<1>2. Found(t, at2, evs, f, w2)
  BY DEF Found
<1> QED
  BY <1>1, <1>2 DEF FileFollows

\* A message about something else is handled.
LEMMA OtherHandled ==
  ASSUME NEW t, NEW t2, NEW at, NEW evs \in Seq(Events), evs # <<>>, NEW f,
         FileFollows(t, at, evs, f, FALSE), ~About(evs[1], f), t2.watched \subseteq t.watched,
         \/ /\ t2.entry[f] = t.entry[f]
            /\ \/ t.entry[f][1] \in t2.watched \/ t.entry[f][1] \notin t.watched
               \/ t.entry[f] # at[f]
         \/ t2.entry[f] = Gone /\ (at[f] # Gone => at[f][1] \notin t2.watched)
  PROVE  FileFollows(t2, at, Tail(evs), f, FALSE)
<1>1. PICK new : new = Tail(evs)
  OBVIOUS
<1>2. PICK n \in Nat : n = Len(new)
  BY <1>1, TailEvents
<1>3. /\ Len(evs) = n + 1
      /\ \A i \in 1..n : new[i] = evs[i + 1]
  BY <1>1, <1>2, TailEvents
<1>4. \A i \in 1..n : Listing(t2, new, f, i) \in {Gone, Listing(t, evs, f, i + 1)}
  BY <1>3 DEF Listing
<1>5. Listing(t2, new, f, 0) \in {Gone, Listing(t, evs, f, 0)}
  BY DEF Listing
<1>6. \A j \in 1..Len(evs) : About(evs[j], f) => j > 1
  OBVIOUS
<1>7. ASSUME NEW i \in 0..n, Listing(t2, new, f, i) # Gone
      PROVE  \E i0 \in 0..Len(evs) :
               /\ i0 = (IF i = 0 THEN 0 ELSE i + 1)
               /\ Listing(t2, new, f, i) = Listing(t, evs, f, i0)
  <2>1. CASE i = 0
    BY <1>3, <1>5, <1>7, <2>1
  <2>2. CASE i # 0
    <3>1. i \in 1..n /\ i + 1 \in 0..Len(evs)
      BY <1>3, <2>2
    <3> QED
      BY <1>4, <1>7, <2>2, <3>1
  <2> QED
    BY <2>1, <2>2
<1>8. Separate(t2, new, f)
  <2> SUFFICES ASSUME NEW i \in 0..Len(new), NEW k \in 1..Len(new), i < k,
                      Listing(t2, new, f, i) # Gone, new[k].op = "created", new[k].node = f
               PROVE  \E j \in 1..Len(new) : i < j /\ j < k /\ Leaves(new[j], f)
    BY DEF Separate
  <2>1. PICK i0 \in 0..Len(evs) :
               /\ i0 = (IF i = 0 THEN 0 ELSE i + 1)
               /\ Listing(t2, new, f, i) = Listing(t, evs, f, i0)
    BY <1>2, <1>7
  <2>2. k + 1 \in 1..Len(evs) /\ evs[k + 1] = new[k] /\ i0 < k + 1
    BY <1>2, <1>3, <2>1
  <2>3. PICK j \in 1..Len(evs) : i0 < j /\ j < k + 1 /\ Leaves(evs[j], f)
    BY <2>1, <2>2 DEF FileFollows, Separate
  <2>4. j > 1 /\ j - 1 \in 1..n /\ new[j - 1] = evs[j]
    BY <1>3, <1>6, <2>3 DEF About
  <2> QED
    BY <1>2, <1>3, <2>1, <2>3, <2>4
<1>9. Overtaken(t2, at, new, f)
  <2> SUFFICES ASSUME NEW i \in 0..Len(new), Listing(t2, new, f, i) \notin {Gone, at[f]}
               PROVE  \E j \in 1..Len(new) : i < j /\ Leaves(new[j], f)
    BY DEF Overtaken
  <2>1. PICK i0 \in 0..Len(evs) :
               /\ i0 = (IF i = 0 THEN 0 ELSE i + 1)
               /\ Listing(t2, new, f, i) = Listing(t, evs, f, i0)
    BY <1>2, <1>7
  <2>3. PICK j \in 1..Len(evs) : i0 < j /\ Leaves(evs[j], f)
    BY <2>1 DEF FileFollows, Overtaken
  <2>4. j > 1 /\ j - 1 \in 1..n /\ new[j - 1] = evs[j]
    BY <1>3, <1>6, <2>3 DEF About
  <2> QED
    BY <1>2, <1>3, <2>1, <2>3, <2>4
<1>10. InWatched(t2, new, f)
  <2> SUFFICES ASSUME t2.entry[f] # Gone, t2.entry[f][1] \notin t2.watched
               PROVE  \E j \in 1..Len(new) : Leaves(new[j], f)
    BY DEF InWatched
  <2>1. PICK j \in 1..Len(evs) : Leaves(evs[j], f)
    BY DEF FileFollows, InWatched, Overtaken, Listing
  <2>2. j > 1 /\ j - 1 \in 1..n /\ new[j - 1] = evs[j]
    BY <1>3, <1>6, <2>1 DEF About
  <2> QED
    BY <1>2, <2>1, <2>2
<1>11. Found(t2, at, new, f, FALSE)
  <2> SUFFICES ASSUME at[f] # Gone, at[f][1] \in t2.watched
               PROVE  /\ \/ t2.entry[f] = at[f]
                         \/ \E i \in 1..Len(new) : Puts(new[i], f) /\ new[i].to = at[f]
                      /\ \A i \in 1..Len(new) :
                           About(new[i], f)
                             => \E j \in i..Len(new) : Puts(new[j], f) /\ new[j].to = at[f]
    BY DEF Found
  <2>0. at[f][1] \in t.watched /\ t2.entry[f] = t.entry[f]
    OBVIOUS
  <2>1. \/ t2.entry[f] = at[f]
        \/ \E i \in 1..Len(new) : Puts(new[i], f) /\ new[i].to = at[f]
    <3>1. CASE t.entry[f] = at[f]
      BY <2>0, <3>1
    <3>2. CASE t.entry[f] # at[f]
      <4>1. PICK i \in 1..Len(evs) : Puts(evs[i], f) /\ evs[i].to = at[f]
        BY <2>0, <3>2 DEF FileFollows, Found
      <4>2. i > 1 /\ i - 1 \in 1..n /\ new[i - 1] = evs[i]
        BY <1>3, <1>6, <4>1 DEF About
      <4> QED
        BY <1>2, <4>1, <4>2
    <3> QED
      BY <3>1, <3>2
  <2>2. ASSUME NEW i \in 1..Len(new), About(new[i], f)
        PROVE  \E j \in i..Len(new) : Puts(new[j], f) /\ new[j].to = at[f]
    <3>1. i + 1 \in 1..Len(evs) /\ evs[i + 1] = new[i]
      BY <1>2, <1>3
    <3>2. PICK j \in i + 1..Len(evs) : Puts(evs[j], f) /\ evs[j].to = at[f]
      BY <2>0, <2>2, <3>1 DEF FileFollows, Found
    <3>3. j - 1 \in i..Len(new) /\ new[j - 1] = evs[j]
      BY <1>2, <1>3, <3>1, <3>2
    <3> QED
      BY <3>2, <3>3
  <2> QED
    BY <2>1, <2>2
<1> QED
  BY <1>1, <1>8, <1>9, <1>10, <1>11 DEF FileFollows

\* A message about the file is handled.
LEMMA OwnHandled ==
  ASSUME NEW t, NEW t2, NEW at, NEW evs \in Seq(Events), evs # <<>>, NEW f,
         FileFollows(t, at, evs, f, FALSE), About(evs[1], f), t2.watched = t.watched,
         t2.entry[f] \in {Gone, Listing(t, evs, f, 1)},
         Listing(t, evs, f, 1) = at[f] => t2.entry[f] = at[f]
  PROVE  FileFollows(t2, at, Tail(evs), f, FALSE)
<1>1. PICK new : new = Tail(evs)
  OBVIOUS
<1>2. PICK n \in Nat : n = Len(new)
  BY <1>1, TailEvents
<1>3. /\ Len(evs) = n + 1
      /\ \A i \in 1..n : new[i] = evs[i + 1]
  BY <1>1, <1>2, TailEvents
<1>4. ASSUME NEW i \in 0..n, Listing(t2, new, f, i) # Gone
      PROVE  i + 1 \in 0..Len(evs) /\ Listing(t2, new, f, i) = Listing(t, evs, f, i + 1)
  <2>1. i + 1 \in 0..Len(evs) /\ i + 1 # 0
    BY <1>3
  <2>2. CASE i = 0
    BY <1>4, <2>1, <2>2 DEF Listing
  <2>3. CASE i # 0
    <3>1. i \in 1..n
      BY <2>3
    <3> QED
      BY <1>3, <2>1, <2>3, <3>1 DEF Listing
  <2> QED
    BY <2>2, <2>3
<1>5. Separate(t2, new, f)
  <2> SUFFICES ASSUME NEW i \in 0..Len(new), NEW k \in 1..Len(new), i < k,
                      Listing(t2, new, f, i) # Gone, new[k].op = "created", new[k].node = f
               PROVE  \E j \in 1..Len(new) : i < j /\ j < k /\ Leaves(new[j], f)
    BY DEF Separate
  <2>1. i + 1 \in 0..Len(evs) /\ Listing(t, evs, f, i + 1) # Gone
    BY <1>2, <1>4
  <2>2. k + 1 \in 1..Len(evs) /\ evs[k + 1] = new[k] /\ i + 1 < k + 1
    BY <1>2, <1>3
  <2>3. PICK j \in 1..Len(evs) : i + 1 < j /\ j < k + 1 /\ Leaves(evs[j], f)
    BY <2>1, <2>2 DEF FileFollows, Separate
  <2>4. j - 1 \in 1..n /\ new[j - 1] = evs[j] /\ i < j - 1 /\ j - 1 < k
    BY <1>2, <1>3, <2>3
  <2> QED
    BY <1>2, <2>3, <2>4
<1>6. Overtaken(t2, at, new, f)
  <2> SUFFICES ASSUME NEW i \in 0..Len(new), Listing(t2, new, f, i) \notin {Gone, at[f]}
               PROVE  \E j \in 1..Len(new) : i < j /\ Leaves(new[j], f)
    BY DEF Overtaken
  <2>1. i + 1 \in 0..Len(evs) /\ Listing(t, evs, f, i + 1) \notin {Gone, at[f]}
    BY <1>2, <1>4
  <2>3. PICK j \in 1..Len(evs) : i + 1 < j /\ Leaves(evs[j], f)
    BY <2>1 DEF FileFollows, Overtaken
  <2>4. j - 1 \in 1..n /\ new[j - 1] = evs[j] /\ i < j - 1
    BY <1>2, <1>3, <2>3
  <2> QED
    BY <1>2, <2>3, <2>4
<1>7. InWatched(t2, new, f)
  BY DEF InWatched, Listing
<1>8. Found(t2, at, new, f, FALSE)
  <2> SUFFICES ASSUME at[f] # Gone, at[f][1] \in t2.watched
               PROVE  /\ \/ t2.entry[f] = at[f]
                         \/ \E i \in 1..Len(new) : Puts(new[i], f) /\ new[i].to = at[f]
                      /\ \A i \in 1..Len(new) :
                           About(new[i], f)
                             => \E j \in i..Len(new) : Puts(new[j], f) /\ new[j].to = at[f]
    BY DEF Found
  <2>1. \/ t2.entry[f] = at[f]
        \/ \E i \in 1..Len(new) : Puts(new[i], f) /\ new[i].to = at[f]
    <3>1. PICK j \in 1..Len(evs) : Puts(evs[j], f) /\ evs[j].to = at[f]
      BY <1>3 DEF FileFollows, Found
    <3>2. CASE j = 1
      BY <3>1, <3>2 DEF Listing
    <3>3. CASE j # 1
      <4>1. j - 1 \in 1..n /\ new[j - 1] = evs[j]
        BY <1>3, <3>3
      <4> QED
        BY <1>2, <3>1, <4>1
    <3> QED
      BY <3>2, <3>3
  <2>2. ASSUME NEW i \in 1..Len(new), About(new[i], f)
        PROVE  \E j \in i..Len(new) : Puts(new[j], f) /\ new[j].to = at[f]
    <3>1. i + 1 \in 1..Len(evs) /\ evs[i + 1] = new[i]
      BY <1>2, <1>3
    <3>2. PICK j \in i + 1..Len(evs) : Puts(evs[j], f) /\ evs[j].to = at[f]
      BY <2>2, <3>1 DEF FileFollows, Found
    <3>3. j - 1 \in i..Len(new) /\ new[j - 1] = evs[j]
      BY <1>2, <1>3, <3>1, <3>2
    <3> QED
      BY <3>2, <3>3
  <2> QED
    BY <2>1, <2>2
<1> QED
  BY <1>1, <1>5, <1>6, <1>7, <1>8 DEF FileFollows

\* A folder is watched of which no message that waits tells: what is in it is still to
\* be read.
LEMMA FolderEntered ==
  ASSUME NEW t, NEW u, NEW at, NEW evs \in Seq(Events), NEW f, NEW d, NEW w, NEW w2,
         FileFollows(t, at, evs, f, w), u.entry[f] = t.entry[f],
         u.watched = t.watched \cup {d},
         \A i \in 1..Len(evs) : Puts(evs[i], f) /\ evs[i].to # Gone => evs[i].to[1] # d,
         at[f] # Gone /\ at[f][1] = d => w2, w => w2
  PROVE  FileFollows(u, at, evs, f, w2)
<1>1. \A i \in 0..Len(evs) : Listing(u, evs, f, i) = Listing(t, evs, f, i)
  <2> SUFFICES ASSUME NEW i \in 0..Len(evs), i # 0
               PROVE  Listing(u, evs, f, i) = Listing(t, evs, f, i)
    BY DEF Listing
  <2>1. i \in 1..Len(evs)
    OBVIOUS
  <2> QED
    BY <2>1 DEF Listing
<1>2. Separate(u, evs, f)
  BY <1>1 DEF FileFollows, Separate
<1>3. Overtaken(u, at, evs, f)
  BY <1>1 DEF FileFollows, Overtaken
<1>4. InWatched(u, evs, f)
  BY DEF FileFollows, InWatched
<1>5. Found(u, at, evs, f, w2)
  BY DEF FileFollows, Found
<1> QED
  BY <1>2, <1>3, <1>4, <1>5 DEF FileFollows

\* A file of which no message tells is listed where it is, or not at all.
LEMMA NotWaiting ==
  ASSUME NEW t, NEW at, NEW evs \in Seq(Events), NEW f, NEW w,
         \A i \in 1..Len(evs) : ~About(evs[i], f)
  PROVE  FileFollows(t, at, evs, f, w) <=>
           /\ t.entry[f] \in {Gone, at[f]}
           /\ t.entry[f] # Gone => t.entry[f][1] \in t.watched
           /\ at[f] # Gone /\ at[f][1] \in t.watched /\ ~w => t.entry[f] = at[f]
<1>1. \A i \in 1..Len(evs) : ~Leaves(evs[i], f) /\ ~Puts(evs[i], f)
  BY DEF About
<1>2. \A i \in 0..Len(evs) : Listing(t, evs, f, i) = IF i = 0 THEN t.entry[f] ELSE Gone
  <2> SUFFICES ASSUME NEW i \in 0..Len(evs), i # 0 PROVE Listing(t, evs, f, i) = Gone
    BY DEF Listing
  <2>1. i \in 1..Len(evs)
    OBVIOUS
  <2> QED
    BY <1>1, <2>1 DEF Listing
<1>3. Separate(t, evs, f)
  BY <1>1 DEF Separate, Puts
<1>4. Overtaken(t, at, evs, f) <=> t.entry[f] \in {Gone, at[f]}
  <2>1. 0 \in 0..Len(evs)
    OBVIOUS
  <2> QED
    BY <1>1, <1>2, <2>1 DEF Overtaken
<1>5. InWatched(t, evs, f) <=> (t.entry[f] # Gone => t.entry[f][1] \in t.watched)
  BY <1>1 DEF InWatched
<1>6. Found(t, at, evs, f, w) <=>
        (at[f] # Gone /\ at[f][1] \in t.watched /\ ~w => t.entry[f] = at[f])
  BY <1>1 DEF Found, About
<1> QED
  BY <1>3, <1>4, <1>5, <1>6 DEF FileFollows

\* Nothing waits.
LEMMA NothingWaits ==
  ASSUME NEW t, NEW at, NEW f, NEW w
  PROVE  FileFollows(t, at, <<>>, f, w) <=>
           /\ t.entry[f] \in {Gone, at[f]}
           /\ t.entry[f] # Gone => t.entry[f][1] \in t.watched
           /\ at[f] # Gone /\ at[f][1] \in t.watched /\ ~w => t.entry[f] = at[f]
BY DEF FileFollows, Separate, Overtaken, InWatched, Found, Listing

\* Nothing is listed or watched.
LEMMA NothingListed ==
  ASSUME NEW t, NEW at, NEW evs, NEW f, NEW w, t.entry[f] = Gone, t.watched = {}
  PROVE  FileFollows(t, at, evs, f, w)
BY DEF FileFollows, Separate, Overtaken, InWatched, Found, Listing

-----------------------------------------------------------------------------
(* What the server has in the end *)

Messages == [op : {"set", "remove"}, names : SUBSET Names]

QueueOK(o) ==
  /\ IsOutput(o)
  /\ o.low \in Seq(Messages)
  /\ o.sending \in BOOLEAN
  /\ ~o.sending => o.low = <<>>

\* The name is on the server once the queue is empty: it is there (0) or is set by a
\* message, and no later message removes it.
InTheEnd(o, n) ==
  \E i \in 0..Len(o.low) :
    /\ IF i = 0 THEN n \in o.server ELSE o.low[i].op = "set" /\ n \in o.low[i].names
    /\ \A j \in 1..Len(o.low) : i < j => ~(o.low[j].op = "remove" /\ n \in o.low[j].names)

\* A low-priority message decides about its names, whatever waits before it; one sent
\* at once can only add names.
LEMMA SendLowEnd ==
  ASSUME NEW o, QueueOK(o), NEW m \in Messages
  PROVE  /\ QueueOK(SendLow(o, m))
         /\ \A n : InTheEnd(SendLow(o, m), n) =>
              IF m.op = "set" THEN InTheEnd(o, n) \/ n \in m.names
              ELSE InTheEnd(o, n) /\ n \notin m.names
<1>0. PICK p : p = SendLow(o, m)
  OBVIOUS
<1>1. CASE o.sending
  <2>1. p = [server |-> o.server, low |-> Append(o.low, m), sending |-> o.sending]
    BY <1>0, <1>1 DEF SendLow, QueueOK, IsOutput
  <2>2. PICK k \in Nat : k = Len(o.low)
    BY DEF QueueOK
  <2>3. /\ p.server = o.server /\ p.low \in Seq(Messages) /\ p.sending = o.sending
        /\ Len(p.low) = k + 1 /\ p.low[k + 1] = m
        /\ \A i \in 1..k : p.low[i] = o.low[i]
    BY <2>1, <2>2 DEF QueueOK
  <2>4. QueueOK(p)
    BY <1>1, <2>1, <2>3 DEF QueueOK, IsOutput
  <2>5. ASSUME NEW n, InTheEnd(p, n)
        PROVE  IF m.op = "set" THEN InTheEnd(o, n) \/ n \in m.names
               ELSE InTheEnd(o, n) /\ n \notin m.names
    <3>1. PICK i \in 0..k + 1 :
            /\ IF i = 0 THEN n \in p.server ELSE p.low[i].op = "set" /\ n \in p.low[i].names
            /\ \A j \in 1..k + 1 : i < j => ~(p.low[j].op = "remove" /\ n \in p.low[j].names)
      BY <2>3, <2>5 DEF InTheEnd
    <3>2. CASE i = k + 1
      <4>1. m.op = "set" /\ n \in m.names
        BY <2>3, <3>1, <3>2
      <4> QED
        BY <4>1
    <3>3. CASE i \in 0..k
      <4>1. InTheEnd(o, n)
        <5>1. IF i = 0 THEN n \in o.server ELSE o.low[i].op = "set" /\ n \in o.low[i].names
          BY <2>3, <3>1, <3>3
        <5>2. \A j \in 1..k : i < j => ~(o.low[j].op = "remove" /\ n \in o.low[j].names)
          BY <2>3, <3>1
        <5> QED
          BY <2>2, <3>3, <5>1, <5>2 DEF InTheEnd
      <4>2. ~(m.op = "remove" /\ n \in m.names)
        BY <2>3, <3>1, <3>3
      <4> QED
        BY <4>1, <4>2 DEF Messages
    <3> QED
      BY <3>1, <3>2, <3>3
  <2> QED
    BY <1>0, <2>4, <2>5
<1>2. CASE ~o.sending
  <2>1. p = [server |-> Applied(o.server, m), low |-> o.low, sending |-> TRUE]
    BY <1>0, <1>2 DEF SendLow, QueueOK, IsOutput
  <2>2. p.server = Applied(o.server, m) /\ p.low = <<>> /\ o.low = <<>> /\ p.sending = TRUE
    BY <1>2, <2>1 DEF QueueOK
  <2>3. QueueOK(p)
    BY <2>1, <2>2 DEF QueueOK, IsOutput
  <2>4. \A n : InTheEnd(p, n) <=> n \in Applied(o.server, m)
    BY <2>2 DEF InTheEnd
  <2>5. \A n : InTheEnd(o, n) <=> n \in o.server
    BY <2>2 DEF InTheEnd
  <2> QED
    BY <1>0, <2>3, <2>4, <2>5 DEF Applied, Messages
<1> QED
  BY <1>1, <1>2 DEF QueueOK

LEMMA SendHighEnd ==
  ASSUME NEW o, QueueOK(o), NEW names
  PROVE  LET p == SendHigh(o, [op |-> "set", names |-> names]) IN
         /\ QueueOK(p)
         /\ \A n : InTheEnd(p, n) => InTheEnd(o, n) \/ n \in names
<1>0. PICK p : p = SendHigh(o, [op |-> "set", names |-> names])
  OBVIOUS
<1>1. p = [server |-> o.server \cup names, low |-> o.low, sending |-> o.sending]
  BY <1>0 DEF SendHigh, Applied, QueueOK, IsOutput
<1>2. p.server = o.server \cup names /\ p.low = o.low /\ p.sending = o.sending
  BY <1>1
<1>3. QueueOK(p)
  BY <1>1, <1>2 DEF QueueOK, IsOutput
<1>4. ASSUME NEW n, InTheEnd(p, n), n \notin names PROVE InTheEnd(o, n)
  BY <1>2, <1>4 DEF InTheEnd
<1> QED
  BY <1>0, <1>3, <1>4

\* With an empty queue and an empty server nothing will be there.
LEMMA NothingEnds ==
  ASSUME NEW o, o.server = {}, o.low = <<>>, NEW n
  PROVE  ~InTheEnd(o, n)
BY DEF InTheEnd

\* What the server has in the end has a listed file; the counts are exact.
Backed(t, o) == \A n : InTheEnd(o, n) => Holders(t, n) # {}

Sound(s) ==
  /\ s.tab \in Tables /\ Counted(s.tab)
  /\ QueueOK(s.out) /\ Backed(s.tab, s.out)

\* NodeRemoved(), NodeCreated() and the handlers of folders keep counts exact and names
\* backed, provided what they add was not listed.
LEMMA FileRemovedSound ==
  ASSUME NEW s, Sound(s), Findable(s.tab), NEW f \in Files, win.mtt # "none"
  PROVE  Sound(FileRemoved(s, f))
<1>1. CASE s.tab.entry[f] = Gone
  BY <1>1 DEF FileRemoved
<1>2. CASE s.tab.entry[f] # Gone
  <2>1. PICK t : t = s.tab
    OBVIOUS
  <2>2. PICK name : name = t.entry[f][2]
    OBVIOUS
  <2>3. PICK u : u = FileRemoved(s, f)
    OBVIOUS
  <2>4. /\ name \in Names
        /\ u.tab.entry = [t.entry EXCEPT ![f] = Gone]
        /\ u.out = SendLow(s.out, [op |-> "remove", names |-> {name}])
    BY <1>2, <2>1, <2>2, <2>3, FileRemovedFields DEF Sound
  <2>5. u.tab \in Tables /\ Counted(u.tab)
    BY <2>3, FileRemovedFindable, FileRemovedCounted DEF Sound
  <2>6. [op |-> "remove", names |-> {name}] \in Messages
    BY <2>4 DEF Messages
  <2>7. /\ QueueOK(u.out)
        /\ \A n : InTheEnd(u.out, n) => InTheEnd(s.out, n) /\ n # name
    <3>1. PICK m \in Messages : m = [op |-> "remove", names |-> {name}]
      BY <2>6
    <3>2. u.out = SendLow(s.out, m) /\ m.op = "remove" /\ m.names = {name}
      BY <2>4, <3>1
    <3> QED
      BY <3>2, SendLowEnd DEF Sound
  <2>8. \A n : n # name => Holders(t, n) \subseteq Holders(u.tab, n)
    BY <1>2, <2>1, <2>2, <2>4 DEF Holders, Sound, Tables
  <2>9. Backed(u.tab, u.out)
    BY <2>1, <2>7, <2>8 DEF Sound, Backed
  <2> QED
    BY <2>3, <2>5, <2>7, <2>9 DEF Sound
<1> QED
  BY <1>1, <1>2

LEMMA FileCreatedSound ==
  ASSUME TypeOK, NEW s, Sound(s), Findable(s.tab), NEW f \in Files, NEW place,
         s.tab.entry[f] = Gone
  PROVE  Sound(FileCreated(s, f, place))
<1>1. CASE ~(place # Gone /\ place[1] \in s.tab.watched /\ At(place))
  BY <1>1 DEF FileCreated
<1>2. CASE place # Gone /\ place[1] \in s.tab.watched /\ At(place)
  <2>1. place \in Places /\ place[2] \in Names
    BY <1>2 DEF At, TypeOK, Somewhere, Places
  <2>2. PICK u : u = FileCreated(s, f, place)
    OBVIOUS
  <2>3. /\ u.tab = AddFile(s.tab, f, place)
        /\ u.out = SendHigh(s.out, [op |-> "set", names |-> {place[2]}])
    BY <1>2, <2>2 DEF FileCreated
  <2>4. u.tab \in Tables /\ Counted(u.tab)
    BY <2>1, <2>2, <2>3, FileCreatedFindable, AddFileCounted DEF Sound
  <2>5. u.tab.entry = [s.tab.entry EXCEPT ![f] = place]
    <3>1. PICK t \in Tables : t = s.tab
      BY DEF Sound
    <3>2. PICK p \in Places : p = place
      BY <2>1
    <3>3. /\ AddFile(t, f, p).watched = t.watched
          /\ AddFile(t, f, p).entry = [t.entry EXCEPT ![f] = p]
          /\ AddFile(t, f, p).count = [t.count EXCEPT ![p[2]] = @ + 1]
      BY AddFileFields
    <3> QED
      BY <2>3, <3>1, <3>2, <3>3
  <2>6. QueueOK(u.out) /\ \A n : InTheEnd(u.out, n) => InTheEnd(s.out, n) \/ n = place[2]
    BY <2>3, SendHighEnd DEF Sound
  <2>7. \A n : Holders(s.tab, n) \subseteq Holders(u.tab, n)
    BY <2>5 DEF Holders, Sound, Tables
  <2>8. f \in Holders(u.tab, place[2])
    BY <1>2, <2>5 DEF Holders, Sound, Tables
  <2>9. Backed(u.tab, u.out)
    BY <2>6, <2>7, <2>8 DEF Sound, Backed
  <2> QED
    BY <2>2, <2>4, <2>6, <2>9 DEF Sound
<1> QED
  BY <1>1, <1>2

LEMMA DirRemovedSound ==
  ASSUME TypeOK, NEW s, Sound(s), Findable(s.tab), NEW dir \in Dirs, win.mtt # "none"
  PROVE  Sound(DirRemoved(s, dir))
<1> DEFINE known == {f \in FilesIn(dir) : s.tab.entry[f] # Gone}
           names == {s.tab.entry[f][2] : f \in known}
           u == DirRemoved(s, dir)
<1>1. /\ u.tab.entry = [f \in Files |-> IF f \in known THEN Gone ELSE s.tab.entry[f]]
      /\ u.out = IF names = {} THEN s.out
                 ELSE SendLow(s.out, [op |-> "remove", names |-> names])
  BY DEF DirRemoved
<1>2. u.tab \in Tables /\ Counted(u.tab)
  BY DirRemovedFindable, DirRemovedCounted DEF Sound
<1>3. [op |-> "remove", names |-> names] \in Messages
  <2>1. ASSUME NEW f \in known PROVE s.tab.entry[f][2] \in Names
    BY DEF Sound, Tables, Somewhere, Places, FilesIn
  <2> HIDE DEF known
  <2> QED
    BY <2>1 DEF Messages
<1>4. \A n : n \notin names => Holders(s.tab, n) \subseteq Holders(u.tab, n)
  <2> SUFFICES ASSUME NEW n, n \notin names, NEW f \in Holders(s.tab, n)
               PROVE  f \in Holders(u.tab, n)
    OBVIOUS
  <2>1. f \in Files /\ s.tab.entry[f] # Gone /\ s.tab.entry[f][2] = n
    BY DEF Holders
  <2>2. f \notin known
    BY <2>1
  <2> HIDE DEF known, names, u
  <2> QED
    BY <1>1, <2>1, <2>2 DEF Holders
<1> HIDE DEF names, u
<1>5. /\ QueueOK(u.out)
      /\ \A n : InTheEnd(u.out, n) => InTheEnd(s.out, n) /\ n \notin names
  <2>1. CASE names = {}
    BY <1>1, <2>1 DEF Sound
  <2>2. CASE names # {}
    <3>1. PICK m \in Messages : m = [op |-> "remove", names |-> names]
      BY <1>3
    <3>2. u.out = SendLow(s.out, m) /\ m.op = "remove" /\ m.names = names
      BY <1>1, <2>2, <3>1
    <3> QED
      BY <3>2, SendLowEnd DEF Sound
  <2> QED
    BY <2>1, <2>2
<1>6. Backed(u.tab, u.out)
  BY <1>4, <1>5 DEF Sound, Backed
<1> QED
  BY <1>2, <1>5, <1>6 DEF Sound, u

LEMMA DirCreatedSound ==
  ASSUME TypeOK, NEW s, Sound(s), Findable(s.tab), NEW dir \in Dirs,
         \A f \in FilesIn(dir) : s.tab.entry[f] = Gone
  PROVE  Sound(DirCreated(s, dir))
<1> DEFINE u == DirCreated(s, dir)
<1>1. /\ u.tab.entry = [f \in Files |-> IF f \in FilesIn(dir) THEN disk.at[f] ELSE s.tab.entry[f]]
      /\ u.out = IF FilesIn(dir) = {} THEN s.out
                 ELSE SendLow(s.out, [op |-> "set", names |-> NamesIn(dir)])
  BY DEF DirCreated
<1>2. u.tab \in Tables /\ Counted(u.tab)
  BY DirCreatedFindable, DirCreatedCounted DEF Sound
<1>3. [op |-> "set", names |-> NamesIn(dir)] \in Messages
  <2>1. ASSUME NEW f \in FilesIn(dir) PROVE disk.at[f][2] \in Names
    BY DEF TypeOK, Somewhere, Places, FilesIn
  <2> QED
    BY <2>1 DEF Messages, NamesIn
<1> HIDE DEF u
<1>4. \A n : Holders(s.tab, n) \subseteq Holders(u.tab, n)
  BY <1>1 DEF Holders
<1>5. \A n \in NamesIn(dir) : Holders(u.tab, n) # {}
  <2> SUFFICES ASSUME NEW f \in FilesIn(dir) PROVE f \in Holders(u.tab, disk.at[f][2])
    BY DEF NamesIn
  <2>1. f \in Files /\ disk.at[f] # Gone
    BY DEF FilesIn
  <2> QED
    BY <1>1, <2>1 DEF Holders
<1>6. /\ QueueOK(u.out)
      /\ \A n : InTheEnd(u.out, n) => InTheEnd(s.out, n) \/ n \in NamesIn(dir)
  <2>1. CASE FilesIn(dir) = {}
    BY <1>1, <2>1 DEF Sound
  <2>2. CASE FilesIn(dir) # {}
    <3>1. PICK m \in Messages : m = [op |-> "set", names |-> NamesIn(dir)]
      BY <1>3
    <3>2. u.out = SendLow(s.out, m) /\ m.op = "set" /\ m.names = NamesIn(dir)
      BY <1>1, <2>2, <3>1
    <3> QED
      BY <3>2, SendLowEnd DEF Sound
  <2> QED
    BY <2>1, <2>2
<1>7. Backed(u.tab, u.out)
  BY <1>4, <1>5, <1>6 DEF Sound, Backed
<1> QED
  BY <1>2, <1>6, <1>7 DEF Sound, u

-----------------------------------------------------------------------------
(* A folder and what waits to be handled about it *)

Goes(e, d) == e.op = "dirOut" /\ e.node = d
Comes(e, d) == e.op = "dirIn" /\ e.node = d

\* A watched folder is told to go before it is told to come, and goes if it is not
\* there; one that is there will be found by the scan, or is watched, or a message will
\* watch it, and the last message about it is the one that does.
DirFollows(t, inside, evs, d, toRead) ==
  /\ d \in t.watched =>
       /\ \A i \in 1..Len(evs) : Comes(evs[i], d) => \E j \in 1..Len(evs) : j < i /\ Goes(evs[j], d)
       /\ d \notin inside => \E i \in 1..Len(evs) : Goes(evs[i], d)
  /\ Root \in t.watched /\ d \in inside /\ ~toRead =>
       /\ d \in t.watched \/ \E i \in 1..Len(evs) : Comes(evs[i], d)
       /\ \A i \in 1..Len(evs) : Goes(evs[i], d) => \E j \in 1..Len(evs) : i < j /\ Comes(evs[j], d)

\* A message about something else.
LEMMA OtherDirAppended ==
  ASSUME NEW t, NEW inside, NEW inside2, NEW evs \in Seq(Events), NEW e \in Events, NEW d, NEW w,
         DirFollows(t, inside, evs, d, w), ~Goes(e, d), ~Comes(e, d), d \in inside2 <=> d \in inside
  PROVE  DirFollows(t, inside2, Append(evs, e), d, w)
<1>1. PICK new : new = Append(evs, e)
  OBVIOUS
<1>2. PICK n \in Nat : n = Len(evs)
  OBVIOUS
<1>3. /\ Len(new) = n + 1
      /\ \A i \in 1..n : new[i] = evs[i]
      /\ new[n + 1] = e
  BY <1>1, <1>2, AppendedEvents
<1>4. ASSUME d \in t.watched, NEW i \in 1..Len(new), Comes(new[i], d)
      PROVE  \E j \in 1..Len(new) : j < i /\ Goes(new[j], d)
  <2>1. i \in 1..n
    BY <1>3, <1>4
  <2> QED
    BY <1>2, <1>3, <1>4, <2>1 DEF DirFollows
<1>5. ASSUME d \in t.watched, d \notin inside2
      PROVE  \E i \in 1..Len(new) : Goes(new[i], d)
  BY <1>2, <1>3, <1>5 DEF DirFollows
<1>6. ASSUME Root \in t.watched, d \in inside2, ~w
      PROVE  d \in t.watched \/ \E i \in 1..Len(new) : Comes(new[i], d)
  BY <1>2, <1>3, <1>6 DEF DirFollows
<1>7. ASSUME Root \in t.watched, d \in inside2, ~w, NEW i \in 1..Len(new), Goes(new[i], d)
      PROVE  \E j \in 1..Len(new) : i < j /\ Comes(new[j], d)
  <2>1. i \in 1..n
    BY <1>3, <1>7
  <2> QED
    BY <1>2, <1>3, <1>7, <2>1 DEF DirFollows
<1> QED
  BY <1>1, <1>4, <1>5, <1>6, <1>7 DEF DirFollows

\* The folder is moved out, or back in.
LEMMA OwnDirAppended ==
  ASSUME NEW t, NEW inside, NEW inside2, NEW evs \in Seq(Events), NEW e \in Events, NEW d, NEW w,
         DirFollows(t, inside, evs, d, w),
         \/ Goes(e, d) /\ d \notin inside2
         \/ Comes(e, d) /\ d \notin inside
  PROVE  DirFollows(t, inside2, Append(evs, e), d, w)
<1>1. PICK new : new = Append(evs, e)
  OBVIOUS
<1>2. PICK n \in Nat : n = Len(evs)
  OBVIOUS
<1>3. /\ Len(new) = n + 1
      /\ \A i \in 1..n : new[i] = evs[i]
      /\ new[n + 1] = e
  BY <1>1, <1>2, AppendedEvents
<1>4. ASSUME d \in t.watched, NEW i \in 1..Len(new), Comes(new[i], d)
      PROVE  \E j \in 1..Len(new) : j < i /\ Goes(new[j], d)
  <2>1. CASE i \in 1..n
    BY <1>2, <1>3, <1>4, <2>1 DEF DirFollows
  <2>2. CASE i = n + 1
    <3>1. d \notin inside
      BY <1>3, <1>4, <2>2 DEF Goes, Comes
    <3>2. PICK j \in 1..n : Goes(evs[j], d)
      BY <1>2, <1>4, <3>1 DEF DirFollows
    <3> QED
      BY <1>3, <2>2, <3>2
  <2> QED
    BY <1>3, <2>1, <2>2
<1>5. ASSUME d \in t.watched, d \notin inside2
      PROVE  \E i \in 1..Len(new) : Goes(new[i], d)
  <2>1. CASE Goes(e, d)
    BY <1>3, <2>1
  <2>2. CASE d \notin inside
    BY <1>2, <1>3, <1>5, <2>2 DEF DirFollows
  <2> QED
    BY <2>1, <2>2
<1>6. ASSUME d \in inside2
      PROVE  /\ Comes(e, d)
             /\ \E i \in 1..Len(new) : Comes(new[i], d)
  BY <1>3, <1>6
<1>7. ASSUME d \in inside2, NEW i \in 1..Len(new), Goes(new[i], d)
      PROVE  \E j \in 1..Len(new) : i < j /\ Comes(new[j], d)
  <2>1. i # n + 1
    BY <1>3, <1>6, <1>7 DEF Goes, Comes
  <2> QED
    BY <1>3, <1>6, <1>7, <2>1
<1> QED
  BY <1>1, <1>4, <1>5, <1>6, <1>7 DEF DirFollows

\* A message about something else is handled.
LEMMA OtherDirHandled ==
  ASSUME NEW t, NEW t2, NEW inside, NEW evs \in Seq(Events), evs # <<>>, NEW d,
         DirFollows(t, inside, evs, d, FALSE), ~Goes(evs[1], d), ~Comes(evs[1], d),
         d \in t2.watched <=> d \in t.watched, Root \in t2.watched => Root \in t.watched
  PROVE  DirFollows(t2, inside, Tail(evs), d, FALSE)
<1>1. PICK new : new = Tail(evs)
  OBVIOUS
<1>2. PICK n \in Nat : n = Len(new)
  BY <1>1, TailEvents
<1>3. /\ Len(evs) = n + 1
      /\ \A i \in 1..n : i + 1 \in 1..Len(evs) /\ new[i] = evs[i + 1]
      /\ \A i \in 1..Len(evs) : i # 1 => i - 1 \in 1..n /\ evs[i] = new[i - 1]
  BY <1>1, <1>2, TailEvents
<1>4. ASSUME d \in t.watched, NEW i \in 1..n, Comes(new[i], d)
      PROVE  \E j \in 1..n : j < i /\ Goes(new[j], d)
  <2>1. PICK j \in 1..Len(evs) : j < i + 1 /\ Goes(evs[j], d)
    BY <1>3, <1>4 DEF DirFollows
  <2>2. j - 1 \in 1..n /\ evs[j] = new[j - 1] /\ j - 1 < i
    BY <1>3, <2>1
  <2> QED
    BY <2>1, <2>2
<1>5. ASSUME d \in t.watched, d \notin inside
      PROVE  \E i \in 1..n : Goes(new[i], d)
  BY <1>3, <1>5 DEF DirFollows
<1>6. ASSUME Root \in t.watched, d \in inside
      PROVE  d \in t.watched \/ \E i \in 1..n : Comes(new[i], d)
  BY <1>3, <1>6 DEF DirFollows
<1>7. ASSUME Root \in t.watched, d \in inside, NEW i \in 1..n, Goes(new[i], d)
      PROVE  \E j \in 1..n : i < j /\ Comes(new[j], d)
  <2>1. PICK j \in 1..Len(evs) : i + 1 < j /\ Comes(evs[j], d)
    BY <1>3, <1>7 DEF DirFollows
  <2>2. j - 1 \in 1..n /\ evs[j] = new[j - 1] /\ i < j - 1
    BY <1>3, <2>1
  <2> QED
    BY <2>1, <2>2
<1> QED
  BY <1>1, <1>2, <1>4, <1>5, <1>6, <1>7 DEF DirFollows

\* The message about the folder is handled: it is not watched, and again watched at
\* most if nothing else about it waits.
LEMMA OwnDirHandled ==
  ASSUME NEW t, NEW t2, NEW inside, NEW evs \in Seq(Events), evs # <<>>, NEW d,
         DirFollows(t, inside, evs, d, FALSE), Goes(evs[1], d) \/ Comes(evs[1], d),
         Root \in t2.watched => Root \in t.watched,
         IF Comes(evs[1], d) /\ Root \in t2.watched /\ d \in inside
         THEN /\ d \in t2.watched
              /\ \A i \in 1..Len(Tail(evs)) : ~Goes(Tail(evs)[i], d) /\ ~Comes(Tail(evs)[i], d)
         ELSE d \notin t2.watched
  PROVE  DirFollows(t2, inside, Tail(evs), d, FALSE)
<1>1. PICK new : new = Tail(evs)
  OBVIOUS
<1>2. PICK n \in Nat : n = Len(new)
  BY <1>1, TailEvents
<1>3. /\ Len(evs) = n + 1
      /\ \A i \in 1..n : i + 1 \in 1..Len(evs) /\ new[i] = evs[i + 1]
      /\ \A i \in 1..Len(evs) : i # 1 => i - 1 \in 1..n /\ evs[i] = new[i - 1]
  BY <1>1, <1>2, TailEvents
<1>4. CASE Comes(evs[1], d) /\ Root \in t2.watched /\ d \in inside
  BY <1>4 DEF DirFollows
<1>5. CASE ~(Comes(evs[1], d) /\ Root \in t2.watched /\ d \in inside)
  <2>1. d \notin t2.watched
    BY <1>5
  <2>2. ASSUME Root \in t2.watched, d \in inside
        PROVE  \E i \in 1..n : Comes(new[i], d)
    <3>1. Goes(evs[1], d) /\ 1 \in 1..Len(evs)
      BY <1>3, <1>5, <2>2
    <3>2. PICK j \in 1..Len(evs) : 1 < j /\ Comes(evs[j], d)
      BY <2>2, <3>1 DEF DirFollows
    <3> QED
      BY <1>3, <3>2
  <2>3. ASSUME Root \in t2.watched, d \in inside, NEW i \in 1..n, Goes(new[i], d)
        PROVE  \E j \in 1..n : i < j /\ Comes(new[j], d)
    <3>1. PICK j \in 1..Len(evs) : i + 1 < j /\ Comes(evs[j], d)
      BY <1>3, <2>3 DEF DirFollows
    <3>2. j - 1 \in 1..n /\ evs[j] = new[j - 1] /\ i < j - 1
      BY <1>3, <3>1
    <3> QED
      BY <3>1, <3>2
  <2> QED
    BY <1>1, <1>2, <2>1, <2>2, <2>3 DEF DirFollows
<1> QED
  BY <1>4, <1>5

\* A folder that comes is not watched.
LEMMA ComesUnwatched ==
  ASSUME NEW t, NEW inside, NEW evs \in Seq(Events), evs # <<>>, NEW d, NEW w,
         DirFollows(t, inside, evs, d, w), Comes(evs[1], d)
  PROVE  d \notin t.watched
<1>1. 1 \in 1..Len(evs)
  BY TailEvents
<1> QED
  BY <1>1 DEF DirFollows

LEMMA NoDirWaits ==
  ASSUME NEW t, NEW inside, NEW d, NEW w
  PROVE  DirFollows(t, inside, <<>>, d, w) <=>
           /\ d \in t.watched => d \in inside
           /\ Root \in t.watched /\ d \in inside /\ ~w => d \in t.watched
BY DEF DirFollows

LEMMA NoDirWatched ==
  ASSUME NEW t, NEW inside, NEW evs, NEW d, NEW w, t.watched = {}
  PROVE  DirFollows(t, inside, evs, d, w)
BY DEF DirFollows

-----------------------------------------------------------------------------
(* One message is handled *)

\* The tables follow the disk but for what waits.
Follows(t, evs) ==
  /\ \A f \in Files : FileFollows(t, disk.at, evs, f, FALSE)
  /\ \A d \in Subfolders : DirFollows(t, disk.inside, evs, d, FALSE)

\* A message about a file: about this one, or about another.
LEMMA FileEventHandled ==
  ASSUME TypeOK, NEW s, Sound(s), Findable(s.tab), NEW evs \in Seq(Events), evs # <<>>,
         Follows(s.tab, evs), win.mtt # "none", evs[1].op \in {"created", "moved", "removed"}
  PROVE  /\ Sound(Handled(s, evs[1]))
         /\ Follows(Handled(s, evs[1]).tab, Tail(evs))
<1>1. PICK e : e = evs[1]
  OBVIOUS
<1>2. PICK g : g = e.node
  OBVIOUS
<1>3. /\ e \in Events /\ g \in Files
      /\ About(e, g) /\ \A f : f # g => ~About(e, f)
      /\ \A d : ~Goes(e, d) /\ ~Comes(e, d)
      /\ e.op \in {"created", "moved", "removed"}
  BY <1>1, <1>2, TailEvents DEF Events, About, Leaves, Puts, Goes, Comes
<1>4. PICK s1 : s1 = IF e.op = "created" THEN s ELSE FileRemoved(s, g)
  OBVIOUS
<1>5. PICK u : u = Handled(s, e)
  OBVIOUS
<1>6. u = IF e.op = "removed" THEN s1 ELSE FileCreated(s1, g, e.to)
  BY <1>2, <1>3, <1>4, <1>5 DEF Handled
<1>7. e.op = "created" => s.tab.entry[g] = Gone
  <2>1. SUFFICES ASSUME e.op = "created", s.tab.entry[g] # Gone PROVE FALSE
    OBVIOUS
  <2>2. 0 \in 0..Len(evs) /\ 1 \in 1..Len(evs) /\ Len(evs) \in Nat
    BY TailEvents
  <2>3. Listing(s.tab, evs, g, 0) # Gone /\ evs[1].op = "created" /\ evs[1].node = g
    BY <1>1, <1>2, <2>1 DEF Listing
  <2>4. PICK j \in 1..Len(evs) : 0 < j /\ j < 1 /\ Leaves(evs[j], g)
    <3>1. Separate(s.tab, evs, g)
      BY <1>3 DEF Follows, FileFollows
    <3> QED
      BY <2>2, <2>3, <3>1 DEF Separate
  <2> QED
    BY <2>4
<1>8. /\ Sound(s1) /\ Findable(s1.tab)
      /\ s1.tab.watched = s.tab.watched
      /\ s1.tab.entry = [s.tab.entry EXCEPT ![g] = Gone]
  <2>1. CASE e.op = "created"
    <3>1. s1 = s /\ s.tab.entry[g] = Gone /\ s.tab.entry \in [Files -> Somewhere]
      BY <1>4, <1>7, <2>1 DEF Sound, Tables
    <3> QED
      BY <1>3, <3>1
  <2>2. CASE e.op # "created"
    <3>1. s1 = FileRemoved(s, g)
      BY <1>4, <2>2
    <3>2. Sound(s1) /\ Findable(s1.tab)
      BY <1>3, <3>1, FileRemovedSound, FileRemovedFindable DEF Sound
    <3>3. CASE s.tab.entry[g] = Gone
      BY <1>3, <3>1, <3>2, <3>3 DEF FileRemoved, Sound, Tables
    <3>4. CASE s.tab.entry[g] # Gone
      BY <1>3, <3>1, <3>2, <3>4, FileRemovedFields DEF Sound
    <3> QED
      BY <3>3, <3>4
  <2> QED
    BY <2>1, <2>2
<1>9. s1.tab \in Tables /\ s1.tab.entry[g] = Gone
      /\ \A f \in Files : f # g => s1.tab.entry[f] = s.tab.entry[f]
  BY <1>3, <1>8 DEF Sound, Tables
<1>10. Sound(u)
  BY <1>3, <1>6, <1>8, <1>9, FileCreatedSound
<1>11. /\ u.tab.watched = s.tab.watched
       /\ \A f \in Files : f # g => u.tab.entry[f] = s.tab.entry[f]
       /\ u.tab.entry[g] = IF /\ Puts(e, g) /\ e.to # Gone
                              /\ e.to[1] \in s.tab.watched /\ At(e.to)
                           THEN e.to ELSE Gone
  <2>1. CASE Puts(e, g) /\ e.to # Gone /\ e.to[1] \in s.tab.watched /\ At(e.to)
    <3>1. PICK p : p = e.to
      OBVIOUS
    <3>2. p \in Places
      BY <2>1, <3>1 DEF At, TypeOK, Somewhere
    <3>3. PICK t \in Tables : t = s1.tab
      BY <1>9
    <3>4. u.tab = AddFile(t, g, p)
      BY <1>6, <1>8, <2>1, <3>1, <3>3 DEF Puts, FileCreated
    <3>5. /\ AddFile(t, g, p).watched = t.watched
          /\ AddFile(t, g, p).entry = [t.entry EXCEPT ![g] = p]
          /\ AddFile(t, g, p).count = [t.count EXCEPT ![p[2]] = @ + 1]
      <4>1. PICK h \in Files : h = g
        BY <1>3
      <4>2. PICK q \in Places : q = p
        BY <3>2
      <4>3. /\ AddFile(t, h, q).watched = t.watched
            /\ AddFile(t, h, q).entry = [t.entry EXCEPT ![h] = q]
            /\ AddFile(t, h, q).count = [t.count EXCEPT ![q[2]] = @ + 1]
        BY AddFileFields
      <4> QED
        BY <4>1, <4>2, <4>3
    <3>6. u.tab.entry[g] = p /\ \A f \in Files : f # g => u.tab.entry[f] = t.entry[f]
      BY <1>3, <3>4, <3>5 DEF Tables
    <3> QED
      BY <1>8, <1>9, <2>1, <3>1, <3>3, <3>4, <3>5, <3>6
  <2>2. CASE ~(Puts(e, g) /\ e.to # Gone /\ e.to[1] \in s.tab.watched /\ At(e.to))
    <3>1. u = s1
      BY <1>2, <1>3, <1>6, <1>8, <2>2 DEF Puts, FileCreated
    <3> QED
      BY <1>8, <1>9, <2>2, <3>1
  <2> QED
    BY <2>1, <2>2
<1>12. ASSUME NEW f \in Files PROVE FileFollows(u.tab, disk.at, Tail(evs), f, FALSE)
  <2>1. CASE f = g
    <3>1. Listing(s.tab, evs, g, 1)
            = IF Puts(e, g) /\ e.to # Gone /\ e.to[1] \in s.tab.watched THEN e.to ELSE Gone
      BY <1>1 DEF Listing
    <3>2. Listing(s.tab, evs, g, 1) = disk.at[g] => u.tab.entry[g] = disk.at[g]
      BY <1>3, <1>11, <3>1 DEF At
    <3> QED
      BY <1>1, <1>3, <1>11, <2>1, <3>1, <3>2, OwnHandled DEF Follows
  <2>2. CASE f # g
    <3>1. u.tab.entry[f] = s.tab.entry[f] /\ u.tab.watched = s.tab.watched /\ ~About(evs[1], f)
      BY <1>1, <1>3, <1>11, <2>2
    <3> QED
      BY <3>1, OtherHandled DEF Follows
  <2> QED
    BY <2>1, <2>2
<1>13. ASSUME NEW d \in Subfolders PROVE DirFollows(u.tab, disk.inside, Tail(evs), d, FALSE)
  BY <1>1, <1>3, <1>11, OtherDirHandled DEF Follows
<1> QED
  BY <1>1, <1>5, <1>10, <1>12, <1>13 DEF Follows

\* A folder was moved out of the shared folder.
LEMMA DirOutHandled ==
  ASSUME TypeOK, NEW s, Sound(s), Findable(s.tab), NEW evs \in Seq(Events), evs # <<>>,
         Follows(s.tab, evs), win.mtt # "none", evs[1].op = "dirOut"
  PROVE  /\ Sound(Handled(s, evs[1]))
         /\ Follows(Handled(s, evs[1]).tab, Tail(evs))
<1>1. PICK dir : dir = evs[1].node
  OBVIOUS
<1>2. /\ dir \in Subfolders /\ dir \in Dirs /\ dir # Root
      /\ Goes(evs[1], dir) /\ \A d : d # dir => ~Goes(evs[1], d) /\ ~Comes(evs[1], d)
      /\ ~Comes(evs[1], dir) /\ \A f : ~About(evs[1], f)
  BY <1>1, TailEvents DEF Events, About, Leaves, Puts, Goes, Comes, Subfolders
<1>3. PICK u : u = Handled(s, evs[1])
  OBVIOUS
<1>4. u = IF dir \in s.tab.watched THEN DirRemoved(s, dir) ELSE s
  BY <1>1, <1>3 DEF Handled
<1>5. Sound(u)
  BY <1>2, <1>4, DirRemovedSound
<1>6. u.tab.watched = s.tab.watched \ {dir}
  BY <1>4 DEF DirRemoved
<1>7. ASSUME NEW f \in Files PROVE FileFollows(u.tab, disk.at, Tail(evs), f, FALSE)
  <2>1. CASE dir \notin s.tab.watched
    <3>1. u = s
      BY <1>4, <2>1
    <3> QED
      BY <1>2, <3>1, OtherHandled DEF Follows
  <2>2. CASE dir \in s.tab.watched
    <3>1. u.tab.entry[f] = IF f \in FilesIn(dir) /\ s.tab.entry[f] # Gone THEN Gone
                           ELSE s.tab.entry[f]
      BY <1>4, <2>2 DEF DirRemoved
    <3>2. CASE f \in FilesIn(dir)
      <4>1. u.tab.entry[f] = Gone /\ disk.at[f][1] \notin u.tab.watched
        BY <1>6, <3>1, <3>2 DEF FilesIn
      <4> QED
        BY <1>2, <1>6, <4>1, OtherHandled DEF Follows
    <3>3. CASE f \notin FilesIn(dir)
      <4>1. u.tab.entry[f] = s.tab.entry[f]
        BY <3>1, <3>3
      <4>2. CASE s.tab.entry[f] = Gone
        <5>1. \/ s.tab.entry[f] # disk.at[f]
              \/ u.tab.entry[f] = Gone /\ (disk.at[f] # Gone => disk.at[f][1] \notin u.tab.watched)
          BY <4>1, <4>2
        <5> QED
          BY <1>2, <1>6, <4>1, <5>1, OtherHandled DEF Follows
      <4>3. CASE s.tab.entry[f] # Gone
        <5>1. \/ s.tab.entry[f][1] \in u.tab.watched \/ s.tab.entry[f][1] \notin s.tab.watched
              \/ s.tab.entry[f] # disk.at[f]
          BY <1>6, <3>3, <4>3 DEF FilesIn
        <5> QED
          BY <1>2, <1>6, <4>1, <5>1, OtherHandled DEF Follows
      <4> QED
        BY <4>2, <4>3
    <3> QED
      BY <3>2, <3>3
  <2> QED
    BY <2>1, <2>2
<1>8. ASSUME NEW d \in Subfolders PROVE DirFollows(u.tab, disk.inside, Tail(evs), d, FALSE)
  <2>1. Root \in u.tab.watched => Root \in s.tab.watched
    BY <1>6
  <2>2. CASE d = dir
    BY <1>2, <1>6, <2>1, <2>2, OwnDirHandled DEF Follows
  <2>3. CASE d # dir
    BY <1>2, <1>6, <2>1, <2>3, OtherDirHandled DEF Follows
  <2> QED
    BY <2>2, <2>3
<1> QED
  BY <1>3, <1>5, <1>7, <1>8 DEF Follows

\* No message that waits tells of the folders, of a file put into them or of one that
\* is in them.
Unexpected(folders, evs) ==
  \A d \in folders : ~WaitsInto(evs, d) /\ \A f \in FilesIn(d) : ~Waits(evs, f)

LEMMA NoWaits ==
  ASSUME NEW evs \in Seq(Events)
  PROVE  /\ \A f : ~Waits(evs, f) <=> \A i \in 1..Len(evs) : ~About(evs[i], f)
         /\ \A d : ~WaitsInto(evs, d) =>
              \A i \in 1..Len(evs) :
                /\ ~Goes(evs[i], d) /\ ~Comes(evs[i], d)
                /\ \A f : Puts(evs[i], f) /\ evs[i].to # Gone => evs[i].to[1] # d
<1>1. DOMAIN evs = 1..Len(evs)
  OBVIOUS
<1>2. \A f : ~Waits(evs, f) <=> \A i \in 1..Len(evs) : ~About(evs[i], f)
  BY <1>1 DEF Waits, About, Leaves, Puts
<1>3. \A d : ~WaitsInto(evs, d) =>
              \A i \in 1..Len(evs) :
                /\ ~Goes(evs[i], d) /\ ~Comes(evs[i], d)
                /\ \A f : Puts(evs[i], f) /\ evs[i].to # Gone => evs[i].to[1] # d
  BY <1>1 DEF WaitsInto, Goes, Comes, Puts
<1> QED
  BY <1>2, <1>3

\* A folder was moved in, perhaps after it had been moved out and in again.
LEMMA DirInHandled ==
  ASSUME TypeOK, NEW s, Sound(s), Findable(s.tab), NEW evs \in Seq(Events), evs # <<>>,
         Follows(s.tab, evs), win.mtt # "none", evs[1].op = "dirIn",
         Unexpected(Handled(s, evs[1]).tab.watched \ s.tab.watched, Tail(evs))
  PROVE  /\ Sound(Handled(s, evs[1]))
         /\ Follows(Handled(s, evs[1]).tab, Tail(evs))
<1>1. PICK dir : dir = evs[1].node
  OBVIOUS
<1>2. /\ dir \in Subfolders /\ dir \in Dirs /\ dir # Root
      /\ Comes(evs[1], dir) /\ \A d : d # dir => ~Goes(evs[1], d) /\ ~Comes(evs[1], d)
      /\ \A f : ~About(evs[1], f)
  BY <1>1, TailEvents DEF Events, About, Leaves, Puts, Goes, Comes, Subfolders
<1>3. PICK u : u = Handled(s, evs[1])
  OBVIOUS
<1>4. dir \notin s.tab.watched
  BY <1>2, ComesUnwatched DEF Follows
<1>5. u = IF Root \in s.tab.watched /\ dir \in disk.inside THEN DirCreated(s, dir) ELSE s
  BY <1>1, <1>3, <1>4 DEF Handled
<1>6. CASE ~(Root \in s.tab.watched /\ dir \in disk.inside)
  <2>1. u = s
    BY <1>5, <1>6
  <2>2. ASSUME NEW f \in Files PROVE FileFollows(u.tab, disk.at, Tail(evs), f, FALSE)
    <3>1. CASE s.tab.entry[f][1] \in s.tab.watched
      BY <1>2, <2>1, <3>1, OtherHandled DEF Follows
    <3>2. CASE s.tab.entry[f][1] \notin s.tab.watched
      BY <1>2, <2>1, <3>2, OtherHandled DEF Follows
    <3> QED
      BY <3>1, <3>2
  <2>3. ASSUME NEW d \in Subfolders PROVE DirFollows(u.tab, disk.inside, Tail(evs), d, FALSE)
    <3>1. CASE d = dir
      BY <1>2, <1>4, <1>6, <2>1, <3>1, OwnDirHandled DEF Follows
    <3>2. CASE d # dir
      BY <1>2, <2>1, <3>2, OtherDirHandled DEF Follows
    <3> QED
      BY <3>1, <3>2
  <2> QED
    BY <1>3, <2>1, <2>2, <2>3 DEF Follows
<1>7. CASE Root \in s.tab.watched /\ dir \in disk.inside
  <2>1. u = DirCreated(s, dir)
    BY <1>5, <1>7
  <2>2. /\ u.tab.watched = s.tab.watched \cup {dir}
        /\ u.tab.entry = [f \in Files |-> IF f \in FilesIn(dir) THEN disk.at[f] ELSE s.tab.entry[f]]
    BY <2>1 DEF DirCreated
  <2>3. PICK new \in Seq(Events) : new = Tail(evs)
    BY TailEvents
  <2>4. dir \in u.tab.watched \ s.tab.watched
    BY <1>4, <2>2
  <2>5. /\ \A i \in 1..Len(new) :
             /\ ~Goes(new[i], dir) /\ ~Comes(new[i], dir)
             /\ \A f : Puts(new[i], f) /\ new[i].to # Gone => new[i].to[1] # dir
        /\ \A f \in FilesIn(dir) : \A i \in 1..Len(new) : ~About(new[i], f)
    <3>1. ~WaitsInto(new, dir) /\ \A f \in FilesIn(dir) : ~Waits(new, f)
      BY <1>3, <2>3, <2>4 DEF Unexpected
    <3> QED
      BY <3>1, NoWaits
  <2>10. \A f \in Files : FileFollows(s.tab, disk.at, new, f, FALSE)
    <3> SUFFICES ASSUME NEW f \in Files PROVE FileFollows(s.tab, disk.at, new, f, FALSE)
      OBVIOUS
    <3>1. CASE s.tab.entry[f][1] \in s.tab.watched
      BY <1>2, <2>3, <3>1, OtherHandled DEF Follows
    <3>2. CASE s.tab.entry[f][1] \notin s.tab.watched
      BY <1>2, <2>3, <3>2, OtherHandled DEF Follows
    <3> QED
      BY <3>1, <3>2
  <2>6. \A f \in FilesIn(dir) : s.tab.entry[f] = Gone
    <3> SUFFICES ASSUME NEW f \in FilesIn(dir) PROVE s.tab.entry[f] = Gone
      OBVIOUS
    <3>1. f \in Files /\ disk.at[f] # Gone /\ disk.at[f][1] \notin s.tab.watched
      BY <1>4 DEF FilesIn
    <3>2. /\ s.tab.entry[f] \in {Gone, disk.at[f]}
          /\ s.tab.entry[f] # Gone => s.tab.entry[f][1] \in s.tab.watched
      <4>1. \A i \in 1..Len(new) : ~About(new[i], f)
        BY <2>5
      <4> QED
        BY <2>10, <3>1, <4>1, NotWaiting
    <3> QED
      BY <3>1, <3>2
  <2>7. Sound(u)
    BY <1>2, <2>1, <2>6, DirCreatedSound
  <2>8. ASSUME NEW f \in Files PROVE FileFollows(u.tab, disk.at, new, f, FALSE)
    <3>1. CASE f \in FilesIn(dir)
      <4>1. u.tab.entry[f] = disk.at[f] /\ disk.at[f][1] \in u.tab.watched
        BY <2>2, <3>1 DEF FilesIn
      <4>2. \A i \in 1..Len(new) : ~About(new[i], f)
        BY <2>5, <3>1
      <4> QED
        BY <4>1, <4>2, NotWaiting
    <3>2. CASE f \notin FilesIn(dir)
      <4>1. u.tab.entry[f] = s.tab.entry[f] /\ ~(disk.at[f] # Gone /\ disk.at[f][1] = dir)
        BY <2>2, <3>2 DEF FilesIn
      <4>2. /\ FileFollows(s.tab, disk.at, new, f, FALSE)
            /\ u.tab.entry[f] = s.tab.entry[f]
            /\ u.tab.watched = s.tab.watched \cup {dir}
            /\ \A i \in 1..Len(new) :
                 Puts(new[i], f) /\ new[i].to # Gone => new[i].to[1] # dir
            /\ disk.at[f] # Gone /\ disk.at[f][1] = dir => FALSE
        BY <2>2, <2>5, <2>10, <4>1
      <4> QED
        BY <4>2, FolderEntered, Zenon
    <3> QED
      BY <3>1, <3>2
  <2>9. ASSUME NEW d \in Subfolders PROVE DirFollows(u.tab, disk.inside, Tail(evs), d, FALSE)
    <3>1. CASE d = dir
      BY <1>2, <1>7, <2>2, <2>3, <2>5, <3>1, OwnDirHandled DEF Follows
    <3>2. CASE d # dir
      BY <1>2, <1>7, <2>2, <3>2, OtherDirHandled DEF Follows
    <3> QED
      BY <3>1, <3>2
  <2> QED
    BY <1>3, <2>3, <2>7, <2>8, <2>9 DEF Follows
<1> QED
  BY <1>6, <1>7

\* Whichever it is: what the tables and the server say stays right, and the tables
\* go on following the disk, if a folder is not watched while others wait.
LEMMA HandledFollows ==
  ASSUME TypeOK, NEW s, Sound(s), Findable(s.tab), NEW evs \in Seq(Events), evs # <<>>,
         Follows(s.tab, evs), win.mtt # "none",
         Unexpected(Handled(s, evs[1]).tab.watched \ s.tab.watched, Tail(evs))
  PROVE  /\ Sound(Handled(s, evs[1]))
         /\ Follows(Handled(s, evs[1]).tab, Tail(evs))
<1>1. evs[1].op \in {"created", "moved", "removed", "dirIn", "dirOut"}
  BY TailEvents DEF Events
<1> QED
  BY <1>1, FileEventHandled, DirOutHandled, DirInHandled

-----------------------------------------------------------------------------
(* The invariant *)

\* Still to be read by the walk with these frames.
Unread(fr, dir, x) == \E i \in 1..Len(fr) : fr[i].dir = dir /\ x \in fr[i].left

\* The folders that are watched, and when.
WatchInv ==
  /\ tab.watched \subseteq disk.monitored
  /\ Root \in disk.inside
  /\ \A f, g \in Files : disk.at[f] = disk.at[g] => disk.at[f] = Gone \/ f = g
  /\ Root \notin tab.watched => tab.watched = {} /\ \A f \in Files : tab.entry[f] = Gone
  /\ win.mtt = "none" \/ scan.state = "started" => Root \notin tab.watched
  /\ Named => Root \in tab.watched

\* A walk reads different folders, all of them watched, and only in the shared folder
\* others that are not.
Walks(fr, watched) ==
  /\ \A i \in 1..Len(fr) :
       /\ fr[i].dir \in watched
       /\ fr[i].left \cap watched = {}
       /\ fr[i].dir # Root => fr[i].left \subseteq Names
  /\ \A i, j \in 1..Len(fr) : fr[i].dir = fr[j].dir => i = j

\* The thread that has the name has the lock, and there is no other.
WalkInv ==
  /\ Named <=> ~LockFree
  /\ scan.strays = 0
  /\ Walks(scan.frames, tab.watched)
  /\ QueueOK(out)

\* The tables follow the disk, but for the messages that wait and for what is not read yet.
FilesFollow ==
  \A f \in Files :
    FileFollows(tab, disk.at, events, f, Unread(scan.frames, disk.at[f][1], disk.at[f][2]))

DirsFollow ==
  \A d \in Subfolders : DirFollows(tab, disk.inside, events, d, Unread(scan.frames, Root, d))

\* A file that will be read is not listed, unless a message takes it away before.
UnreadUnlisted ==
  \A f \in Files :
    disk.at[f] # Gone /\ Unread(scan.frames, disk.at[f][1], disk.at[f][2]) /\ ~Waits(events, f)
      => tab.entry[f] = Gone

\* What the walk has collected has listed files.
BatchBacked ==
  \A i \in 1..Len(scan.frames) : \A n \in scan.frames[i].names : Holders(tab, n) # {}

\* The tables follow the disk while messages are heeded, the counts are exact, and all
\* that is or will be on the server has a listed file.
QuietInv ==
  /\ win.sharing \/ Named => FilesFollow /\ DirsFollow
  /\ UnreadUnlisted
  /\ Counted(tab) /\ Backed(tab, out) /\ BatchBacked
  /\ win.mtt = "connected" /\ win.sharing => scan.state # "none" \/ Root \in tab.watched

AgreeInv == FindInv /\ WindowInv /\ (quiet => WatchInv /\ WalkInv /\ QuietInv)

\* The claims about the next tables and output, and that they hold of unchanged ones.
LEMMA CountedNext == Counted(tab') => Counted(tab)'
BY DEF Counted, Holders

LEMMA BackedNext == Backed(tab', out') => Backed(tab, out)'
<1> SUFFICES ASSUME Backed(tab', out'), NEW n, InTheEnd(out, n)'
             PROVE  Holders(tab, n)' # {}
  BY DEF Backed
<1>1. InTheEnd(out', n)
  BY DEF InTheEnd
<1>2. Holders(tab', n) # {}
  BY <1>1 DEF Backed
<1> QED
  BY <1>2 DEF Holders

\* What the server has in the end stays backed by the same entries.
LEMMA EntriesBacked ==
  tab'.entry = tab.entry /\ out' = out /\ Backed(tab, out) => Backed(tab, out)'
<1> SUFFICES ASSUME tab'.entry = tab.entry, out' = out, Backed(tab, out),
                    NEW n, InTheEnd(out, n)'
             PROVE  Holders(tab, n)' # {}
  BY DEF Backed
<1>1. InTheEnd(out, n)
  BY DEF InTheEnd
<1>2. Holders(tab, n) # {}
  BY <1>1 DEF Backed
<1> QED
  BY <1>2 DEF Holders

-----------------------------------------------------------------------------
(* The disk changes *)

\* A file goes from one place to another, or a folder in or out; if no message tells
\* of it, no place of it is monitored.
FileGoes(g, p, e) ==
  /\ disk'.at = [disk.at EXCEPT ![g] = p] /\ disk'.inside = disk.inside
  /\ About(e, g)
  /\ Puts(e, g) => e.to = p
  /\ p # Gone => Puts(e, g) /\ ~At(p)
  /\ e.op = "created" => disk.at[g] = Gone
  /\ \/ events' = Append(events, e)
     \/ /\ events' = events
        /\ disk.at[g] # Gone => disk.at[g][1] \notin disk.monitored
        /\ p # Gone => p[1] \notin disk.monitored

DirGoes(d, e) ==
  /\ disk'.at = disk.at
  /\ \/ Goes(e, d) /\ disk'.inside = disk.inside \ {d}
     \/ Comes(e, d) /\ d \notin disk.inside /\ disk'.inside = disk.inside \cup {d}
  /\ \/ events' = Append(events, e)
     \/ events' = events /\ Root \notin disk.monitored

\* What a change of the disk does, in one of these two forms.
LEMMA DiskStep ==
  ASSUME TypeOK, DiskChanges
  PROVE  /\ UNCHANGED <<tab, out, scan, win, quiet>>
         /\ disk'.monitored = disk.monitored
         /\ \/ \E g \in Files, p \in Somewhere, e \in Events : FileGoes(g, p, e)
            \/ \E d \in Subfolders, e \in Events : DirGoes(d, e)
<1> DEFINE Told == \/ \E g \in Files, p \in Somewhere, e \in Events : FileGoes(g, p, e)
                   \/ \E d \in Subfolders, e \in Events : DirGoes(d, e)
<1>0. /\ disk = [at |-> disk.at, inside |-> disk.inside, monitored |-> disk.monitored]
      /\ Gone \in Somewhere /\ Places \subseteq Somewhere
  BY DEF TypeOK, Somewhere
<1>1. ASSUME NEW at, NEW inside, NEW folders, NEW event, Changed(at, inside, folders, event)
      PROVE  /\ UNCHANGED <<tab, out, scan, win, quiet>>
                 /\ disk'.at = at /\ disk'.inside = inside /\ disk'.monitored = disk.monitored
             /\ \/ events' = Append(events, event)
                \/ events' = events /\ folders \cap disk.monitored = {}
  <2>1. disk' = [at |-> at, inside |-> inside, monitored |-> disk.monitored]
    BY <1>0, <1>1 DEF Changed
  <2>2. UNCHANGED <<tab, out, scan, win, quiet>>
    BY <1>1 DEF Changed
  <2>3. \/ events' = Append(events, event)
        \/ events' = events /\ folders \cap disk.monitored = {}
    BY <1>1 DEF Changed
  <2> QED
    BY <2>1, <2>2, <2>3
<1>2. /\ UNCHANGED <<tab, out, scan, win, quiet>>
      /\ disk'.monitored = disk.monitored
  BY <1>1 DEF DiskChanges, RemoveFile, MoveFile, CreateFile, MoveDir
<1>3. ASSUME NEW f \in Files, RemoveFile(f) PROVE Told
  <2>1. PICK e \in Events : e = [op |-> "removed", node |-> f]
    BY DEF Events
  <2>2. FileGoes(f, Gone, e)
    <3>1. Changed([disk.at EXCEPT ![f] = Gone], disk.inside, {disk.at[f][1]}, e)
          /\ disk.at[f] # Gone
      BY <1>3, <2>1 DEF RemoveFile
    <3>2. About(e, f) /\ ~Puts(e, f) /\ e.op # "created"
      BY <2>1 DEF About, Leaves, Puts
    <3> QED
      BY <1>1, <3>1, <3>2 DEF FileGoes
  <2> QED
    BY <1>0, <2>2
<1>4. ASSUME NEW f \in Files, NEW p \in Somewhere, MoveFile(f, p) PROVE Told
  <2>1. PICK e \in Events : e = [op |-> "moved", node |-> f, to |-> p]
    BY DEF Events
  <2>2. FileGoes(f, p, e)
    <3>1. /\ Changed([disk.at EXCEPT ![f] = p], disk.inside,
                     {disk.at[f][1]} \cup (IF p = Gone THEN {} ELSE {p[1]}), e)
          /\ disk.at[f] # Gone /\ (p = Gone \/ ~At(p))
      BY <1>4, <2>1 DEF MoveFile
    <3>2. About(e, f) /\ Puts(e, f) /\ e.to = p /\ e.op # "created"
      BY <2>1 DEF About, Leaves, Puts
    <3> QED
      BY <1>1, <3>1, <3>2 DEF FileGoes
  <2> QED
    BY <2>2
<1>5. ASSUME NEW f \in Files, NEW p \in Places, NEW op \in {"created", "moved"},
             CreateFile(f, p, op)
      PROVE  Told
  <2>0. p \in Somewhere /\ p # Gone
    BY GoneAssumption DEF Somewhere, Places
  <2>1. PICK e \in Events : e = [op |-> op, node |-> f, to |-> p]
    BY <2>0 DEF Events
  <2>2. FileGoes(f, p, e)
    <3>1. /\ Changed([disk.at EXCEPT ![f] = p], disk.inside, {p[1]}, e)
          /\ disk.at[f] = Gone /\ ~At(p)
      BY <1>5, <2>1 DEF CreateFile
    <3>2. About(e, f) /\ Puts(e, f) /\ e.to = p
      BY <2>1 DEF About, Leaves, Puts
    <3> QED
      BY <1>1, <3>1, <3>2 DEF FileGoes
  <2> QED
    BY <2>0, <2>2
<1>6. ASSUME NEW d \in Subfolders, MoveDir(d) PROVE Told
  <2>1. CASE d \in disk.inside
    <3>1. PICK e \in Events : e = [op |-> "dirOut", node |-> d]
      BY DEF Events
    <3>2. Changed(disk.at, disk.inside \ {d}, {Root}, e) /\ Goes(e, d)
      BY <1>6, <2>1, <3>1 DEF MoveDir, Goes
    <3>3. DirGoes(d, e)
      BY <1>1, <3>2 DEF DirGoes
    <3> QED
      BY <3>3
  <2>2. CASE d \notin disk.inside
    <3>1. PICK e \in Events : e = [op |-> "dirIn", node |-> d]
      BY DEF Events
    <3>2. Changed(disk.at, disk.inside \cup {d}, {Root}, e) /\ Comes(e, d)
      BY <1>6, <2>2, <3>1 DEF MoveDir, Comes
    <3>3. DirGoes(d, e)
      BY <1>1, <2>2, <3>2 DEF DirGoes
    <3> QED
      BY <3>3
  <2> QED
    BY <2>1, <2>2
<1>7. Told
  BY <1>0, <1>3, <1>4, <1>5, <1>6 DEF DiskChanges
<1> QED
  BY <1>2, <1>7

\* Changes of the disk leave the watched folders and the walk alone.
LEMMA DiskWatch ==
  ASSUME TypeOK, WatchInv, WalkInv, DiskChanges
  PROVE  WatchInv' /\ WalkInv'
<1>1. /\ UNCHANGED <<tab, out, scan, win, quiet>>
      /\ disk'.monitored = disk.monitored
  BY DiskStep
<1>2. WalkInv'
  BY <1>1 DEF WalkInv, Named, LockFree, QueueOK, IsOutput
<1>3. /\ Root \in disk'.inside
      /\ \A f, g \in Files : disk'.at[f] = disk'.at[g] => disk'.at[f] = Gone \/ f = g
  <2>1. ASSUME NEW g \in Files, NEW p \in Somewhere, NEW e \in Events, FileGoes(g, p, e)
        PROVE  <1>3!:
    BY <2>1 DEF FileGoes, WatchInv, TypeOK, At
  <2>2. ASSUME NEW d \in Subfolders, NEW e \in Events, DirGoes(d, e)
        PROVE  <1>3!:
    BY <2>2 DEF DirGoes, WatchInv, Subfolders
  <2> QED
    BY <2>1, <2>2, DiskStep
<1>4. WatchInv'
  BY <1>1, <1>3 DEF WatchInv, Named
<1> QED
  BY <1>2, <1>4

\* The tables follow the disk as before, but for one more message that waits.
LEMMA DiskFollows ==
  ASSUME AgreeInv, DiskChanges, quiet', win.sharing \/ Named
  PROVE  FilesFollow' /\ DirsFollow'
<1>0. TypeOK /\ WatchInv /\ WalkInv /\ QuietInv
  BY DiskStep DEF AgreeInv, FindInv
<1>1. /\ UNCHANGED <<tab, out, scan, win, quiet>>
      /\ disk'.monitored = disk.monitored
  BY <1>0, DiskStep
<1>2. PICK fr : fr = scan.frames
  OBVIOUS
<1> DEFINE W(at, f) == Unread(fr, at[f][1], at[f][2])
<1>3. /\ \A f \in Files : FileFollows(tab, disk.at, events, f, W(disk.at, f))
      /\ \A d \in Subfolders : DirFollows(tab, disk.inside, events, d, Unread(fr, Root, d))
      /\ events \in Seq(Events) /\ tab.watched \subseteq disk.monitored
      /\ Root \notin tab.watched => tab.watched = {}
  BY <1>0, <1>2 DEF QuietInv, TypeOK, WatchInv, FilesFollow, DirsFollow
<1>4. /\ \A f \in Files : FileFollows(tab, disk'.at, events', f, W(disk'.at, f))
      /\ \A d \in Subfolders : DirFollows(tab, disk'.inside, events', d, Unread(fr, Root, d))
  <2>1. ASSUME NEW g \in Files, NEW p \in Somewhere, NEW e \in Events, FileGoes(g, p, e)
        PROVE  <1>4!:
    <3>1. PICK at2 : at2 = disk'.at
      OBVIOUS
    <3>2. /\ at2[g] = p /\ \A f \in Files : f # g => at2[f] = disk.at[f] /\ ~About(e, f)
          /\ \A d : ~Goes(e, d) /\ ~Comes(e, d)
      BY <1>0, <2>1, <3>1 DEF FileGoes, TypeOK, About, Leaves, Puts, Goes, Comes
    <3>3. \A f \in Files : f # g => W(at2, f) = W(disk.at, f)
      BY <3>2
    <3> HIDE DEF W
    <3>4. CASE events' = Append(events, e)
      <4>1. FileFollows(tab, at2, Append(events, e), g, W(at2, g))
        BY <1>3, <2>1, <3>2, OwnAppended DEF FileGoes
      <4>2. ASSUME NEW f \in Files, f # g
            PROVE  FileFollows(tab, at2, Append(events, e), f, W(at2, f))
        <5>1. FileFollows(tab, at2, Append(events, e), f, W(disk.at, f))
          BY <1>3, <3>2, <4>2, OtherAppended
        <5> QED
          BY <3>3, <4>2, <5>1
      <4>3. \A d \in Subfolders :
              DirFollows(tab, disk.inside, Append(events, e), d, Unread(fr, Root, d))
        BY <1>3, <3>2, OtherDirAppended
      <4> QED
        BY <2>1, <3>1, <3>4, <4>1, <4>2, <4>3 DEF FileGoes
    <3>5. CASE /\ events' = events
               /\ disk.at[g] # Gone => disk.at[g][1] \notin disk.monitored
               /\ p # Gone => p[1] \notin disk.monitored
      <4>1. FileFollows(tab, at2, events, g, W(at2, g))
        BY <1>3, <3>2, <3>5, MovedUntold
      <4>2. ASSUME NEW f \in Files, f # g PROVE FileFollows(tab, at2, events, f, W(at2, f))
        <5>1. FileFollows(tab, at2, events, f, W(disk.at, f))
          BY <1>3, <3>2, <4>2 DEF FileFollows, Overtaken, Found
        <5> QED
          BY <3>3, <4>2, <5>1
      <4> QED
        BY <1>3, <2>1, <3>1, <3>5, <4>1, <4>2 DEF FileGoes
    <3> QED
      BY <2>1, <3>4, <3>5 DEF FileGoes
  <2>2. ASSUME NEW g \in Subfolders, NEW e \in Events, DirGoes(g, e)
        PROVE  <1>4!:
    <3>1. PICK in2 : in2 = disk'.inside
      OBVIOUS
    <3>2. /\ \A d : d # g => (d \in in2 <=> d \in disk.inside) /\ ~Goes(e, d) /\ ~Comes(e, d)
          /\ \/ Goes(e, g) /\ g \notin in2
             \/ Comes(e, g) /\ g \notin disk.inside
          /\ \A f : ~About(e, f)
      BY <2>2, <3>1 DEF DirGoes, About, Leaves, Puts, Goes, Comes
    <3> HIDE DEF W
    <3>3. CASE events' = Append(events, e)
      <4>1. DirFollows(tab, in2, Append(events, e), g, Unread(fr, Root, g))
        BY <1>3, <3>2, OwnDirAppended
      <4>2. \A d \in Subfolders :
              d # g => DirFollows(tab, in2, Append(events, e), d, Unread(fr, Root, d))
        BY <1>3, <3>2, OtherDirAppended
      <4>3. \A f \in Files : FileFollows(tab, disk.at, Append(events, e), f, W(disk.at, f))
        BY <1>3, <3>2, OtherAppended
      <4> QED
        BY <2>2, <3>1, <3>3, <4>1, <4>2, <4>3 DEF DirGoes
    <3>4. CASE events' = events /\ Root \notin disk.monitored
      <4>1. tab.watched = {}
        BY <1>3, <3>4
      <4>2. \A d \in Subfolders : DirFollows(tab, in2, events, d, Unread(fr, Root, d))
        BY <4>1, NoDirWatched
      <4> QED
        BY <1>3, <2>2, <3>1, <3>4, <4>2 DEF DirGoes
    <3> QED
      BY <2>2, <3>3, <3>4 DEF DirGoes
  <2> QED
    BY <1>0, <2>1, <2>2, DiskStep
<1> QED
  BY <1>1, <1>2, <1>4 DEF FilesFollow, DirsFollow, Unread

\* A file that has moved into a folder before that is read has a message waiting.
LEMMA DiskUnread ==
  ASSUME AgreeInv, DiskChanges, quiet'
  PROVE  UnreadUnlisted'
<1>0. TypeOK /\ WatchInv /\ WalkInv /\ QuietInv
  BY DiskStep DEF AgreeInv, FindInv
<1>1. /\ UNCHANGED <<tab, out, scan, win, quiet>>
  BY <1>0, DiskStep
<1>2. \A dir, x : Unread(scan.frames, dir, x) => dir \in disk.monitored
  BY <1>0 DEF Unread, WalkInv, Walks, WatchInv
<1>3. \A e, f : ~Waits(Append(events, e), f) => ~Waits(events, f) /\ ~About(e, f)
  <2> SUFFICES ASSUME NEW e, NEW f, ~Waits(Append(events, e), f)
               PROVE  ~Waits(events, f) /\ ~About(e, f)
    OBVIOUS
  <2>0. PICK evs \in Seq(Events) : evs = events
    BY <1>0 DEF TypeOK
  <2>1. PICK new : new = Append(evs, e)
    OBVIOUS
  <2>2. PICK n \in Nat : n = Len(evs)
    OBVIOUS
  <2>3. /\ DOMAIN new = 1..n + 1 /\ DOMAIN evs = 1..n
        /\ \A i \in 1..n : new[i] = evs[i]
        /\ new[n + 1] = e
    BY <2>1, <2>2
  <2>4. n + 1 \in 1..n + 1 /\ 1..n \subseteq 1..n + 1
    OBVIOUS
  <2>5. ~Waits(new, f)
    BY <2>0, <2>1
  <2>6. ~Waits(evs, f)
    BY <2>3, <2>4, <2>5 DEF Waits
  <2>7. ~About(e, f)
    BY <2>3, <2>4, <2>5 DEF Waits, About, Leaves, Puts
  <2> QED
    BY <2>0, <2>6, <2>7
<1> SUFFICES ASSUME NEW f \in Files, disk'.at[f] # Gone,
                    Unread(scan.frames, disk.at[f][1], disk.at[f][2])', ~Waits(events, f)'
             PROVE  tab'.entry[f] = Gone
  BY DEF UnreadUnlisted
<1>5. ~Waits(events', f)
  BY DEF Waits
<1>6. Unread(scan.frames, disk'.at[f][1], disk'.at[f][2])
  BY <1>1 DEF Unread
<1>4. ~Waits(events, f) /\ disk'.at[f] = disk.at[f]
  <2>1. ASSUME NEW g \in Files, NEW p \in Somewhere, NEW e \in Events, FileGoes(g, p, e)
        PROVE  <1>4!:
    <3>1. CASE f = g
      <4>1. disk'.at[f] = p /\ p[1] \in disk.monitored /\ p # Gone /\ About(e, f)
        BY <1>0, <1>2, <1>6, <2>1, <3>1 DEF FileGoes, TypeOK
      <4> QED
        BY <1>3, <1>5, <2>1, <4>1 DEF FileGoes
    <3>2. CASE f # g
      BY <1>0, <1>3, <1>5, <2>1, <3>2 DEF FileGoes, TypeOK
    <3> QED
      BY <3>1, <3>2
  <2>2. ASSUME NEW d \in Subfolders, NEW e \in Events, DirGoes(d, e)
        PROVE  <1>4!:
    BY <1>3, <1>5, <2>2 DEF DirGoes
  <2> QED
    BY <1>0, <2>1, <2>2, DiskStep
<1> QED
  BY <1>0, <1>1, <1>4, <1>6 DEF QuietInv, UnreadUnlisted

LEMMA DiskAgrees == AgreeInv /\ DiskChanges => AgreeInv'
<1> SUFFICES ASSUME AgreeInv, DiskChanges PROVE AgreeInv'
  OBVIOUS
<1>1. FindInv' /\ WindowInv'
  BY DiskFind, DiskWindow DEF AgreeInv
<1> SUFFICES ASSUME quiet' PROVE WatchInv' /\ WalkInv' /\ QuietInv'
  BY <1>1 DEF AgreeInv
<1>2. UNCHANGED <<tab, out, scan, win, quiet>> /\ TypeOK /\ WatchInv /\ WalkInv /\ QuietInv
  BY DiskStep DEF AgreeInv, FindInv
<1>3. WatchInv' /\ WalkInv'
  BY <1>2, DiskWatch
<1>4. BatchBacked' /\ Counted(tab)' /\ Backed(tab, out)'
  BY <1>2, EntriesBacked, CountedNext DEF QuietInv, BatchBacked, Holders
<1>5. win.sharing \/ Named => FilesFollow' /\ DirsFollow'
  BY DiskFollows
<1> QED
  BY <1>2, <1>3, <1>4, <1>5, DiskUnread DEF QuietInv, Named

-----------------------------------------------------------------------------
(* The walk *)

\* What a step of a quiet walk can rely on.
LEMMA QuietWalk ==
  ASSUME AgreeInv, quiet, ~LockFree
  PROVE  /\ TypeOK /\ Findable(tab) /\ ScanTypeOK /\ WatchInv /\ WalkInv /\ QuietInv
         /\ FilesFollow /\ DirsFollow /\ scan.state = "walking" /\ scan.strays = 0
         /\ win.mtt # "none"
BY DEF AgreeInv, FindInv, WindowInv, WindowTypeOK, NothingInv, WalkInv, QuietInv, Named

\* An entry x of the innermost folder is read: nothing else is read by that.
EntryRead(new, g, x) ==
  /\ new \in Seq(FramesOfWalk) /\ g \in FramesOfWalk
  /\ Len(new) = Len(scan.frames)
  /\ \A i \in 1..Len(scan.frames) :
       new[i] = IF i = Len(scan.frames) THEN g ELSE scan.frames[i]
  /\ g.dir = Top.dir /\ g.left = Top.left \ {x}

LEMMA ReadUnread ==
  ASSUME ScanTypeOK, ~LockFree, WalkInv, NEW new, NEW g, NEW x, EntryRead(new, g, x)
  PROVE  \A dir, y : Unread(new, dir, y)
                       <=> Unread(scan.frames, dir, y) /\ ~(dir = Top.dir /\ y = x)
<1>2. PICK n \in Nat : n = Len(scan.frames)
  BY TopFrame
<1>3. /\ Len(new) = n /\ n \in 1..n
      /\ \A i \in 1..n : new[i] = IF i = n THEN g ELSE scan.frames[i]
      /\ Top = scan.frames[n]
      /\ \A i \in 1..n : scan.frames[i].dir = Top.dir => i = n
      /\ g.dir = Top.dir /\ g.left = Top.left \ {x}
  BY <1>2, TopFrame DEF WalkInv, Walks, EntryRead
<1>4. ASSUME NEW dir, NEW y, Unread(new, dir, y)
      PROVE  Unread(scan.frames, dir, y) /\ ~(dir = Top.dir /\ y = x)
  <2>1. PICK i \in 1..n : new[i].dir = dir /\ y \in new[i].left
    BY <1>3, <1>4 DEF Unread
  <2>2. CASE i = n
    BY <1>2, <1>3, <2>1, <2>2 DEF Unread
  <2>3. CASE i # n
    BY <1>2, <1>3, <2>1, <2>3 DEF Unread
  <2> QED
    BY <2>2, <2>3
<1>5. ASSUME NEW dir, NEW y, Unread(scan.frames, dir, y), ~(dir = Top.dir /\ y = x)
      PROVE  Unread(new, dir, y)
  <2>1. PICK i \in 1..n : scan.frames[i].dir = dir /\ y \in scan.frames[i].left
    BY <1>2, <1>5 DEF Unread
  <2>2. new[i].dir = dir /\ y \in new[i].left
    BY <1>3, <1>5, <2>1
  <2> QED
    BY <1>3, <2>1, <2>2 DEF Unread
<1> QED
  BY <1>4, <1>5

\* A folder is entered: all that is in it is to be read.
LEMMA EnteredUnread ==
  ASSUME NEW fr \in Seq(FramesOfWalk), NEW g \in FramesOfWalk
  PROVE  \A dir, y : Unread(Append(fr, g), dir, y)
                       <=> Unread(fr, dir, y) \/ (dir = g.dir /\ y \in g.left)
<1>1. PICK new : new = Append(fr, g)
  OBVIOUS
<1>2. PICK n \in Nat : n = Len(fr)
  OBVIOUS
<1>3. /\ Len(new) = n + 1 /\ \A i \in 1..n : new[i] = fr[i]
      /\ new[n + 1] = g
  BY <1>1, <1>2, AppendedFrames
<1>4. /\ \A i \in 1..n + 1 : i \in 1..n \/ i = n + 1
      /\ 1..n \subseteq 1..n + 1 /\ n + 1 \in 1..n + 1
  OBVIOUS
<1>5. \A dir, y : Unread(new, dir, y) <=> \E i \in 1..n + 1 : new[i].dir = dir /\ y \in new[i].left
  BY <1>3 DEF Unread
<1>6. \A dir, y : Unread(fr, dir, y) <=> \E i \in 1..n : new[i].dir = dir /\ y \in new[i].left
  BY <1>2, <1>3 DEF Unread
<1> QED
  BY <1>1, <1>3, <1>4, <1>5, <1>6

LEMMA EnterFields ==
  ASSUME TypeOK, NEW d, EnterDirectory(d)
  PROVE  /\ tab'.watched = tab.watched \cup {d} /\ tab'.entry = tab.entry
         /\ tab'.count = tab.count
         /\ disk'.at = disk.at /\ disk'.inside = disk.inside
         /\ disk'.monitored = disk.monitored \cup {d}
         /\ quiet' = (quiet /\ ~WaitsInto(events, d))
<1>1. tab' = [watched |-> tab.watched \cup {d}, entry |-> tab.entry, count |-> tab.count,
              ref |-> tab.ref, twice |-> tab.twice]
  BY DEF TypeOK, Tables, EnterDirectory
<1>2. disk' = [at |-> disk.at, inside |-> disk.inside, monitored |-> disk.monitored \cup {d}]
  BY DEF TypeOK, EnterDirectory
<1>3. quiet' = (quiet /\ ~WaitsInto(events, d))
  BY DEF EnterDirectory
<1> QED
  BY <1>1, <1>2, <1>3

\* A step that does not concern the file, or only when it is read.
LEMMA SameFile ==
  ASSUME NEW t, NEW u, NEW at, NEW evs, NEW f, NEW w, NEW w2, FileFollows(t, at, evs, f, w),
         u.watched = t.watched, u.entry[f] = t.entry[f], at[f] # Gone => (w2 <=> w)
  PROVE  FileFollows(u, at, evs, f, w2)
<1>1. \A i : Listing(u, evs, f, i) = Listing(t, evs, f, i)
  BY DEF Listing
<1>2. Separate(u, evs, f) /\ Overtaken(u, at, evs, f)
  BY <1>1 DEF FileFollows, Separate, Overtaken
<1>3. InWatched(u, evs, f)
  BY DEF FileFollows, InWatched
<1>4. Found(u, at, evs, f, w2)
  BY DEF FileFollows, Found
<1> QED
  BY <1>2, <1>3, <1>4 DEF FileFollows

LEMMA SameDir ==
  ASSUME NEW t, NEW u, NEW inside, NEW evs, NEW d, NEW w, NEW w2, DirFollows(t, inside, evs, d, w),
         Root \in u.watched => Root \in t.watched,
         d \in u.watched <=> d \in t.watched, d \in inside => (w2 <=> w)
  PROVE  DirFollows(u, inside, evs, d, w2)
BY DEF DirFollows

\* The walk starts with the shared folder: nothing is listed yet, all is to be read.
LEMMA StartAgrees ==
  ASSUME AgreeInv, StartScan, quiet'
  PROVE  WatchInv' /\ WalkInv' /\ QuietInv'
<1>0. quiet
  BY DEF StartScan, EnterDirectory
<1>1. /\ TypeOK /\ ScanTypeOK /\ WatchInv /\ WalkInv /\ QuietInv
      /\ scan.state = "started" /\ win.mtt # "none" /\ scan.strays = 0
      /\ Root \notin tab.watched
  BY <1>0 DEF AgreeInv, FindInv, WindowInv, WindowTypeOK, NothingInv, WatchInv, WalkInv,
              StartScan
<1>2. /\ scan' = [state |-> "walking", frames |-> <<Frame(Root)>>, go |-> TRUE, strays |-> 0]
      /\ UNCHANGED <<events, out, win>> /\ EnterDirectory(Root)
  <2>0. PICK z, new : z = TRUE /\ new = <<Frame(Root)>>
    OBVIOUS
  <2>1. /\ scan' = [scan EXCEPT !.state = "walking", !.frames = new, !.go = z]
        /\ UNCHANGED <<events, out, win>> /\ EnterDirectory(Root)
    BY <1>1, <2>0 DEF StartScan
  <2>2. scan = [state |-> scan.state, frames |-> scan.frames, go |-> scan.go, strays |-> 0]
    BY <1>1 DEF ScanTypeOK
  <2>3. scan' = [state |-> "walking", frames |-> new, go |-> z, strays |-> 0]
    <3>1. PICK st, fs, go : scan = [state |-> st, frames |-> fs, go |-> go, strays |-> 0]
      BY <2>2, Zenon
    <3> QED
      BY <2>1, <3>1
  <2> QED
    BY <2>0, <2>1, <2>3
<1>3. /\ tab'.watched = {Root} /\ tab'.entry = tab.entry /\ tab'.count = tab.count
      /\ \A f \in Files : tab.entry[f] = Gone
      /\ disk'.at = disk.at /\ disk'.inside = disk.inside
      /\ Root \in disk'.monitored /\ ~WaitsInto(events, Root)
      /\ tab.watched = {}
  <2>1. tab.watched = {} /\ \A f \in Files : tab.entry[f] = Gone
    BY <1>1 DEF WatchInv
  <2>2. /\ tab'.watched = tab.watched \cup {Root} /\ tab'.entry = tab.entry
        /\ tab'.count = tab.count
        /\ disk'.at = disk.at /\ disk'.inside = disk.inside
        /\ disk'.monitored = disk.monitored \cup {Root}
        /\ quiet' = (quiet /\ ~WaitsInto(events, Root))
    BY <1>1, <1>2, EnterFields
  <2> QED
    BY <2>1, <2>2
<1>4. /\ Frame(Root) \in FramesOfWalk /\ Frame(Root).dir = Root /\ Frame(Root).names = {}
      /\ Names \subseteq Frame(Root).left /\ Subfolders \subseteq Frame(Root).left
      /\ Root \notin Frame(Root).left
  <2>1. Root \notin Names \cup Subfolders
    BY NamesAssumption, RootAssumption DEF Subfolders
  <2> QED
    BY <2>1, FrameType, RootAssumption DEF FramesOfWalk
<1>5. PICK fr : fr = <<Frame(Root)>>
  OBVIOUS
<1>6. /\ scan'.state = "walking" /\ scan'.frames = fr /\ scan'.strays = 0
      /\ fr # <<>> /\ Len(fr) = 1 /\ fr[1] = Frame(Root) /\ \A i \in 1..Len(fr) : i = 1
  BY <1>2, <1>5
<1>7. WatchInv'
  BY <1>1, <1>2, <1>3, <1>6 DEF WatchInv, Named
<1>8. WalkInv'
  <2>1. QueueOK(out)'
    BY <1>1, <1>2 DEF WalkInv, QueueOK, IsOutput
  <2>2. Named' /\ ~LockFree'
    BY <1>6 DEF Named, LockFree
  <2>3. \A i \in 1..Len(fr) : fr[i].dir = Root /\ fr[i].left \cap tab'.watched = {}
    BY <1>3, <1>4, <1>6
  <2> QED
    BY <1>3, <1>6, <2>1, <2>2, <2>3 DEF WalkInv, Walks
<1>9. /\ \A n \in Names : Unread(fr, Root, n)
      /\ \A d \in Subfolders : Unread(fr, Root, d)
  BY <1>4, <1>6 DEF Unread
<1>10. FilesFollow'
  <2>1. ASSUME NEW f \in Files, NEW w, disk.at[f] # Gone /\ disk.at[f][1] = Root => w
        PROVE  FileFollows(tab', disk.at, events, f, w)
    <3>1. FileFollows(tab, disk.at, events, f, FALSE)
      BY <1>3, NothingListed
    <3>2. \A i \in 1..Len(events) : Puts(events[i], f) /\ events[i].to # Gone => events[i].to[1] # Root
      BY <1>1, <1>3, NoWaits DEF TypeOK
    <3>3. tab'.watched = tab.watched \cup {Root} /\ events \in Seq(Events)
      BY <1>1, <1>3 DEF TypeOK
    <3> QED
      BY <1>3, <2>1, <3>1, <3>2, <3>3, FolderEntered
  <2>2. \A f \in Files : disk.at[f] # Gone => disk.at[f][2] \in Names
    BY <1>1 DEF TypeOK, Somewhere, Places
  <2>3. \A f \in Files : FileFollows(tab', disk.at, events, f,
                                     Unread(fr, disk.at[f][1], disk.at[f][2]))
    BY <1>9, <2>1, <2>2
  <2>4. \A f \in Files : FileFollows(tab', disk'.at, events', f,
                                     Unread(scan'.frames, disk'.at[f][1], disk'.at[f][2]))
    BY <1>2, <1>3, <1>6, <2>3
  <2> QED
    BY <2>4 DEF FilesFollow
<1>11. DirsFollow'
  <2>1. ASSUME NEW d \in Subfolders
        PROVE  DirFollows(tab', disk'.inside, events', d, Unread(scan'.frames, Root, d))
    <3>1. d \notin tab'.watched /\ Unread(scan'.frames, Root, d)
      BY <1>3, <1>6, <1>9 DEF Subfolders
    <3> QED
      BY <3>1 DEF DirFollows
  <2> QED
    BY <2>1 DEF DirsFollow
<1>12. UnreadUnlisted'
  BY <1>3 DEF UnreadUnlisted
<1>13. BatchBacked'
  <2>1. \A i \in 1..Len(scan'.frames) : scan'.frames[i].names = {}
    BY <1>4, <1>6
  <2> QED
    BY <2>1 DEF BatchBacked
<1>14. Counted(tab)' /\ Backed(tab, out)'
  BY <1>1, <1>2, <1>3, EntriesBacked DEF QuietInv, Counted, Holders
<1> QED
  BY <1>6, <1>7, <1>8, <1>10, <1>11, <1>12, <1>13, <1>14 DEF QuietInv

\* An entry of a folder is read: the walk goes on in the same folders, and in the same
\* ones when it enters one more.
LEMMA ReadWalk ==
  ASSUME ScanTypeOK, ~LockFree, WalkInv, NEW new \in Seq(FramesOfWalk),
         NEW g \in FramesOfWalk, NEW x,
         Len(new) = Len(scan.frames),
         \A i \in 1..Len(scan.frames) :
           new[i] = IF i = Len(scan.frames) THEN g ELSE scan.frames[i],
         g.dir = Top.dir, g.left = Top.left \ {x}
  PROVE  /\ \A i \in 1..Len(new) : new[i].dir = scan.frames[i].dir
         /\ Walks(new, tab.watched)
<1>1. PICK n \in Nat : n = Len(scan.frames)
  BY TopFrame
<1>2. Top = scan.frames[n] /\ n \in 1..n /\ Len(new) = n
  BY <1>1, TopFrame
<1>3. \A i \in 1..n : new[i].dir = scan.frames[i].dir /\ new[i].left \subseteq scan.frames[i].left
  BY <1>1, <1>2
<1> QED
  BY <1>1, <1>2, <1>3 DEF WalkInv, Walks

\* What a scan thread sends.
LEMMA QueuedEnd ==
  ASSUME QueueOK(out), NEW names \in SUBSET Names
  PROVE  /\ QueueOK(Queued(names))
         /\ \A n : InTheEnd(Queued(names), n) => InTheEnd(out, n) \/ n \in names
<1>1. PICK m : m = [op |-> "set", names |-> names]
  OBVIOUS
<1>2. m \in Messages /\ m.op = "set" /\ m.names = names
  BY <1>1 DEF Messages
<1>3. Queued(names) = out \/ Queued(names) = SendLow(out, m)
  BY <1>1 DEF Queued
<1>4. /\ QueueOK(SendLow(out, m))
      /\ \A n : InTheEnd(SendLow(out, m), n) =>
           IF m.op = "set" THEN InTheEnd(out, n) \/ n \in m.names
           ELSE InTheEnd(out, n) /\ n \notin m.names
  BY <1>2, SendLowEnd
<1> QED
  BY <1>2, <1>3, <1>4

\* An entry is read that is no file any more.
LEMMA ReadNothingAgrees ==
  ASSUME AgreeInv, NEW name \in Names, ReadFile(name), ~At(<<Top.dir, name>>), quiet'
  PROVE  WatchInv' /\ WalkInv' /\ QuietInv'
<1>1. /\ ~LockFree /\ name \in Top.left /\ quiet
      /\ UNCHANGED <<disk, events, win, tab, out>>
  BY DEF ReadFile
<1>2. /\ TypeOK /\ Findable(tab) /\ ScanTypeOK /\ WatchInv /\ WalkInv /\ QuietInv
      /\ FilesFollow /\ DirsFollow /\ scan.state = "walking" /\ scan.strays = 0
      /\ win.mtt # "none"
  BY <1>1, QuietWalk
<1>3. PICK new \in Seq(FramesOfWalk), g \in FramesOfWalk, go \in BOOLEAN :
         /\ WalkIs(new, g, go)
         /\ g.dir = Top.dir /\ g.left = Top.left \ {name} /\ g.names = Top.names
  <2>1. \E new \in Seq(FramesOfWalk), g \in FramesOfWalk, go \in BOOLEAN :
         /\ WalkIs(new, g, go)
         /\ g.dir = Top.dir /\ g.left = Top.left \ {name}
         /\ At(<<Top.dir, name>>) =>
              \/ out' = Queued(Top.names \cup {name}) /\ g.names = {}
              \/ out' = out /\ g.names = Top.names \cup {name}
         /\ ~At(<<Top.dir, name>>) => out' = out /\ g.names = Top.names
    BY <1>2, ReadFileScan
  <2> QED
    BY <2>1
<1>4. /\ scan'.state = "walking" /\ scan'.frames = new /\ scan'.strays = 0
      /\ new # <<>> /\ Len(new) = Len(scan.frames)
      /\ \A i \in 1..Len(scan.frames) :
           new[i] = IF i = Len(scan.frames) THEN g ELSE scan.frames[i]
  BY <1>2, <1>3 DEF WalkIs
<1>5. \A dir, y : Unread(new, dir, y)
                    <=> Unread(scan.frames, dir, y) /\ ~(dir = Top.dir /\ y = name)
  <2>1. EntryRead(new, g, name)
    BY <1>3, <1>4 DEF EntryRead
  <2> QED
    BY <1>1, <1>2, <2>1, ReadUnread
<1>6. \A f \in Files : disk.at[f] # Gone =>
        (Unread(new, disk.at[f][1], disk.at[f][2])
           <=> Unread(scan.frames, disk.at[f][1], disk.at[f][2]))
  <2>1. ASSUME NEW f \in Files, disk.at[f] # Gone
        PROVE  ~(disk.at[f][1] = Top.dir /\ disk.at[f][2] = name)
    <3>1. disk.at[f] = <<disk.at[f][1], disk.at[f][2]>>
      BY <1>2, <2>1 DEF TypeOK, Somewhere, Places
    <3>2. disk.at[f] # <<Top.dir, name>>
      BY DEF At
    <3> QED
      BY <3>1, <3>2
  <2> QED
    BY <1>5, <2>1
<1>7. \A d \in Subfolders : Unread(new, Root, d) <=> Unread(scan.frames, Root, d)
  BY <1>5, NamesAssumption DEF Subfolders
<1>8. WatchInv'
  BY <1>1, <1>2, <1>4 DEF WatchInv, Named
<1>9. WalkInv'
  <2>1. QueueOK(out)' /\ Named' /\ ~LockFree'
    BY <1>1, <1>2, <1>4 DEF WalkInv, QueueOK, IsOutput, Named, LockFree
  <2>2. /\ \A i \in 1..Len(new) : new[i].dir = scan.frames[i].dir
        /\ Walks(new, tab.watched)
    BY <1>1, <1>2, <1>3, <1>4, ReadWalk
  <2> QED
    BY <1>1, <1>4, <2>1, <2>2 DEF WalkInv
<1>10. FilesFollow'
  <2>1. ASSUME NEW f \in Files
        PROVE  FileFollows(tab, disk.at, events, f, Unread(new, disk.at[f][1], disk.at[f][2]))
    <3>1. FileFollows(tab, disk.at, events, f, Unread(scan.frames, disk.at[f][1], disk.at[f][2]))
      BY <1>2 DEF FilesFollow
    <3> QED
      BY <1>6, <3>1, SameFile
  <2>2. \A f \in Files : FileFollows(tab', disk'.at, events', f,
                                     Unread(scan'.frames, disk'.at[f][1], disk'.at[f][2]))
    BY <1>1, <1>4, <2>1
  <2> QED
    BY <2>2 DEF FilesFollow
<1>11. DirsFollow'
  <2>1. ASSUME NEW d \in Subfolders
        PROVE  DirFollows(tab, disk.inside, events, d, Unread(new, Root, d))
    <3>1. DirFollows(tab, disk.inside, events, d, Unread(scan.frames, Root, d))
      BY <1>2 DEF DirsFollow
    <3> QED
      BY <1>7, <3>1, SameDir
  <2>2. \A d \in Subfolders : DirFollows(tab', disk'.inside, events', d,
                                         Unread(scan'.frames, Root, d))
    BY <1>1, <1>4, <2>1
  <2> QED
    BY <2>2 DEF DirsFollow
<1>12. UnreadUnlisted'
  BY <1>1, <1>2, <1>4, <1>6 DEF QuietInv, UnreadUnlisted, Waits
<1>13. BatchBacked'
  <2>1. \A i \in 1..Len(new) : new[i].names = scan.frames[i].names
    BY <1>1, <1>2, <1>3, <1>4, TopFrame
  <2> QED
    BY <1>1, <1>2, <1>4, <2>1 DEF QuietInv, BatchBacked, Holders
<1>14. Counted(tab)' /\ Backed(tab, out)'
  BY <1>1, <1>2, EntriesBacked, CountedNext DEF QuietInv
<1> QED
  BY <1>4, <1>8, <1>9, <1>10, <1>11, <1>12, <1>13, <1>14 DEF QuietInv

\* A file that is read, and of which no message waits, was not listed; it is not to be
\* read again, and is backed by the tables before its name is sent.
LEMMA ReadFileAgrees ==
  ASSUME AgreeInv, NEW name \in Names, ReadFile(name), At(<<Top.dir, name>>), quiet'
  PROVE  WatchInv' /\ WalkInv' /\ QuietInv'
<1>1. /\ ~LockFree /\ name \in Top.left /\ quiet
      /\ UNCHANGED <<disk, events, win>>
  BY DEF ReadFile
<1>2. /\ TypeOK /\ Findable(tab) /\ ScanTypeOK /\ WatchInv /\ WalkInv /\ QuietInv
      /\ FilesFollow /\ DirsFollow /\ scan.state = "walking" /\ scan.strays = 0
      /\ win.mtt # "none"
  BY <1>1, QuietWalk
<1>3. PICK new \in Seq(FramesOfWalk), g \in FramesOfWalk, go \in BOOLEAN :
         /\ WalkIs(new, g, go)
         /\ g.dir = Top.dir /\ g.left = Top.left \ {name}
         /\ \/ out' = Queued(Top.names \cup {name}) /\ g.names = {}
            \/ out' = out /\ g.names = Top.names \cup {name}
  <2>1. \E new \in Seq(FramesOfWalk), g \in FramesOfWalk, go \in BOOLEAN :
         /\ WalkIs(new, g, go)
         /\ g.dir = Top.dir /\ g.left = Top.left \ {name}
         /\ At(<<Top.dir, name>>) =>
              \/ out' = Queued(Top.names \cup {name}) /\ g.names = {}
              \/ out' = out /\ g.names = Top.names \cup {name}
         /\ ~At(<<Top.dir, name>>) => out' = out /\ g.names = Top.names
    BY <1>2, ReadFileScan
  <2> QED
    BY <2>1
<1>4. /\ scan'.state = "walking" /\ scan'.frames = new /\ scan'.strays = 0
      /\ new # <<>> /\ Len(new) = Len(scan.frames)
      /\ \A i \in 1..Len(scan.frames) :
           new[i] = IF i = Len(scan.frames) THEN g ELSE scan.frames[i]
  BY <1>2, <1>3 DEF WalkIs
<1>0. /\ new \in Seq(FramesOfWalk) /\ g \in FramesOfWalk
      /\ g.dir = Top.dir /\ g.left = Top.left \ {name}
  BY <1>3
<1>5. \A dir, y : Unread(new, dir, y)
                    <=> Unread(scan.frames, dir, y) /\ ~(dir = Top.dir /\ y = name)
  <2>1. EntryRead(new, g, name)
    BY <1>0, <1>4 DEF EntryRead
  <2> QED
    BY <1>1, <1>2, <2>1, ReadUnread
<1>6. PICK place \in Places :
        place = <<Top.dir, name>> /\ place[1] = Top.dir /\ place[2] = name /\ place # Gone
  BY <1>1, <1>2, TopFrame, GoneAssumption DEF Places, FramesOfWalk
<1>7. PICK f \in Files : disk.at[f] = place /\ tab' = AddFile(tab, f, place) /\ ~Waits(events, f)
  BY <1>6 DEF ReadFile, At
<1>8. Top.dir \in tab.watched /\ Unread(scan.frames, Top.dir, name)
  <2>1. Len(scan.frames) \in 1..Len(scan.frames) /\ Top = scan.frames[Len(scan.frames)]
    BY <1>1, <1>2, TopFrame
  <2> QED
    BY <1>1, <1>2, <2>1 DEF WalkInv, Walks, Unread
<1>9. tab.entry[f] = Gone
  BY <1>2, <1>6, <1>7, <1>8 DEF QuietInv, UnreadUnlisted
<1>10. /\ tab'.watched = tab.watched
       /\ tab'.entry[f] = place /\ \A h \in Files : h # f => tab'.entry[h] = tab.entry[h]
  <2>1. PICK t \in Tables : t = tab
    BY <1>2 DEF TypeOK
  <2>2. /\ AddFile(t, f, place).watched = t.watched
        /\ AddFile(t, f, place).entry = [t.entry EXCEPT ![f] = place]
        /\ AddFile(t, f, place).count = [t.count EXCEPT ![place[2]] = @ + 1]
    BY AddFileFields
  <2>3. tab'.entry = [tab.entry EXCEPT ![f] = place] /\ tab'.watched = tab.watched
    BY <1>7, <2>1, <2>2
  <2> QED
    BY <2>1, <2>3 DEF Tables
<1>11. \A h \in Files : disk.at[h] # Gone /\ h # f =>
         (Unread(new, disk.at[h][1], disk.at[h][2])
            <=> Unread(scan.frames, disk.at[h][1], disk.at[h][2]))
  <2>1. ASSUME NEW h \in Files, disk.at[h] # Gone, h # f
        PROVE  ~(disk.at[h][1] = Top.dir /\ disk.at[h][2] = name)
    <3>1. disk.at[h] = <<disk.at[h][1], disk.at[h][2]>>
      BY <1>2, <2>1 DEF TypeOK, Somewhere, Places
    <3>2. disk.at[h] # place
      BY <1>2, <1>6, <1>7, <2>1 DEF WatchInv
    <3> QED
      BY <1>6, <3>1, <3>2
  <2> QED
    BY <1>5, <2>1
<1>12. \A d \in Subfolders : Unread(new, Root, d) <=> Unread(scan.frames, Root, d)
  BY <1>5, NamesAssumption DEF Subfolders
<1>13. Top.names \cup {name} \in SUBSET Names /\ Top.names \in SUBSET Names
  BY <1>1, <1>2, TopFrame DEF FramesOfWalk
<1>14. QueueOK(out') /\ \A n : InTheEnd(out', n) => InTheEnd(out, n) \/ n \in Top.names \cup {name}
  BY <1>2, <1>3, <1>13, QueuedEnd DEF WalkInv
<1>15. WatchInv'
  BY <1>1, <1>2, <1>4, <1>10 DEF WatchInv, Named
<1>16. WalkInv'
  <2>1. QueueOK(out)' /\ Named' /\ ~LockFree'
    BY <1>4, <1>14 DEF QueueOK, IsOutput, Named, LockFree
  <2>2. /\ \A i \in 1..Len(new) : new[i].dir = scan.frames[i].dir
        /\ Walks(new, tab.watched)
    BY <1>0, <1>1, <1>2, <1>4, ReadWalk
  <2>3. Walks(scan'.frames, tab'.watched)
    BY <1>4, <1>10, <2>2
  <2> QED
    BY <1>4, <2>1, <2>3 DEF WalkInv, Walks
<1>17. FilesFollow'
  <2>1. ASSUME NEW h \in Files, h # f
        PROVE  FileFollows(tab', disk.at, events, h, Unread(new, disk.at[h][1], disk.at[h][2]))
    <3>1. FileFollows(tab, disk.at, events, h, Unread(scan.frames, disk.at[h][1], disk.at[h][2]))
      BY <1>2 DEF FilesFollow
    <3> QED
      BY <1>10, <1>11, <2>1, <3>1, SameFile
  <2>2. FileFollows(tab', disk.at, events, f, Unread(new, disk.at[f][1], disk.at[f][2]))
    <3>1. events \in Seq(Events) /\ \A i \in 1..Len(events) : ~About(events[i], f)
      BY <1>2, <1>7, NoWaits DEF TypeOK
    <3>2. /\ tab'.entry[f] \in {Gone, disk.at[f]}
          /\ tab'.entry[f] # Gone => tab'.entry[f][1] \in tab'.watched
          /\ tab'.entry[f] = disk.at[f]
      BY <1>6, <1>7, <1>8, <1>10
    <3> QED
      BY <3>1, <3>2, NotWaiting
  <2>3. \A h \in Files : FileFollows(tab', disk'.at, events', h,
                                     Unread(scan'.frames, disk'.at[h][1], disk'.at[h][2]))
    BY <1>1, <1>4, <2>1, <2>2
  <2> QED
    BY <2>3 DEF FilesFollow
<1>18. DirsFollow'
  <2>1. ASSUME NEW d \in Subfolders
        PROVE  DirFollows(tab', disk.inside, events, d, Unread(new, Root, d))
    <3>1. DirFollows(tab, disk.inside, events, d, Unread(scan.frames, Root, d))
      BY <1>2 DEF DirsFollow
    <3> QED
      BY <1>10, <1>12, <3>1, SameDir
  <2>2. \A d \in Subfolders : DirFollows(tab', disk'.inside, events', d,
                                         Unread(scan'.frames, Root, d))
    BY <1>1, <1>4, <2>1
  <2> QED
    BY <2>2 DEF DirsFollow
<1>19. UnreadUnlisted'
  <2>1. ASSUME NEW h \in Files, disk.at[h] # Gone,
               Unread(new, disk.at[h][1], disk.at[h][2]), ~Waits(events, h)
        PROVE  tab'.entry[h] = Gone
    <3>1. h # f
      BY <1>5, <1>6, <1>7, <2>1
    <3> QED
      BY <1>2, <1>10, <1>11, <2>1, <3>1 DEF QuietInv, UnreadUnlisted
  <2> QED
    BY <1>1, <1>4, <2>1 DEF UnreadUnlisted, Waits
<1>20. \A n : Holders(tab, n) \subseteq Holders(tab', n)
  BY <1>9, <1>10 DEF Holders
<1>21. \A n \in Top.names \cup {name} : Holders(tab', n) # {}
  <2>1. \A n \in Top.names : Holders(tab, n) # {}
    BY <1>1, <1>2, TopFrame DEF QuietInv, BatchBacked
  <2>2. f \in Holders(tab', name)
    BY <1>6, <1>10 DEF Holders
  <2> QED
    BY <1>20, <2>1, <2>2
<1>22. BatchBacked'
  <2>1. ASSUME NEW i \in 1..Len(new), NEW n \in new[i].names
        PROVE  Holders(tab', n) # {}
    <3>1. CASE i = Len(scan.frames)
      <4>1. n \in Top.names \cup {name}
        BY <1>3, <1>4, <2>1, <3>1
      <4> QED
        BY <1>21, <4>1
    <3>2. CASE i # Len(scan.frames)
      BY <1>2, <1>4, <1>20, <2>1, <3>2 DEF QuietInv, BatchBacked
    <3> QED
      BY <3>1, <3>2
  <2> QED
    BY <1>4, <2>1 DEF BatchBacked, Holders
<1>23. Backed(tab', out')
  BY <1>2, <1>14, <1>20, <1>21 DEF QuietInv, Backed
<1>24. Counted(tab')
  BY <1>2, <1>7, <1>9, AddFileCounted DEF TypeOK, QuietInv
<1>25. Counted(tab)' /\ Backed(tab, out)'
  BY <1>23, <1>24, BackedNext, CountedNext
<1> QED
  BY <1>4, <1>15, <1>16, <1>17, <1>18, <1>19, <1>22, <1>25 DEF QuietInv

\* What reading an entry that is a folder relies on and does, whether it is entered or not.
LEMMA ReadDirectoryWalk ==
  ASSUME AgreeInv, NEW d \in Subfolders, ReadDirectory(d), quiet'
  PROVE  /\ quiet /\ UNCHANGED <<events, out, win>> /\ d \notin tab.watched
         /\ \E pop \in Seq(FramesOfWalk) :
              /\ scan'.state = "walking" /\ scan'.strays = 0
              /\ scan'.frames = IF d \in disk.inside \ tab.watched
                                THEN Append(pop, Frame(d)) ELSE pop
              /\ pop # <<>> /\ Len(pop) = Len(scan.frames)
              /\ \A i \in 1..Len(pop) : pop[i].names = scan.frames[i].names
              /\ Walks(pop, tab.watched)
              /\ \A i \in 1..Len(pop) : pop[i].dir # d
              /\ \A f \in Files : disk.at[f] # Gone =>
                   (Unread(pop, disk.at[f][1], disk.at[f][2])
                      <=> Unread(scan.frames, disk.at[f][1], disk.at[f][2]))
              /\ \A b \in Subfolders : b # d =>
                   (Unread(pop, Root, b) <=> Unread(scan.frames, Root, b))
              /\ \A i \in 1..Len(pop) : d \notin pop[i].left
<1>1. /\ ~LockFree /\ d \in Top.left /\ quiet
      /\ UNCHANGED <<events, out, win>>
  BY DEF ReadDirectory, EnterDirectory
<1>2. /\ TypeOK /\ ScanTypeOK /\ WatchInv /\ WalkInv
      /\ scan.state = "walking" /\ scan.strays = 0
  BY <1>1, QuietWalk
<1>3. PICK pop \in Seq(FramesOfWalk), g \in FramesOfWalk, go \in BOOLEAN :
         /\ pop # <<>> /\ Len(pop) = Len(scan.frames)
         /\ \A i \in 1..Len(scan.frames) :
              pop[i] = IF i = Len(scan.frames) THEN g ELSE scan.frames[i]
         /\ g.dir = Top.dir /\ g.left = Top.left \ {d} /\ g.names = Top.names
         /\ scan' = [state |-> scan.state,
                     frames |-> IF d \in disk.inside \ tab.watched
                                THEN Append(pop, Frame(d)) ELSE pop,
                     go |-> go, strays |-> scan.strays]
  BY <1>2, ReadDirectoryScan
<1>4. /\ pop \in Seq(FramesOfWalk) /\ g \in FramesOfWalk
      /\ pop # <<>> /\ Len(pop) = Len(scan.frames)
      /\ \A i \in 1..Len(scan.frames) :
           pop[i] = IF i = Len(scan.frames) THEN g ELSE scan.frames[i]
      /\ g.dir = Top.dir /\ g.left = Top.left \ {d} /\ g.names = Top.names
  BY <1>3
<1>5. PICK n \in Nat : n = Len(scan.frames) /\ n \in 1..n /\ Top = scan.frames[n]
  BY <1>1, <1>2, TopFrame
<1>6. d \notin tab.watched /\ Top.dir = Root /\ d \notin Names /\ d # Root
  <2>1. d \notin Names /\ d # Root
    BY NamesAssumption DEF Subfolders
  <2> QED
    BY <1>1, <1>2, <1>5, <2>1 DEF WalkInv, Walks
<1>7. \A dir, y : Unread(pop, dir, y)
                    <=> Unread(scan.frames, dir, y) /\ ~(dir = Top.dir /\ y = d)
  <2>1. EntryRead(pop, g, d)
    BY <1>4 DEF EntryRead
  <2> QED
    BY <1>1, <1>2, <2>1, ReadUnread
<1>8. /\ \A i \in 1..Len(pop) : pop[i].dir = scan.frames[i].dir
      /\ Walks(pop, tab.watched)
  BY <1>1, <1>2, <1>4, ReadWalk
<1>9. \A i \in 1..Len(pop) : pop[i].names = scan.frames[i].names
  BY <1>4, <1>5
<1>10. \A f \in Files : disk.at[f] # Gone =>
         (Unread(pop, disk.at[f][1], disk.at[f][2])
            <=> Unread(scan.frames, disk.at[f][1], disk.at[f][2]))
  <2>1. \A f \in Files : disk.at[f] # Gone => disk.at[f][2] # d
    BY <1>2, <1>6 DEF TypeOK, Somewhere, Places
  <2> QED
    BY <1>7, <2>1
<1>11. \A b \in Subfolders : b # d => (Unread(pop, Root, b) <=> Unread(scan.frames, Root, b))
  BY <1>7
<1>12. \A i \in 1..Len(pop) : pop[i].dir # d
  BY <1>6, <1>8 DEF Walks
<1>13. \A i \in 1..Len(pop) : d \notin pop[i].left
  <2>1. ASSUME NEW i \in 1..Len(pop), d \in pop[i].left PROVE FALSE
    <3>1. pop[i].dir = Root
      BY <1>6, <1>8, <2>1 DEF Walks
    <3>2. i = n
      BY <1>2, <1>4, <1>5, <1>6, <1>8, <3>1 DEF WalkInv, Walks
    <3> QED
      BY <1>4, <1>5, <2>1, <3>2
  <2> QED
    BY <2>1
<1>14. /\ scan'.state = "walking" /\ scan'.strays = 0
       /\ scan'.frames = IF d \in disk.inside \ tab.watched THEN Append(pop, Frame(d)) ELSE pop
  BY <1>2, <1>3
<1> QED
  BY <1>1, <1>4, <1>6, <1>8, <1>9, <1>10, <1>11, <1>12, <1>13, <1>14

\* A folder that is not there any more is passed over.  (In a quiet walk one that is to
\* be read is never watched.)
LEMMA PassedDirectoryAgrees ==
  ASSUME AgreeInv, NEW d \in Subfolders, ReadDirectory(d), quiet',
         d \notin disk.inside \ tab.watched
  PROVE  WatchInv' /\ WalkInv' /\ QuietInv'
<1>1. quiet /\ UNCHANGED <<events, out, win>> /\ d \notin tab.watched
  BY ReadDirectoryWalk
<1>2. UNCHANGED <<tab, disk, quiet>> /\ ~LockFree
  BY DEF ReadDirectory
<1>3. /\ TypeOK /\ Findable(tab) /\ ScanTypeOK /\ WatchInv /\ WalkInv /\ QuietInv
      /\ FilesFollow /\ DirsFollow /\ scan.state = "walking" /\ scan.strays = 0
      /\ win.mtt # "none"
  BY <1>1, <1>2, QuietWalk
<1>4. PICK pop \in Seq(FramesOfWalk) :
              /\ scan'.state = "walking" /\ scan'.strays = 0
              /\ scan'.frames = IF d \in disk.inside \ tab.watched
                                THEN Append(pop, Frame(d)) ELSE pop
              /\ pop # <<>> /\ Len(pop) = Len(scan.frames)
              /\ \A i \in 1..Len(pop) : pop[i].names = scan.frames[i].names
              /\ Walks(pop, tab.watched)
              /\ \A i \in 1..Len(pop) : pop[i].dir # d
              /\ \A f \in Files : disk.at[f] # Gone =>
                   (Unread(pop, disk.at[f][1], disk.at[f][2])
                      <=> Unread(scan.frames, disk.at[f][1], disk.at[f][2]))
              /\ \A b \in Subfolders : b # d =>
                   (Unread(pop, Root, b) <=> Unread(scan.frames, Root, b))
              /\ \A i \in 1..Len(pop) : d \notin pop[i].left
  BY ReadDirectoryWalk
<1>5. scan'.frames = pop /\ d \notin disk.inside
  BY <1>1, <1>4
<1>6. WatchInv'
  BY <1>1, <1>2, <1>3, <1>4 DEF WatchInv, Named
<1>7. WalkInv'
  <2>1. QueueOK(out)' /\ Named' /\ ~LockFree'
    BY <1>1, <1>3, <1>4, <1>5 DEF WalkInv, QueueOK, IsOutput, Named, LockFree
  <2>2. Walks(scan'.frames, tab'.watched)
    BY <1>2, <1>4, <1>5
  <2> QED
    BY <1>4, <2>1, <2>2 DEF WalkInv, Walks
<1>8. FilesFollow'
  <2>1. ASSUME NEW f \in Files
        PROVE  FileFollows(tab, disk.at, events, f, Unread(pop, disk.at[f][1], disk.at[f][2]))
    <3>1. FileFollows(tab, disk.at, events, f, Unread(scan.frames, disk.at[f][1], disk.at[f][2]))
      BY <1>3 DEF FilesFollow
    <3> QED
      BY <1>4, <3>1, SameFile
  <2>2. \A f \in Files : FileFollows(tab', disk'.at, events', f,
                                     Unread(scan'.frames, disk'.at[f][1], disk'.at[f][2]))
    BY <1>1, <1>2, <1>5, <2>1
  <2> QED
    BY <2>2 DEF FilesFollow
<1>9. DirsFollow'
  <2>1. ASSUME NEW b \in Subfolders
        PROVE  DirFollows(tab, disk.inside, events, b, Unread(pop, Root, b))
    <3>1. DirFollows(tab, disk.inside, events, b, Unread(scan.frames, Root, b))
      BY <1>3 DEF DirsFollow
    <3> QED
      BY <1>4, <1>5, <3>1, SameDir
  <2>2. \A b \in Subfolders : DirFollows(tab', disk'.inside, events', b,
                                         Unread(scan'.frames, Root, b))
    BY <1>1, <1>2, <1>5, <2>1
  <2> QED
    BY <2>2 DEF DirsFollow
<1>10. UnreadUnlisted'
  BY <1>1, <1>2, <1>3, <1>4, <1>5 DEF QuietInv, UnreadUnlisted, Waits
<1>11. BatchBacked'
  BY <1>2, <1>3, <1>4, <1>5 DEF QuietInv, BatchBacked, Holders
<1>12. Counted(tab)' /\ Backed(tab, out)'
  BY <1>1, <1>2, <1>3, EntriesBacked, CountedNext DEF QuietInv
<1> QED
  BY <1>4, <1>6, <1>7, <1>8, <1>9, <1>10, <1>11, <1>12 DEF QuietInv

\* A folder is entered of which no message waits: all that is in it is still to be read,
\* and only what a message will take away is listed.
LEMMA EnteredDirectoryAgrees ==
  ASSUME AgreeInv, NEW d \in Subfolders, ReadDirectory(d), quiet',
         d \in disk.inside \ tab.watched
  PROVE  WatchInv' /\ WalkInv' /\ QuietInv'
<1>1. quiet /\ UNCHANGED <<events, out, win>> /\ d \notin tab.watched
  BY ReadDirectoryWalk
<1>2. EnterDirectory(d) /\ ~LockFree
  BY DEF ReadDirectory
<1>3. /\ TypeOK /\ Findable(tab) /\ ScanTypeOK /\ WatchInv /\ WalkInv /\ QuietInv
      /\ FilesFollow /\ DirsFollow /\ scan.state = "walking" /\ scan.strays = 0
      /\ win.mtt # "none" /\ events \in Seq(Events)
  BY <1>1, <1>2, QuietWalk DEF TypeOK
<1>4. PICK pop \in Seq(FramesOfWalk) :
              /\ scan'.state = "walking" /\ scan'.strays = 0
              /\ scan'.frames = IF d \in disk.inside \ tab.watched
                                THEN Append(pop, Frame(d)) ELSE pop
              /\ pop # <<>> /\ Len(pop) = Len(scan.frames)
              /\ \A i \in 1..Len(pop) : pop[i].names = scan.frames[i].names
              /\ Walks(pop, tab.watched)
              /\ \A i \in 1..Len(pop) : pop[i].dir # d
              /\ \A f \in Files : disk.at[f] # Gone =>
                   (Unread(pop, disk.at[f][1], disk.at[f][2])
                      <=> Unread(scan.frames, disk.at[f][1], disk.at[f][2]))
              /\ \A b \in Subfolders : b # d =>
                   (Unread(pop, Root, b) <=> Unread(scan.frames, Root, b))
              /\ \A i \in 1..Len(pop) : d \notin pop[i].left
  BY ReadDirectoryWalk
<1>5. /\ tab'.watched = tab.watched \cup {d} /\ tab'.entry = tab.entry
      /\ tab'.count = tab.count
      /\ disk'.at = disk.at /\ disk'.inside = disk.inside
      /\ disk'.monitored = disk.monitored \cup {d}
      /\ ~WaitsInto(events, d)
  <2>1. /\ tab'.watched = tab.watched \cup {d} /\ tab'.entry = tab.entry
        /\ tab'.count = tab.count
        /\ disk'.at = disk.at /\ disk'.inside = disk.inside
        /\ disk'.monitored = disk.monitored \cup {d}
        /\ quiet' = (quiet /\ ~WaitsInto(events, d))
    BY <1>2, <1>3, EnterFields
  <2> QED
    BY <2>1
<1>6. d \in Dirs /\ d \notin Names /\ d # Root
  BY NamesAssumption DEF Subfolders
<1>7. PICK new : new = Append(pop, Frame(d))
  OBVIOUS
<1>8. PICK n \in Nat : n = Len(pop)
  BY <1>4
<1>9. /\ scan'.frames = new /\ new # <<>> /\ Len(new) = n + 1
      /\ \A i \in 1..n : new[i] = pop[i]
      /\ new[n + 1] = Frame(d)
      /\ Frame(d) \in FramesOfWalk
      /\ Frame(d).dir = d /\ Frame(d).names = {} /\ Frame(d).left = Names
  BY <1>4, <1>6, <1>7, <1>8, AppendedFrames, FrameType
<1>10. \A dir, y : Unread(new, dir, y) <=> Unread(pop, dir, y) \/ (dir = d /\ y \in Names)
  BY <1>4, <1>7, <1>9, EnteredUnread
<1>11. \A f \in Files : disk.at[f] # Gone => disk.at[f][2] \in Names
  BY <1>3 DEF TypeOK, Somewhere, Places
<1>12. \A i \in 1..Len(events) :
         /\ ~Goes(events[i], d) /\ ~Comes(events[i], d)
         /\ \A f : Puts(events[i], f) /\ events[i].to # Gone => events[i].to[1] # d
  BY <1>3, <1>5, NoWaits
<1>13. WatchInv'
  BY <1>1, <1>3, <1>4, <1>5, <1>6 DEF WatchInv, Named
<1>14. WalkInv'
  <2>1. QueueOK(out)' /\ Named' /\ ~LockFree'
    BY <1>1, <1>3, <1>4, <1>9 DEF WalkInv, QueueOK, IsOutput, Named, LockFree
  <2>2. \A i \in 1..n + 1 :
          /\ new[i].dir \in tab'.watched
          /\ new[i].left \cap tab'.watched = {}
          /\ new[i].dir # Root => new[i].left \subseteq Names
    <3>1. ASSUME NEW i \in 1..n PROVE  /\ new[i].dir \in tab'.watched
                                       /\ new[i].left \cap tab'.watched = {}
                                       /\ new[i].dir # Root => new[i].left \subseteq Names
      BY <1>4, <1>5, <1>8, <1>9, <3>1 DEF Walks
    <3>2. Names \cap tab'.watched = {}
      BY <1>3, <1>5, <1>6, NamesAssumption DEF TypeOK, Tables
    <3>3. \A i \in 1..n + 1 : i \in 1..n \/ i = n + 1
      OBVIOUS
    <3> QED
      BY <1>5, <1>9, <3>1, <3>2, <3>3
  <2>3. \A i, j \in 1..n + 1 : new[i].dir = new[j].dir => i = j
    <3>1. \A i \in 1..n : new[i].dir # d
      BY <1>4, <1>8, <1>9
    <3>2. \A i, j \in 1..n : new[i].dir = new[j].dir => i = j
      BY <1>4, <1>8, <1>9 DEF Walks
    <3> QED
      BY <1>9, <3>1, <3>2
  <2> QED
    BY <1>4, <1>9, <2>1, <2>2, <2>3 DEF WalkInv, Walks
<1>15. FilesFollow'
  <2>0. ASSUME NEW f \in Files, NEW w, NEW w2, FileFollows(tab, disk.at, events, f, w),
               disk.at[f] # Gone /\ disk.at[f][1] = d => w2, w => w2
        PROVE  FileFollows(tab', disk.at, events, f, w2)
    <3>1. \A i \in 1..Len(events) : Puts(events[i], f) /\ events[i].to # Gone => events[i].to[1] # d
      BY <1>12
    <3>2. /\ tab'.entry[f] = tab.entry[f] /\ tab'.watched = tab.watched \cup {d}
          /\ events \in Seq(Events)
      BY <1>3, <1>5
    <3> QED
      BY <2>0, <3>1, <3>2, FolderEntered
  <2>1. ASSUME NEW f \in Files
        PROVE  FileFollows(tab', disk.at, events, f, Unread(new, disk.at[f][1], disk.at[f][2]))
    <3>1. FileFollows(tab, disk.at, events, f, Unread(scan.frames, disk.at[f][1], disk.at[f][2]))
      BY <1>3 DEF FilesFollow
    <3>2. FileFollows(tab, disk.at, events, f, Unread(pop, disk.at[f][1], disk.at[f][2]))
      BY <1>4, <3>1, SameFile
    <3>3. /\ Unread(pop, disk.at[f][1], disk.at[f][2]) => Unread(new, disk.at[f][1], disk.at[f][2])
          /\ disk.at[f] # Gone /\ disk.at[f][1] = d => Unread(new, disk.at[f][1], disk.at[f][2])
      BY <1>10, <1>11
    <3> QED
      BY <2>0, <3>2, <3>3
  <2>2. \A f \in Files : FileFollows(tab', disk'.at, events', f,
                                     Unread(scan'.frames, disk'.at[f][1], disk'.at[f][2]))
    BY <1>1, <1>5, <1>9, <2>1
  <2> QED
    BY <2>2 DEF FilesFollow
<1>16. DirsFollow'
  <2>1. ASSUME NEW b \in Subfolders
        PROVE  DirFollows(tab', disk.inside, events, b, Unread(new, Root, b))
    <3>1. CASE b = d
      BY <1>5, <1>12, <3>1 DEF DirFollows
    <3>2. CASE b # d
      <4>1. DirFollows(tab, disk.inside, events, b, Unread(scan.frames, Root, b))
        BY <1>3 DEF DirsFollow
      <4>2. Unread(new, Root, b) <=> Unread(scan.frames, Root, b)
        BY <1>4, <1>6, <1>10, <3>2
      <4> QED
        BY <1>5, <1>6, <3>2, <4>1, <4>2, SameDir
    <3> QED
      BY <3>1, <3>2
  <2>2. \A b \in Subfolders : DirFollows(tab', disk'.inside, events', b,
                                         Unread(scan'.frames, Root, b))
    BY <1>1, <1>5, <1>9, <2>1
  <2> QED
    BY <2>2 DEF DirsFollow
<1>17. UnreadUnlisted'
  <2>1. ASSUME NEW f \in Files, disk.at[f] # Gone,
               Unread(new, disk.at[f][1], disk.at[f][2]), ~Waits(events, f)
        PROVE  tab.entry[f] = Gone
    <3>1. CASE disk.at[f][1] = d
      <4>1. FileFollows(tab, disk.at, events, f, Unread(scan.frames, disk.at[f][1], disk.at[f][2]))
        BY <1>3 DEF FilesFollow
      <4>2. \A i \in 1..Len(events) : ~About(events[i], f)
        BY <1>3, <2>1, NoWaits
      <4>3. /\ tab.entry[f] \in {Gone, disk.at[f]}
            /\ tab.entry[f] # Gone => tab.entry[f][1] \in tab.watched
        BY <1>3, <4>1, <4>2, NotWaiting
      <4> QED
        BY <1>1, <3>1, <4>3
    <3>2. CASE disk.at[f][1] # d
      BY <1>3, <1>4, <1>10, <2>1, <3>2 DEF QuietInv, UnreadUnlisted
    <3> QED
      BY <3>1, <3>2
  <2> QED
    BY <1>1, <1>5, <1>9, <2>1 DEF UnreadUnlisted, Waits
<1>18. BatchBacked'
  <2>1. ASSUME NEW i \in 1..n + 1, NEW x \in new[i].names
        PROVE  Holders(tab, x) # {}
    <3>1. i \in 1..n
      BY <1>9, <2>1
    <3> QED
      BY <1>3, <1>4, <1>8, <1>9, <2>1, <3>1 DEF QuietInv, BatchBacked
  <2> QED
    BY <1>5, <1>9, <2>1 DEF BatchBacked, Holders
<1>19. Counted(tab)' /\ Backed(tab, out)'
  BY <1>1, <1>3, <1>5, EntriesBacked DEF QuietInv, Counted, Holders
<1> QED
  BY <1>4, <1>13, <1>14, <1>15, <1>16, <1>17, <1>18, <1>19 DEF QuietInv

\* A folder is left when nothing in it is to be read.
LEMMA LeaveFrames ==
  ASSUME WindowTypeOK, Named, ~LockFree, LeaveDirectory
  PROVE  \E rest \in Seq(FramesOfWalk) :
           /\ Len(scan.frames) = Len(rest) + 1
           /\ \A i \in 1..Len(rest) : rest[i] = scan.frames[i]
           /\ scan'.frames = rest /\ scan'.strays = scan.strays
           /\ scan'.state = IF rest = <<>> THEN "none" ELSE "walking"
           /\ win'.mtt = win.mtt /\ win'.sharing = win.sharing
<1>0. ScanTypeOK /\ scan.state = "walking" /\ Returned
  BY DEF WindowTypeOK, Named, LeaveDirectory
<1>1. PICK fr : fr = scan.frames
  OBVIOUS
<1>2. fr \in Seq(FramesOfWalk) /\ fr # <<>>
  BY <1>0, <1>1 DEF ScanTypeOK, LockFree
<1>3. PICK rest : rest = SubSeq(fr, 1, Len(fr) - 1)
  OBVIOUS
<1>4. /\ Len(fr) \in Nat /\ Len(fr) >= 1 /\ rest \in Seq(FramesOfWalk)
      /\ Len(rest) = Len(fr) - 1
      /\ \A i \in 1..Len(fr) - 1 : rest[i] = fr[i]
  BY <1>2, <1>3, ShorterFrames
<1>5. /\ Len(fr) = 1 =>
           /\ scan' = [state |-> IF Named THEN "none" ELSE scan.state, frames |-> <<>>,
                       go |-> FALSE, strays |-> scan.strays]
           /\ Reported
      /\ Len(fr) # 1 =>
           /\ scan' = [state |-> scan.state, frames |-> rest, go |-> Named,
                       strays |-> scan.strays]
           /\ UNCHANGED win
  BY <1>0, <1>1, <1>3, ReturnedScan
<1>6. CASE Len(fr) = 1
  <2>1. rest = <<>>
    BY <1>4, <1>6
  <2>2. win' = [win EXCEPT !.reports = @ + 1]
    BY <1>5, <1>6 DEF Reported
  <2>3. win'.mtt = win.mtt /\ win'.sharing = win.sharing
    BY <2>2 DEF WindowTypeOK
  <2>4. scan' = [state |-> "none", frames |-> <<>>, go |-> FALSE, strays |-> scan.strays]
    BY <1>5, <1>6
  <2>5. scan'.frames = rest /\ scan'.state = "none" /\ scan'.strays = scan.strays
    BY <2>1, <2>4
  <2>6. Len(scan.frames) = Len(rest) + 1 /\ \A i \in 1..Len(rest) : rest[i] = scan.frames[i]
    BY <1>1, <1>4
  <2> QED
    BY <1>4, <2>1, <2>3, <2>5, <2>6
<1>7. CASE Len(fr) # 1
  <2>1. rest # <<>>
    BY <1>4, <1>7
  <2> QED
    BY <1>0, <1>1, <1>4, <1>5, <1>7, <2>1
<1> QED
  BY <1>6, <1>7

\* So leaving it loses nothing, and its last chunk is of listed files.
LEMMA LeaveAgrees ==
  ASSUME AgreeInv, LeaveDirectory, quiet'
  PROVE  WatchInv' /\ WalkInv' /\ QuietInv'
<1>1. /\ ~LockFree /\ Top.left = {} /\ quiet /\ out' = Queued(Top.names)
      /\ UNCHANGED <<disk, events, tab>>
  BY DEF LeaveDirectory
<1>2. /\ TypeOK /\ Findable(tab) /\ ScanTypeOK /\ WatchInv /\ WalkInv /\ QuietInv
      /\ FilesFollow /\ DirsFollow /\ scan.state = "walking" /\ scan.strays = 0
      /\ win.mtt # "none"
  BY <1>1, QuietWalk
<1>3. PICK rest \in Seq(FramesOfWalk) :
           /\ Len(scan.frames) = Len(rest) + 1
           /\ \A i \in 1..Len(rest) : rest[i] = scan.frames[i]
           /\ scan'.frames = rest /\ scan'.strays = scan.strays
           /\ scan'.state = IF rest = <<>> THEN "none" ELSE "walking"
           /\ win'.mtt = win.mtt /\ win'.sharing = win.sharing
  <2>1. WindowTypeOK /\ Named
    BY <1>2 DEF AgreeInv, WindowInv, Named
  <2> QED
    BY <1>1, <2>1, LeaveFrames
<1>4. PICK n \in Nat : n = Len(rest)
  BY <1>3
<1>5. Top = scan.frames[n + 1] /\ Len(scan.frames) = n + 1 /\ n + 1 \in 1..n + 1
      /\ \A i \in 1..n : i \in 1..n + 1
  BY <1>3, <1>4 DEF Top
<1>6. \A dir, y : Unread(rest, dir, y) <=> Unread(scan.frames, dir, y)
  <2>1. \A dir, y : Unread(rest, dir, y) <=>
          \E i \in 1..n : scan.frames[i].dir = dir /\ y \in scan.frames[i].left
    BY <1>3, <1>4 DEF Unread
  <2>2. \A dir, y : Unread(scan.frames, dir, y) <=>
          \E i \in 1..n + 1 : scan.frames[i].dir = dir /\ y \in scan.frames[i].left
    BY <1>5 DEF Unread
  <2>3. \A i \in 1..n + 1 : i \in 1..n \/ i = n + 1
    OBVIOUS
  <2> QED
    BY <1>1, <1>5, <2>1, <2>2, <2>3
<1>7. Top.names \in SUBSET Names
  BY <1>1, <1>2, TopFrame DEF FramesOfWalk
<1>8. QueueOK(out') /\ \A x : InTheEnd(out', x) => InTheEnd(out, x) \/ x \in Top.names
  BY <1>1, <1>2, <1>7, QueuedEnd DEF WalkInv
<1>9. Root \in tab.watched
  BY <1>2 DEF WatchInv, Named
<1>10. WatchInv'
  BY <1>1, <1>2, <1>3, <1>9 DEF WatchInv, Named
<1>11. WalkInv'
  <2>1. QueueOK(out)'
    BY <1>8 DEF QueueOK, IsOutput
  <2>2. Named' <=> ~LockFree'
    BY <1>3 DEF Named, LockFree
  <2>3. Walks(rest, tab.watched)
    BY <1>2, <1>3, <1>4, <1>5 DEF WalkInv, Walks
  <2>4. Walks(scan'.frames, tab'.watched)
    BY <1>1, <1>3, <2>3
  <2> QED
    BY <1>2, <1>3, <2>1, <2>2, <2>4 DEF WalkInv, Walks
<1>12. FilesFollow'
  <2>1. ASSUME NEW f \in Files
        PROVE  FileFollows(tab, disk.at, events, f, Unread(rest, disk.at[f][1], disk.at[f][2]))
    <3>1. FileFollows(tab, disk.at, events, f, Unread(scan.frames, disk.at[f][1], disk.at[f][2]))
      BY <1>2 DEF FilesFollow
    <3> QED
      BY <1>6, <3>1, SameFile
  <2>2. \A f \in Files : FileFollows(tab', disk'.at, events', f,
                                     Unread(scan'.frames, disk'.at[f][1], disk'.at[f][2]))
    BY <1>1, <1>3, <2>1
  <2> QED
    BY <2>2 DEF FilesFollow
<1>13. DirsFollow'
  <2>1. ASSUME NEW d \in Subfolders
        PROVE  DirFollows(tab, disk.inside, events, d, Unread(rest, Root, d))
    <3>1. DirFollows(tab, disk.inside, events, d, Unread(scan.frames, Root, d))
      BY <1>2 DEF DirsFollow
    <3> QED
      BY <1>6, <3>1, SameDir
  <2>2. \A d \in Subfolders : DirFollows(tab', disk'.inside, events', d,
                                         Unread(scan'.frames, Root, d))
    BY <1>1, <1>3, <2>1
  <2> QED
    BY <2>2 DEF DirsFollow
<1>14. UnreadUnlisted'
  BY <1>1, <1>2, <1>3, <1>6 DEF QuietInv, UnreadUnlisted, Waits
<1>15. BatchBacked'
  <2>1. ASSUME NEW i \in 1..n, NEW x \in rest[i].names
        PROVE  Holders(tab, x) # {}
    BY <1>2, <1>3, <1>4, <1>5, <2>1 DEF QuietInv, BatchBacked
  <2> QED
    BY <1>1, <1>3, <1>4, <2>1 DEF BatchBacked, Holders
<1>16. Backed(tab', out')
  <2>1. \A x \in Top.names : Holders(tab, x) # {}
    BY <1>2, <1>5 DEF QuietInv, BatchBacked
  <2> QED
    BY <1>1, <1>2, <1>8, <2>1 DEF QuietInv, Backed, Holders
<1>17. Counted(tab)' /\ Backed(tab, out)'
  BY <1>1, <1>2, <1>16, BackedNext, CountedNext DEF QuietInv
<1> QED
  BY <1>1, <1>9, <1>10, <1>11, <1>12, <1>13, <1>14, <1>15, <1>17 DEF QuietInv

\* A step of the walk; in a quiet one there are no strays.
LEMMA ScanAgrees == AgreeInv /\ ScanThread => AgreeInv'
<1> SUFFICES ASSUME AgreeInv, ScanThread PROVE AgreeInv'
  OBVIOUS
<1>1. FindInv' /\ WindowInv'
  BY ScanFind, ScanWindow DEF AgreeInv
<1> SUFFICES ASSUME quiet' PROVE WatchInv' /\ WalkInv' /\ QuietInv'
  BY <1>1 DEF AgreeInv
<1>2. CASE StartScan
  BY <1>2, StartAgrees
<1>3. ASSUME NEW n \in Names, ReadFile(n)
      PROVE  WatchInv' /\ WalkInv' /\ QuietInv'
  BY <1>3, ReadNothingAgrees, ReadFileAgrees
<1>4. ASSUME NEW d \in Subfolders, ReadDirectory(d)
      PROVE  WatchInv' /\ WalkInv' /\ QuietInv'
  BY <1>4, PassedDirectoryAgrees, EnteredDirectoryAgrees
<1>5. CASE LeaveDirectory
  BY <1>5, LeaveAgrees
<1>6. CASE StrayStarts \/ StrayAborts
  <2>1. quiet
    BY <1>6 DEF StrayStarts, StrayAborts, EnterDirectory
  <2>2. WalkInv
    BY <2>1 DEF AgreeInv
  <2>3. scan.strays = 0 /\ (Named <=> ~LockFree)
    BY <2>2 DEF WalkInv
  <2> QED
    BY <1>6, <2>3 DEF StrayStarts, StrayAborts
<1> QED
  BY <1>2, <1>3, <1>4, <1>5, <1>6 DEF ScanThread

-----------------------------------------------------------------------------
(* The looper *)

\* While the shared folder is not watched, messages do nothing.
LEMMA IdleHandled ==
  ASSUME NEW s, s.tab.watched = {}, \A f \in Files : s.tab.entry[f] = Gone, NEW e \in Events
  PROVE  Handled(s, e) = s
<1>1. ASSUME NEW f \in Files PROVE FileRemoved(s, f) = s
  BY DEF FileRemoved
<1>2. \A f, p : FileCreated(s, f, p) = s
  BY DEF FileCreated
<1>3. CASE e.op \in {"created", "moved", "removed"}
  <2>1. e.node \in Files
    BY <1>3 DEF Events
  <2> QED
    BY <1>1, <1>2, <1>3, <2>1 DEF Handled
<1>4. CASE e.op = "dirOut"
  BY <1>4 DEF Handled
<1>5. CASE e.op = "dirIn"
  BY <1>5 DEF Handled
<1> QED
  BY <1>3, <1>4, <1>5 DEF Events

\* The shared folder stays watched.
LEMMA HandledRoot ==
  ASSUME TypeOK, NEW s, s.tab \in Tables, Findable(s.tab), win.mtt # "none",
         Root \in s.tab.watched, NEW e \in Events
  PROVE  Root \in Handled(s, e).tab.watched
<1>1. ASSUME NEW x, x.tab \in Tables, Findable(x.tab), NEW f \in Files
      PROVE  FileRemoved(x, f).tab.watched = x.tab.watched
  <2>1. CASE x.tab.entry[f] = Gone
    BY <2>1 DEF FileRemoved
  <2>2. CASE x.tab.entry[f] # Gone
    BY <1>1, <2>2, FileRemovedFields
  <2> QED
    BY <2>1, <2>2
<1>2. ASSUME NEW x, x.tab \in Tables, NEW f \in Files, NEW place
      PROVE  FileCreated(x, f, place).tab.watched = x.tab.watched
  <2>1. CASE place # Gone /\ place[1] \in x.tab.watched /\ At(place)
    <3>1. PICK p \in Places : p = place
      BY <2>1 DEF At, TypeOK, Somewhere
    <3>2. PICK t \in Tables : t = x.tab
      BY <1>2
    <3>3. FileCreated(x, f, place).tab = AddFile(t, f, p)
      BY <2>1, <3>1, <3>2 DEF FileCreated
    <3>4. /\ AddFile(t, f, p).watched = t.watched
          /\ AddFile(t, f, p).entry = [t.entry EXCEPT ![f] = p]
          /\ AddFile(t, f, p).count = [t.count EXCEPT ![p[2]] = @ + 1]
      BY AddFileFields
    <3> QED
      BY <3>2, <3>3, <3>4
  <2>2. CASE ~(place # Gone /\ place[1] \in x.tab.watched /\ At(place))
    BY <2>2 DEF FileCreated
  <2> QED
    BY <2>1, <2>2
<1>3. CASE e.op \in {"created", "moved", "removed"}
  <2>1. e.node \in Files
    BY <1>3 DEF Events
  <2>2. PICK s1 : s1 = FileRemoved(s, e.node)
    OBVIOUS
  <2>3. s1.tab \in Tables /\ s1.tab.watched = s.tab.watched
    BY <1>1, <2>1, <2>2, FileRemovedFindable
  <2>4. Handled(s, e) \in {s1, FileCreated(s, e.node, e.to), FileCreated(s1, e.node, e.to)}
    BY <1>3, <2>2 DEF Handled
  <2> QED
    BY <1>2, <2>1, <2>3, <2>4
<1>4. CASE e.op \in {"dirOut", "dirIn"}
  <2>1. e.node # Root
    BY <1>4 DEF Events, Subfolders
  <2>2. \A x, d : /\ DirRemoved(x, d).tab.watched = x.tab.watched \ {d}
                  /\ DirCreated(x, d).tab.watched = x.tab.watched \cup {d}
    BY DEF DirRemoved, DirCreated
  <2> QED
    BY <1>4, <2>1, <2>2 DEF Handled
<1> QED
  BY <1>3, <1>4 DEF Events

\* The count's runner has nothing to do with the connection.
LEMMA RunnerFields ==
  ASSUME WindowTypeOK, NEW t
  PROVE  /\ StartFileCountRunner(win, t).mtt = win.mtt
         /\ StartFileCountRunner(win, t).sharing = win.sharing
<1>1. CASE win.runner
  BY <1>1 DEF StartFileCountRunner
<1>2. CASE ~win.runner
  <2>1. PICK u : u = UploadSharedFileCount(win, t, FALSE)
    OBVIOUS
  <2>2. u = [mtt |-> win.mtt, sharing |-> win.sharing, reports |-> win.reports,
             lastSent |-> u.lastSent, runner |-> u.runner, commands |-> win.commands]
    BY <2>1, UploadCount DEF WindowTypeOK
  <2>3. PICK l, k : u = [mtt |-> win.mtt, sharing |-> win.sharing, reports |-> win.reports,
                         lastSent |-> l, runner |-> k, commands |-> win.commands]
    BY <2>2
  <2>4. StartFileCountRunner(win, t) = [u EXCEPT !.runner = TRUE]
    BY <1>2, <2>1 DEF StartFileCountRunner
  <2>5. /\ [u EXCEPT !.runner = TRUE].mtt = win.mtt
        /\ [u EXCEPT !.runner = TRUE].sharing = win.sharing
    BY <2>3
  <2> QED
    BY <2>4, <2>5
<1> QED
  BY <1>1, <1>2

\* With sharing disabled the message is dropped; nothing is read any more.
LEMMA IgnoredAgrees ==
  ASSUME AgreeInv, NodeMonitor, ~win.sharing, quiet'
  PROVE  WatchInv' /\ WalkInv' /\ QuietInv'
<1>1. UNCHANGED <<tab, out, win, disk, scan>> /\ LockFree /\ quiet
  BY DEF NodeMonitor
<1>2. WatchInv /\ WalkInv /\ QuietInv /\ ~Named
  BY <1>1 DEF AgreeInv, WalkInv
<1>3. scan.frames = <<>> /\ \A i : i \notin 1..Len(scan.frames)
  BY <1>1 DEF LockFree
<1>4. WatchInv'
  BY <1>1, <1>2 DEF WatchInv, Named
<1>5. WalkInv'
  BY <1>1, <1>2, <1>3 DEF WalkInv, Walks, Named, LockFree, QueueOK, IsOutput
<1>6. Counted(tab)' /\ Backed(tab, out)'
  BY <1>1, <1>2, EntriesBacked, CountedNext DEF QuietInv
<1>7. UnreadUnlisted' /\ BatchBacked'
  BY <1>1, <1>3 DEF UnreadUnlisted, Unread, BatchBacked
<1> QED
  BY <1>1, <1>2, <1>4, <1>5, <1>6, <1>7 DEF QuietInv, Named

\* B_NODE_MONITOR: the tables follow the disk but for the messages that remain.
LEMMA HeededAgrees ==
  ASSUME AgreeInv, NodeMonitor, win.sharing, quiet'
  PROVE  WatchInv' /\ WalkInv' /\ QuietInv'
<1> DEFINE u == Handled([tab |-> tab, out |-> out], Head(events))
<1>1. /\ events # <<>> /\ LockFree /\ events' = Tail(events) /\ scan' = scan
      /\ tab' = u.tab
      /\ out' = IF win.mtt = "none" THEN out ELSE u.out
      /\ win' = StartFileCountRunner(win, u.tab)
      /\ disk' = [disk EXCEPT !.monitored = @ \cup u.tab.watched]
      /\ quiet /\ Unexpected(u.tab.watched \ tab.watched, Tail(events))
  BY DEF NodeMonitor, Unexpected
<1>2. PICK s : s = [tab |-> tab, out |-> out]
  OBVIOUS
<1>3. s.tab = tab /\ s.out = out
  BY <1>2
<1>4. /\ TypeOK /\ Findable(tab) /\ WindowTypeOK /\ WatchInv /\ WalkInv /\ QuietInv
      /\ FilesFollow /\ DirsFollow /\ ~Named
      /\ tab \in Tables /\ events \in Seq(Events)
  BY <1>1 DEF AgreeInv, FindInv, WindowInv, WalkInv, QuietInv, TypeOK
<1>5. Head(events) = events[1] /\ events[1] \in Events
  BY <1>1, <1>4, TailEvents
<1>6. u = Handled(s, events[1])
  BY <1>2, <1>5
<1> HIDE DEF u
<1>7. scan.frames = <<>> /\ \A i : i \notin 1..Len(scan.frames)
  BY <1>1 DEF LockFree
<1>8. win'.mtt = win.mtt /\ win'.sharing = win.sharing
  BY <1>1, <1>4, RunnerFields
<1>9. /\ disk'.at = disk.at /\ disk'.inside = disk.inside
      /\ disk'.monitored = disk.monitored \cup u.tab.watched
  BY <1>1, <1>4 DEF TypeOK
<1>10. ASSUME NEW f \in Files PROVE FileFollows(tab, disk.at, events, f, FALSE)
  <2>1. FileFollows(tab, disk.at, events, f, Unread(scan.frames, disk.at[f][1], disk.at[f][2]))
    BY <1>4 DEF FilesFollow
  <2>2. Unread(scan.frames, disk.at[f][1], disk.at[f][2]) <=> FALSE
    BY <1>7 DEF Unread
  <2> QED
    BY <2>1, <2>2, SameFile
<1>11. ASSUME NEW d \in Subfolders PROVE DirFollows(tab, disk.inside, events, d, FALSE)
  <2>1. DirFollows(tab, disk.inside, events, d, Unread(scan.frames, Root, d))
    BY <1>4 DEF DirsFollow
  <2>2. Unread(scan.frames, Root, d) <=> FALSE
    BY <1>7 DEF Unread
  <2> QED
    BY <2>1, <2>2, SameDir
<1>12. Follows(s.tab, events) /\ Sound(s) /\ Findable(s.tab)
  BY <1>3, <1>4, <1>10, <1>11 DEF Follows, Sound, QuietInv, WalkInv
<1>13. Root \notin tab.watched => u = s
  <2>1. SUFFICES ASSUME Root \notin tab.watched PROVE u = s
    OBVIOUS
  <2>2. s.tab.watched = {} /\ \A f \in Files : s.tab.entry[f] = Gone
    BY <1>3, <1>4, <2>1 DEF WatchInv
  <2> QED
    BY <1>5, <1>6, <2>2, IdleHandled
<1>14. win.mtt = "none" => Root \notin tab.watched
  BY <1>4 DEF WatchInv
<1>15. Root \in tab.watched => Root \in u.tab.watched
  BY <1>3, <1>4, <1>5, <1>6, <1>14, HandledRoot
<1>16. Sound(u) /\ out' = u.out
  <2>1. CASE win.mtt = "none"
    BY <1>1, <1>3, <1>12, <1>13, <1>14, <2>1
  <2>2. CASE win.mtt # "none"
    BY <1>1, <1>3, <1>4, <1>6, <1>12, <2>2, HandledFollows
  <2> QED
    BY <2>1, <2>2
<1>17. Root \in tab.watched => Follows(u.tab, Tail(events))
  BY <1>1, <1>3, <1>4, <1>6, <1>12, <1>14, HandledFollows
<1>18. Root \notin tab.watched => tab'.watched = {} /\ \A f \in Files : tab'.entry[f] = Gone
  BY <1>1, <1>3, <1>4, <1>13 DEF WatchInv
<1>19. WatchInv'
  <2>1. CASE Root \in tab.watched
    BY <1>1, <1>4, <1>8, <1>9, <1>15, <2>1 DEF WatchInv, Named
  <2>2. CASE Root \notin tab.watched
    BY <1>1, <1>4, <1>8, <1>9, <1>18, <2>2 DEF WatchInv, Named
  <2> QED
    BY <2>1, <2>2
<1>20. WalkInv'
  <2>1. QueueOK(out)'
    BY <1>16 DEF Sound, QueueOK, IsOutput
  <2> QED
    BY <1>1, <1>4, <1>7, <2>1 DEF WalkInv, Walks, Named, LockFree
<1>21. FilesFollow'
  <2>1. ASSUME NEW f \in Files, NEW w PROVE FileFollows(tab', disk.at, Tail(events), f, w)
    <3>1. CASE Root \in tab.watched
      <4>1. FileFollows(tab', disk.at, Tail(events), f, FALSE)
        BY <1>1, <1>17, <3>1 DEF Follows
      <4> QED
        BY <4>1 DEF FileFollows, Found
    <3>2. CASE Root \notin tab.watched
      BY <1>18, <3>2, NothingListed
    <3> QED
      BY <3>1, <3>2
  <2>2. \A f \in Files : FileFollows(tab', disk'.at, events', f,
                                     Unread(scan'.frames, disk'.at[f][1], disk'.at[f][2]))
    BY <1>1, <1>9, <2>1
  <2> QED
    BY <2>2 DEF FilesFollow
<1>22. DirsFollow'
  <2>1. ASSUME NEW d \in Subfolders, NEW w
        PROVE  DirFollows(tab', disk.inside, Tail(events), d, w)
    <3>1. CASE Root \in tab.watched
      <4>1. DirFollows(tab', disk.inside, Tail(events), d, FALSE)
        BY <1>1, <1>17, <3>1 DEF Follows
      <4> QED
        BY <4>1 DEF DirFollows
    <3>2. CASE Root \notin tab.watched
      BY <1>18, <3>2, NoDirWatched
    <3> QED
      BY <3>1, <3>2
  <2>2. \A d \in Subfolders : DirFollows(tab', disk'.inside, events', d,
                                         Unread(scan'.frames, Root, d))
    BY <1>1, <1>9, <2>1
  <2> QED
    BY <2>2 DEF DirsFollow
<1>23. UnreadUnlisted' /\ BatchBacked'
  BY <1>1, <1>7 DEF UnreadUnlisted, Unread, BatchBacked
<1>24. Counted(tab)' /\ Backed(tab, out)'
  BY <1>1, <1>16, BackedNext, CountedNext DEF Sound
<1>25. win'.mtt = "connected" /\ win'.sharing => scan'.state # "none" \/ Root \in tab'.watched
  BY <1>1, <1>4, <1>8, <1>15 DEF QuietInv
<1> QED
  BY <1>19, <1>20, <1>21, <1>22, <1>23, <1>24, <1>25 DEF QuietInv

\* In a quiet state the looper's abort leaves no thread behind.
LEMMA QuietAborted ==
  ASSUME AgreeInv, quiet
  PROVE  Aborted = NoScan
<1>1. ScanTypeOK /\ scan.strays = 0 /\ (Named <=> ~LockFree)
  BY DEF AgreeInv, WindowInv, WindowTypeOK, WalkInv
<1>2. Aborted = [state |-> "none", frames |-> IF Named THEN <<>> ELSE scan.frames,
                 go |-> IF Named THEN FALSE ELSE scan.go, strays |-> scan.strays]
  BY <1>1, AbortedScan
<1>3. CASE Named
  BY <1>1, <1>2, <1>3 DEF NoScan
<1>4. CASE ~Named
  <2>1. scan.frames = <<>> /\ scan.go = FALSE
    BY <1>1, <1>4 DEF ScanTypeOK, LockFree
  <2> QED
    BY <1>1, <1>2, <1>4, <2>1 DEF NoScan
<1> QED
  BY <1>3, <1>4

\* Everything is unwatched and dropped from the server, if there was anything, and a scan
\* of a connection with sharing on is to start.
LEMMA Emptied ==
  ASSUME AgreeInv, quiet',
         UnwatchAllDirs \/ (win.mtt = "none" /\ UNCHANGED <<tab, disk>>),
         QueueOK(out'), out'.server = {}, out'.low = <<>>,
         UNCHANGED <<events, quiet>>,
         scan'.frames = <<>>, scan'.strays = 0, scan'.state \in {"none", "started"},
         win'.mtt = "connected" /\ win'.sharing => scan'.state = "started"
  PROVE  WatchInv' /\ WalkInv' /\ QuietInv'
<1>0. TypeOK /\ WatchInv /\ WalkInv /\ QuietInv /\ events' = events
  BY DEF AgreeInv, FindInv
<1>1. /\ tab'.watched = {} /\ \A f \in Files : tab'.entry[f] = Gone
      /\ Counted(tab')
  <2>1. CASE UnwatchAllDirs
    BY <2>1, EmptyCounted DEF UnwatchAllDirs, EmptyTables
  <2>2. CASE win.mtt = "none" /\ UNCHANGED <<tab, disk>>
    BY <1>0, <2>2 DEF WatchInv, QuietInv
  <2> QED
    BY <2>1, <2>2
<1>2. disk'.at = disk.at /\ disk'.inside = disk.inside
  BY <1>0 DEF UnwatchAllDirs, TypeOK
<1>3. \A i : i \notin 1..Len(scan'.frames)
  OBVIOUS
<1>4. WatchInv'
  BY <1>0, <1>1, <1>2, <1>3 DEF WatchInv, Named
<1>5. WalkInv'
  <2>1. QueueOK(out)'
    BY DEF QueueOK, IsOutput
  <2> QED
    BY <1>3, <2>1 DEF WalkInv, Walks, Named, LockFree
<1>6. FilesFollow'
  <2>1. \A f \in Files : FileFollows(tab', disk'.at, events', f,
                                     Unread(scan'.frames, disk'.at[f][1], disk'.at[f][2]))
    BY <1>1, NothingListed
  <2> QED
    BY <2>1 DEF FilesFollow
<1>7. DirsFollow'
  <2>1. \A d \in Subfolders : DirFollows(tab', disk'.inside, events', d,
                                         Unread(scan'.frames, Root, d))
    BY <1>1, NoDirWatched
  <2> QED
    BY <2>1 DEF DirsFollow
<1>8. UnreadUnlisted' /\ BatchBacked'
  BY <1>1, <1>3 DEF UnreadUnlisted, BatchBacked
<1>9. Counted(tab)'
  BY <1>1, CountedNext
<1>10. \A n : ~InTheEnd(out', n)
  BY NothingEnds
<1>11. Backed(tab, out)'
  BY <1>10 DEF Backed, InTheEnd
<1> QED
  BY <1>4, <1>5, <1>6, <1>7, <1>8, <1>9, <1>11 DEF QuietInv

\* RemoveFileSharing() on a connection, and without one: nothing is there.
LEMMA RemovedOutput ==
  ASSUME AgreeInv, quiet,
         \/ RemoveFileSharing
         \/ win.mtt = "none" /\ out' = out
         \/ out' = Removed
  PROVE  QueueOK(out') /\ out'.server = {} /\ out'.low = <<>>
<1>0. /\ IsOutput(out) /\ out.sending \in BOOLEAN /\ QueueOK(out)
      /\ win.mtt = "none" => out.server = {} /\ out.low = <<>>
  BY DEF AgreeInv, WalkInv, QueueOK, WindowInv, NothingInv, Empty
<1>1. CASE out' = Removed
  BY <1>1 DEF Removed, QueueOK, IsOutput
<1>2. CASE out' = out /\ win.mtt = "none"
  BY <1>0, <1>2
<1>3. CASE win.mtt # "none" /\ RemoveFileSharing
  <2>1. out' = [server |-> {}, low |-> <<>>, sending |-> out.sending]
    BY <1>0, <1>3 DEF RemoveFileSharing, IsOutput
  <2> QED
    BY <1>0, <2>1 DEF QueueOK, IsOutput
<1> QED
  BY <1>1, <1>2, <1>3 DEF RemoveFileSharing

\* ReuploadFiles(): everything is dropped, and a scan starts if there is a connection.
LEMMA ReuploadAgrees ==
  ASSUME AgreeInv, quiet', ReuploadFiles, UNCHANGED <<events, quiet>>,
         win.mtt = "none" => win'.mtt = "none"
  PROVE  WatchInv' /\ WalkInv' /\ QuietInv'
<1>0. quiet /\ Aborted = NoScan
  BY QuietAborted
<1>1. CASE win.mtt = "none"
  <2>1. scan' = NoScan /\ UNCHANGED <<tab, disk, out>>
    BY <1>0, <1>1 DEF ReuploadFiles
  <2>2. QueueOK(out') /\ out'.server = {} /\ out'.low = <<>>
    BY <1>0, <1>1, <2>1, RemovedOutput
  <2>3. scan'.frames = <<>> /\ scan'.strays = 0 /\ scan'.state = "none"
    BY <2>1 DEF NoScan
  <2> QED
    BY <1>1, <2>1, <2>2, <2>3, Emptied
<1>2. CASE win.mtt # "none"
  <2>1. RemoveFileSharing /\ scan' = [NoScan EXCEPT !.state = "started"]
    BY <1>0, <1>2 DEF ReuploadFiles
  <2>2. QueueOK(out') /\ out'.server = {} /\ out'.low = <<>>
    BY <1>0, <2>1, RemovedOutput
  <2>3. UnwatchAllDirs
    BY <2>1 DEF RemoveFileSharing
  <2>4. scan'.frames = <<>> /\ scan'.strays = 0 /\ scan'.state = "started"
    BY <2>1 DEF NoScan
  <2> QED
    BY <2>2, <2>3, <2>4, Emptied
<1> QED
  BY <1>1, <1>2

\* ConnectToServer() and DisconnectFromServer().
LEMMA ConnectionAgrees ==
  ASSUME AgreeInv, quiet', NEW mtt \in {"none", "connecting"}, SetConnection(mtt), Disconnected
  PROVE  WatchInv' /\ WalkInv' /\ QuietInv'
<1>1. WindowTypeOK
  BY DEF AgreeInv, WindowInv
<1>2. win'.mtt = mtt
  BY <1>1 DEF SetConnection, WindowTypeOK
<1>3. /\ UnwatchAllDirs \/ (win.mtt = "none" /\ UNCHANGED <<tab, disk>>)
      /\ out' = Removed /\ scan' = Aborted /\ UNCHANGED <<events, quiet>> /\ quiet
  BY DEF Disconnected
<1>4. QueueOK(out') /\ out'.server = {} /\ out'.low = <<>>
  BY <1>3, RemovedOutput
<1>5. scan'.frames = <<>> /\ scan'.strays = 0 /\ scan'.state = "none"
  BY <1>3, QuietAborted DEF NoScan
<1> QED
  BY <1>2, <1>3, <1>4, <1>5, Emptied

\* SetFileSharingEnabled().
LEMMA EnabledAgrees ==
  ASSUME AgreeInv, quiet', SetFileSharingEnabled
  PROVE  WatchInv' /\ WalkInv' /\ QuietInv'
<1>0. WindowTypeOK
  BY DEF AgreeInv, WindowInv
<1> DEFINE w == [win EXCEPT !.sharing = ~@, !.commands = @ + 1, !.reports = AbortedReports]
<1>1. PICK v : v = w
  OBVIOUS
<1>2. v = [mtt |-> win.mtt, sharing |-> ~win.sharing, reports |-> AbortedReports,
           lastSent |-> win.lastSent, runner |-> win.runner, commands |-> win.commands + 1]
  BY <1>0, <1>1, SharingToggled DEF WindowTypeOK
<1>3. /\ IF w.sharing THEN ReuploadFiles /\ win' = w
         ELSE RemoveFileSharing /\ scan' = Aborted
              /\ win' = UploadSharedFileCount(w, EmptyTables, Aborted.frames # <<>>)
      /\ UNCHANGED <<events, quiet>> /\ quiet
  BY DEF SetFileSharingEnabled
<1> HIDE DEF w
<1>4. CASE v.sharing
  <2>1. ReuploadFiles /\ win'.mtt = win.mtt
    BY <1>1, <1>2, <1>3, <1>4
  <2> QED
    BY <1>3, <2>1, ReuploadAgrees
<1>5. CASE ~v.sharing
  <2>0. PICK locked \in BOOLEAN : locked = (Aborted.frames # <<>>)
    OBVIOUS
  <2>1. RemoveFileSharing /\ scan' = Aborted /\ win' = UploadSharedFileCount(v, EmptyTables, locked)
    BY <1>1, <1>3, <1>5, <2>0
  <2>2. /\ v.sharing \in BOOLEAN /\ v.runner \in BOOLEAN
        /\ v = [mtt |-> v.mtt, sharing |-> v.sharing, reports |-> v.reports,
                lastSent |-> v.lastSent, runner |-> v.runner, commands |-> v.commands]
    BY <1>0, <1>2 DEF WindowTypeOK
  <2>3. win' = [mtt |-> v.mtt, sharing |-> v.sharing, reports |-> v.reports,
                lastSent |-> win'.lastSent, runner |-> win'.runner, commands |-> v.commands]
    BY <2>1, <2>2, UploadCount
  <2>4. ~win'.sharing
    BY <1>5, <2>3
  <2>5. QueueOK(out') /\ out'.server = {} /\ out'.low = <<>> /\ UnwatchAllDirs
    BY <1>3, <2>1, RemovedOutput DEF RemoveFileSharing
  <2>6. scan'.frames = <<>> /\ scan'.strays = 0 /\ scan'.state = "none"
    BY <1>3, <2>1, QuietAborted DEF NoScan
  <2> QED
    BY <1>3, <2>4, <2>5, <2>6, Emptied
<1> QED
  BY <1>4, <1>5

\* A new window record that leaves the connection and the setting alone.
LEMMA WindowOnly ==
  ASSUME AgreeInv, quiet', UNCHANGED <<disk, events, tab, out, scan, quiet>>,
         win'.sharing = win.sharing,
         win'.mtt = win.mtt \/ (win'.mtt = "connected" /\ ~win.sharing)
  PROVE  WatchInv' /\ WalkInv' /\ QuietInv'
<1>0. WatchInv /\ WalkInv /\ QuietInv /\ NothingInv
  BY DEF AgreeInv, WindowInv
<1>1. WatchInv'
  BY <1>0 DEF WatchInv, Named
<1>2. WalkInv'
  BY <1>0 DEF WalkInv, Walks, Named, LockFree, QueueOK, IsOutput
<1>3. /\ FilesFollow => FilesFollow'
      /\ DirsFollow => DirsFollow'
  BY DEF FilesFollow, DirsFollow, FileFollows, DirFollows, Separate, Overtaken, InWatched,
         Found, Listing, Unread
<1>4. UnreadUnlisted' /\ BatchBacked' /\ Counted(tab)' /\ Backed(tab, out)'
  BY <1>0, EntriesBacked
     DEF QuietInv, UnreadUnlisted, Unread, Waits, BatchBacked, Counted, Holders
<1> QED
  BY <1>0, <1>1, <1>2, <1>3, <1>4 DEF QuietInv, Named

\* MTT_EVENT_SESSION_CONNECTED.
LEMMA ConnectedAgrees ==
  ASSUME AgreeInv, quiet', SessionConnected
  PROVE  WatchInv' /\ WalkInv' /\ QuietInv'
<1>0. WindowTypeOK
  BY DEF AgreeInv, WindowInv
<1>1. CASE win.sharing
  <2>1. ReuploadFiles /\ win.mtt # "none" /\ UNCHANGED <<events, quiet>>
    BY <1>1 DEF SessionConnected
  <2> QED
    BY <2>1, ReuploadAgrees
<1>2. CASE ~win.sharing
  <2>1. /\ UNCHANGED <<disk, events, tab, out, scan, quiet>>
        /\ win' = [win EXCEPT !.mtt = "connected"]
    BY <1>2 DEF SessionConnected
  <2>2. win'.mtt = "connected" /\ win'.sharing = win.sharing
    BY <1>0, <2>1 DEF WindowTypeOK
  <2> QED
    BY <1>2, <2>1, <2>2, WindowOnly
<1> QED
  BY <1>1, <1>2

\* SetFirewalled().
LEMMA FirewalledAgrees ==
  ASSUME AgreeInv, quiet', SetFirewalled
  PROVE  WatchInv' /\ WalkInv' /\ QuietInv'
<1>1. ReuploadFiles /\ win.mtt # "none" /\ UNCHANGED <<events, quiet>>
  BY DEF SetFirewalled
<1> QED
  BY <1>1, ReuploadAgrees

\* The runner's message.
LEMMA CountAgrees ==
  ASSUME AgreeInv, quiet', CheckFileCount
  PROVE  WatchInv' /\ WalkInv' /\ QuietInv'
<1>0. WindowTypeOK
  BY DEF AgreeInv, WindowInv
<1>1. PICK locked \in BOOLEAN : locked = ~LockFree
  BY DEF LockFree
<1>2. /\ UNCHANGED <<disk, events, tab, out, scan, quiet>>
      /\ win' = UploadSharedFileCount(win, tab, locked)
  BY <1>1 DEF CheckFileCount
<1>3. win' = [mtt |-> win.mtt, sharing |-> win.sharing, reports |-> win.reports,
              lastSent |-> win'.lastSent, runner |-> win'.runner, commands |-> win.commands]
  BY <1>0, <1>2, UploadCount DEF WindowTypeOK
<1>4. win'.mtt = win.mtt /\ win'.sharing = win.sharing
  BY <1>3
<1> QED
  BY <1>2, <1>4, WindowOnly

\* A report that takes the name of another scan ends the quiet.
LEMMA ReportAgrees ==
  ASSUME AgreeInv, quiet', ScanThreadReport
  PROVE  WatchInv' /\ WalkInv' /\ QuietInv'
<1>0. WindowTypeOK /\ ScanTypeOK
  BY DEF AgreeInv, WindowInv, WindowTypeOK
<1> DEFINE w == [win EXCEPT !.reports = @ - 1]
<1>1. PICK v : v = w
  OBVIOUS
<1>2. v = [mtt |-> win.mtt, sharing |-> win.sharing, reports |-> win.reports - 1,
           lastSent |-> win.lastSent, runner |-> win.runner, commands |-> win.commands]
  BY <1>0, <1>1 DEF WindowTypeOK
<1>3. PICK locked \in BOOLEAN : locked = ~LockFree
  BY DEF LockFree
<1>4. /\ UNCHANGED <<disk, events, tab, out, quiet>> /\ scan' = NameTaken
      /\ win' = UploadSharedFileCount(v, tab, locked) /\ scan.state = "none"
  BY <1>1, <1>3 DEF ScanThreadReport
<1>5. scan' = scan
  <2>1. NameTaken = [state |-> "none", frames |-> scan.frames, go |-> scan.go,
                     strays |-> IF scan.state = "started" THEN scan.strays + 1
                                ELSE scan.strays]
    BY <1>0, AbortedScan
  <2> QED
    BY <1>0, <1>4, <2>1 DEF ScanTypeOK
<1>6. /\ v.sharing \in BOOLEAN /\ v.runner \in BOOLEAN
      /\ v = [mtt |-> v.mtt, sharing |-> v.sharing, reports |-> v.reports,
              lastSent |-> v.lastSent, runner |-> v.runner, commands |-> v.commands]
  BY <1>0, <1>2 DEF WindowTypeOK
<1>7. win' = [mtt |-> v.mtt, sharing |-> v.sharing, reports |-> v.reports,
              lastSent |-> win'.lastSent, runner |-> win'.runner, commands |-> v.commands]
  BY <1>4, <1>6, UploadCount
<1>8. win'.mtt = win.mtt /\ win'.sharing = win.sharing
  BY <1>2, <1>7
<1> QED
  BY <1>4, <1>5, <1>8, WindowOnly

\* What the queue's first message changes on the server it was going to change.
LEMMA FirstSent ==
  ASSUME NEW o, QueueOK(o), o.low # <<>>, NEW p,
         p.server = Applied(o.server, Head(o.low)), p.low = Tail(o.low), NEW n, InTheEnd(p, n)
  PROVE  InTheEnd(o, n)
<1>1. o.low \in Seq(Messages)
  BY DEF QueueOK
<1>2. PICK k \in Nat : Len(o.low) = k + 1
  <2>1. Len(o.low) \in Nat /\ Len(o.low) # 0
    BY <1>1
  <2>2. Len(o.low) - 1 \in Nat /\ Len(o.low) = (Len(o.low) - 1) + 1
    BY <2>1
  <2> QED
    BY <2>2
<1>3. /\ Len(p.low) = k /\ \A i \in 1..k : p.low[i] = o.low[i + 1]
      /\ Head(o.low) = o.low[1] /\ o.low[1] \in Messages
  BY <1>1, <1>2
<1>4. PICK i \in 0..k :
        /\ IF i = 0 THEN n \in p.server ELSE p.low[i].op = "set" /\ n \in p.low[i].names
        /\ \A j \in 1..k : i < j => ~(p.low[j].op = "remove" /\ n \in p.low[j].names)
  BY <1>3 DEF InTheEnd
<1>5. \A j \in 2..k + 1 : i + 1 < j => ~(o.low[j].op = "remove" /\ n \in o.low[j].names)
  <2> SUFFICES ASSUME NEW j \in 2..k + 1, i + 1 < j
               PROVE  ~(o.low[j].op = "remove" /\ n \in o.low[j].names)
    OBVIOUS
  <2>1. j - 1 \in 1..k /\ i < j - 1 /\ p.low[j - 1] = o.low[j]
    BY <1>3
  <2> QED
    BY <1>4, <2>1
<1>6. CASE i # 0
  <2>1. o.low[i + 1].op = "set" /\ n \in o.low[i + 1].names
    BY <1>3, <1>4, <1>6
  <2>2. \A j \in 1..k + 1 : i + 1 < j => ~(o.low[j].op = "remove" /\ n \in o.low[j].names)
    BY <1>5
  <2>3. i + 1 \in 0..k + 1 /\ i + 1 # 0
    BY <1>6
  <2> QED
    BY <1>2, <2>1, <2>2, <2>3 DEF InTheEnd
<1>7. CASE i = 0 /\ o.low[1].op = "set" /\ n \in o.low[1].names
  <2>1. \A j \in 1..k + 1 : 1 < j => ~(o.low[j].op = "remove" /\ n \in o.low[j].names)
    BY <1>5, <1>7
  <2>2. 1 \in 0..k + 1
    OBVIOUS
  <2> QED
    BY <1>2, <1>7, <2>1, <2>2 DEF InTheEnd
<1>8. CASE i = 0 /\ ~(o.low[1].op = "set" /\ n \in o.low[1].names)
  <2>1. n \in o.server /\ ~(o.low[1].op = "remove" /\ n \in o.low[1].names)
    BY <1>3, <1>4, <1>8 DEF Applied, Messages
  <2>2. \A j \in 1..k + 1 : 0 < j => ~(o.low[j].op = "remove" /\ n \in o.low[j].names)
    BY <1>5, <1>8, <2>1
  <2>3. 0 \in 0..k + 1
    OBVIOUS
  <2> QED
    BY <1>2, <2>1, <2>2, <2>3 DEF InTheEnd
<1> QED
  BY <1>6, <1>7, <1>8

\* MTT_EVENT_OUTPUT_QUEUES_DRAINED: what is on the server in the end stays the same.
LEMMA DrainedAgrees ==
  ASSUME AgreeInv, quiet', Drained
  PROVE  WatchInv' /\ WalkInv' /\ QuietInv'
<1>1. UNCHANGED <<disk, events, tab, scan, win, quiet>>
  BY DEF Drained
<1>0. WatchInv /\ WalkInv /\ QuietInv /\ QueueOK(out)
  BY <1>1 DEF AgreeInv, WalkInv
<1>2. QueueOK(out') /\ \A n : InTheEnd(out', n) => InTheEnd(out, n)
  <2>1. CASE out.low = <<>>
    <3>1. out' = [server |-> out.server, low |-> <<>>, sending |-> FALSE]
      BY <1>0, <2>1 DEF Drained, QueueOK, IsOutput
    <3>2. out'.server = out.server /\ out'.low = out.low /\ QueueOK(out')
      BY <2>1, <3>1 DEF QueueOK, IsOutput
    <3> QED
      BY <3>2 DEF InTheEnd
  <2>2. CASE out.low # <<>>
    <3>1. PICK o : o = out
      OBVIOUS
    <3>2. QueueOK(o) /\ o.low # <<>> /\ out.sending
      BY <1>0, <2>2, <3>1 DEF Drained
    <3>3. out' = [server |-> Applied(o.server, Head(o.low)), low |-> Tail(o.low),
                  sending |-> o.sending]
      BY <2>2, <3>1, <3>2 DEF Drained, QueueOK, IsOutput
    <3>4. /\ out'.server = Applied(o.server, Head(o.low)) /\ out'.low = Tail(o.low)
          /\ out'.sending = o.sending /\ o.sending
      BY <3>1, <3>2, <3>3
    <3>5. Tail(o.low) \in Seq(Messages)
      BY <3>2 DEF QueueOK
    <3>6. QueueOK(out')
      BY <3>3, <3>4, <3>5 DEF QueueOK, IsOutput
    <3> QED
      BY <3>1, <3>2, <3>4, <3>6, FirstSent
  <2> QED
    BY <2>1, <2>2
<1>3. WatchInv'
  BY <1>0, <1>1 DEF WatchInv, Named
<1>4. WalkInv'
  <2>1. QueueOK(out)'
    BY <1>2 DEF QueueOK, IsOutput
  <2> QED
    BY <1>0, <1>1, <2>1 DEF WalkInv, Walks, Named, LockFree
<1>5. /\ FilesFollow => FilesFollow'
      /\ DirsFollow => DirsFollow'
  BY <1>1 DEF FilesFollow, DirsFollow, FileFollows, DirFollows, Separate, Overtaken, InWatched,
              Found, Listing, Unread
<1>6. UnreadUnlisted' /\ BatchBacked'
  BY <1>0, <1>1 DEF QuietInv, UnreadUnlisted, Unread, Waits, BatchBacked, Holders
<1>7. Counted(tab') /\ Backed(tab', out')
  BY <1>0, <1>1, <1>2 DEF QuietInv, Backed
<1>8. Counted(tab)' /\ Backed(tab, out)'
  BY <1>7, BackedNext, CountedNext
<1> QED
  BY <1>0, <1>1, <1>3, <1>4, <1>5, <1>6, <1>8 DEF QuietInv, Named

\* Every handler keeps the invariant.
LEMMA LooperAgrees == AgreeInv /\ Looper => AgreeInv'
<1> SUFFICES ASSUME AgreeInv, Looper PROVE AgreeInv'
  OBVIOUS
<1>1. FindInv' /\ WindowInv'
  BY LooperFind, NextWindow DEF AgreeInv, FindInv, Next
<1> SUFFICES ASSUME quiet' PROVE WatchInv' /\ WalkInv' /\ QuietInv'
  BY <1>1 DEF AgreeInv
<1>2. ASSUME ConnectToServer \/ DisconnectFromServer
      PROVE  WatchInv' /\ WalkInv' /\ QuietInv'
  BY <1>2, ConnectionAgrees DEF ConnectToServer, DisconnectFromServer
<1> QED
  BY <1>2, IgnoredAgrees, HeededAgrees, DrainedAgrees, CountAgrees, ReportAgrees,
     ConnectedAgrees, EnabledAgrees, FirewalledAgrees DEF Looper

\* So does every step.
LEMMA NextAgrees == AgreeInv /\ [Next]_vars => AgreeInv'
<1>1. ASSUME AgreeInv, UNCHANGED vars PROVE AgreeInv'
  <2>1. FindInv' /\ WindowInv'
    BY <1>1, NextFind, NextWindow DEF AgreeInv, FindInv
  <2>2. UNCHANGED <<disk, events, tab, out, scan, quiet>> /\ win' = win
    BY <1>1 DEF vars
  <2>3. ASSUME quiet' PROVE WatchInv' /\ WalkInv' /\ QuietInv'
    BY <1>1, <2>2, <2>3, WindowOnly
  <2> QED
    BY <2>1, <2>3 DEF AgreeInv
<1> QED
  BY <1>1, DiskAgrees, ScanAgrees, LooperAgrees DEF Next

LEMMA InitAgrees == Init => AgreeInv
<1> SUFFICES ASSUME Init PROVE AgreeInv
  OBVIOUS
<1>1. FindInv /\ WindowInv
  BY InitFind, InitWindow
<1>2. /\ tab = EmptyTables /\ tab.watched = {} /\ \A f \in Files : tab.entry[f] = Gone
      /\ events = <<>> /\ scan.frames = <<>> /\ scan.state = "none" /\ scan.strays = 0
      /\ win.mtt = "none" /\ quiet = TRUE
      /\ out = [server |-> {}, low |-> <<>>, sending |-> FALSE]
  BY DEF Init, EmptyTables, NoScan, Removed
<1>3. \A i : i \notin 1..Len(scan.frames)
  BY <1>2
<1>4. WatchInv
  <2>1. Root \in disk.inside /\ \A f \in Files : disk.at[f] = Gone
    BY RootAssumption DEF Init
  <2> QED
    BY <1>2, <2>1 DEF WatchInv, Named
<1>5. WalkInv
  <2>1. QueueOK(out)
    BY <1>2 DEF QueueOK, IsOutput
  <2>2. Walks(scan.frames, tab.watched)
    BY <1>3 DEF Walks
  <2> QED
    BY <1>2, <2>1, <2>2 DEF WalkInv, Named, LockFree
<1>6. QuietInv
  <2>1. FilesFollow
    BY <1>2, NothingListed DEF FilesFollow
  <2>2. DirsFollow
    BY <1>2, NoDirWatched DEF DirsFollow
  <2>3. UnreadUnlisted /\ BatchBacked
    BY <1>2, <1>3 DEF UnreadUnlisted, BatchBacked
  <2>4. out.server = {} /\ out.low = <<>>
    BY <1>2
  <2>5. Counted(tab) /\ Backed(tab, out)
    BY <1>2, <2>4, EmptyCounted, NothingEnds DEF Backed
  <2> QED
    BY <1>2, <2>1, <2>2, <2>3, <2>5 DEF QuietInv
<1> QED
  BY <1>1, <1>4, <1>5, <1>6 DEF AgreeInv

LEMMA AgreeInvariant == Spec => []AgreeInv
BY InitAgrees, NextAgrees, PTL DEF Spec

\* RefFilename() and UnrefFilename() are paired: the count of a name in _nameToEntry is the
\* number of its files in _nodeToEntry, so that the name leaves the index, and the count the
\* others see, with its last file.  What quiet excludes: a folder entered while a message
\* about it, or about a file put into it, waits; a file read while a message about it waits;
\* and the running scan losing its name to an old report.
THEOREM CountsExactHolds == Spec => []CountsExact
<1>1. AgreeInv => CountsExact
  <2> SUFFICES ASSUME AgreeInv, quiet, NEW name \in Names
               PROVE  Cardinality(Listed(name)) = tab.count[name]
    BY DEF CountsExact
  <2>1. Counted(tab)
    BY DEF AgreeInv, QuietInv
  <2>2. Listed(name) = Holders(tab, name)
    BY DEF Listed, Holders
  <2> QED
    BY <2>1, <2>2 DEF Counted
<1> QED
  BY <1>1, AgreeInvariant, PTL

\* Once the node monitor's messages, the scan and the low-priority queue have settled,
\* AddWatchedDirectory(), NodeCreated() and NodeRemoved() have listed every file of the
\* watched folders at its place, and every name that the server offers has a file there,
\* however the disk changed during the scan, but for what quiet excludes (see above).
THEOREM IndexAgreesHolds == Spec => []IndexAgrees
<1>1. AgreeInv => IndexAgrees
  <2> SUFFICES ASSUME AgreeInv, Settled, win.sharing, quiet
               PROVE  /\ \A f \in Files : disk.at[f] # Gone /\ disk.at[f][1] \in disk.inside
                           => tab.entry[f] = disk.at[f]
                      /\ out.server \subseteq SharedNames
    BY DEF IndexAgrees
  <2>1. /\ TypeOK /\ WatchInv /\ WalkInv /\ QuietInv /\ events = <<>> /\ out.low = <<>>
        /\ win.mtt = "connected" /\ scan.state = "none" /\ scan.frames = <<>>
    BY DEF AgreeInv, FindInv, Settled, NoScan
  <2>2. FilesFollow /\ DirsFollow /\ Backed(tab, out) /\ Root \in tab.watched
    BY <2>1 DEF QuietInv
  <2>3. \A dir, x : ~Unread(scan.frames, dir, x)
    BY <2>1 DEF Unread
  <2>4. \A f \in Files :
          /\ tab.entry[f] \in {Gone, disk.at[f]}
          /\ tab.entry[f] # Gone => tab.entry[f][1] \in tab.watched
          /\ disk.at[f] # Gone /\ disk.at[f][1] \in tab.watched => tab.entry[f] = disk.at[f]
    BY <2>1, <2>2, <2>3, NothingWaits DEF FilesFollow
  <2>5. \A d \in Subfolders : d \in tab.watched <=> d \in disk.inside
    BY <2>1, <2>2, <2>3, NoDirWaits DEF DirsFollow
  <2>6. tab.watched = disk.inside
    <3>1. tab.watched \subseteq Dirs /\ disk.inside \subseteq Dirs
      BY <2>1 DEF TypeOK, Tables
    <3>2. Root \in disk.inside
      BY <2>1 DEF WatchInv
    <3> QED
      BY <2>2, <2>5, <3>1, <3>2 DEF Subfolders
  <2>7. ASSUME NEW n \in out.server PROVE n \in SharedNames
    <3>1. InTheEnd(out, n)
      BY <2>1, <2>7 DEF InTheEnd
    <3>2. PICK f \in Files : tab.entry[f] # Gone /\ tab.entry[f][2] = n
      BY <2>2, <3>1 DEF Backed, Holders
    <3>3. disk.at[f] # Gone /\ disk.at[f][1] \in disk.inside /\ disk.at[f][2] = n
      BY <2>4, <2>6, <3>2
    <3> QED
      BY <3>3 DEF SharedNames, NamesIn, FilesIn
  <2> QED
    BY <2>4, <2>6, <2>7
<1> QED
  BY <1>1, AgreeInvariant, PTL
=============================================================================
