---------------------------- MODULE DirTreeProofs ----------------------------
(***************************************************************************)
(* DirTree's safety properties, for any number of tasks and objects,       *)
(* whatever directories they share, and for any number of faults; and that *)
(* the workspace is used as AbstractWorkspace says.                        *)
(***************************************************************************)
EXTENDS DirTree, SequenceTheorems, TLAPS

-----------------------------------------------------------------------------
(* Sequences: a last element more, and a last element less. *)

LEMMA Longer ==
  ASSUME NEW S, NEW s \in Seq(S), NEW e \in S
  PROVE  /\ Append(s, e) \in Seq(S) /\ Len(Append(s, e)) = Len(s) + 1
         /\ \A i \in 1 .. Len(s) : Append(s, e)[i] = s[i]
         /\ Append(s, e)[Len(s) + 1] = e
         /\ Front(Append(s, e)) = s /\ Last(Append(s, e)) = e
         /\ Append(s, e) # <<>>
  BY DEF Front, Last

LEMMA Shorter ==
  ASSUME NEW S, NEW s \in Seq(S), s # <<>>
  PROVE  /\ Front(s) \in Seq(S) /\ Last(s) \in S /\ s = Append(Front(s), Last(s))
         /\ Len(Front(s)) = Len(s) - 1 /\ Len(s) \in Nat \ {0}
         /\ \A i \in 1 .. Len(s) - 1 : Front(s)[i] = s[i]
         /\ Last(s) = s[Len(s)]
<1>1. Len(s) \in Nat \ {0} /\ \A i \in 1 .. Len(s) : s[i] \in S
  BY EmptySeq, ElementOfSeq
<1>2. s = Append(Front(s), Last(s))
  BY DEF Front, Last
<1>3. /\ Front(s) \in Seq(S) /\ Len(Front(s)) = Len(s) - 1
      /\ \A i \in 1 .. Len(s) - 1 : Front(s)[i] = s[i]
  <2> DEFINE m == Len(s) - 1
  <2>1. m \in Nat /\ 1 \in Int /\ m \in Int /\ \A i \in 1 .. m : s[i] \in S
    BY <1>1
  <2>2. /\ SubSeq(s, 1, m) \in Seq(S)
        /\ Len(SubSeq(s, 1, m)) = IF 1 <= m THEN m - 1 + 1 ELSE 0
        /\ \A i \in 1 .. m - 1 + 1 : SubSeq(s, 1, m)[i] = s[1 + i - 1]
    BY <2>1, SubSeqProperties
  <2> HIDE DEF m
  <2>3. /\ SubSeq(s, 1, m) \in Seq(S) /\ Len(SubSeq(s, 1, m)) = m
        /\ \A i \in 1 .. m : SubSeq(s, 1, m)[i] = s[i]
    BY <2>1, <2>2
  <2> QED
    BY <2>3 DEF m, Front
<1> QED
  BY <1>1, <1>2, <1>3 DEF Last

\* The beginnings of a path of four names.
LEMMA Beginnings ==
  ASSUME NEW S, NEW a \in S, NEW b \in S, NEW c \in S, NEW d \in S
  PROVE  /\ SubSeq(<<a, b, c, d>>, 1, 1) = <<a>>
         /\ SubSeq(<<a, b, c, d>>, 1, 2) = <<a, b>>
         /\ SubSeq(<<a, b, c, d>>, 1, 3) = <<a, b, c>>
         /\ SubSeq(<<a, b, c>>, 1, 1) = <<a>>
         /\ SubSeq(<<a, b, c>>, 1, 2) = <<a, b>>
         /\ SubSeq(<<a, b, c>>, 1, 3) = <<a, b, c>>
         /\ SubSeq(<<a, b>>, 1, 1) = <<a>>
         /\ SubSeq(<<a, b>>, 1, 2) = <<a, b>>
         /\ SubSeq(<<a>>, 1, 1) = <<a>>
<1> DEFINE p4 == <<a, b, c, d>>  p3 == <<a, b, c>>  p2 == <<a, b>>  p1 == <<a>>
<1>1. /\ p4 \in Seq(S) /\ p3 \in Seq(S) /\ p2 \in Seq(S) /\ p1 \in Seq(S)
      /\ Len(p4) = 4 /\ Len(p3) = 3 /\ Len(p2) = 2 /\ Len(p1) = 1
      /\ p4[1] = a /\ p4[2] = b /\ p4[3] = c /\ p4[4] = d
      /\ p3[1] = a /\ p3[2] = b /\ p3[3] = c /\ p2[1] = a /\ p2[2] = b /\ p1[1] = a
  OBVIOUS
<1> HIDE DEF p4, p3, p2, p1
<1>2. ASSUME NEW s \in Seq(S), NEW n \in 1 .. Len(s)
      PROVE  /\ SubSeq(s, 1, n) \in Seq(S) /\ Len(SubSeq(s, 1, n)) = n
             /\ \A i \in 1 .. n : SubSeq(s, 1, n)[i] = s[i]
  BY SubSeqProperties
<1>3. ASSUME NEW s \in Seq(S), NEW t \in Seq(S), Len(t) \in 1 .. Len(s),
             \A i \in 1 .. Len(t) : s[i] = t[i]
      PROVE  SubSeq(s, 1, Len(t)) = t
  <2> DEFINE u == SubSeq(s, 1, Len(t))
  <2>1. u \in Seq(S) /\ Len(u) = Len(t) /\ \A i \in 1 .. Len(u) : u[i] = t[i]
    BY <1>2, <1>3
  <2> QED
    BY <2>1, SeqEqual
<1>4. SubSeq(p4, 1, 1) = p1 /\ SubSeq(p3, 1, 1) = p1 /\ SubSeq(p2, 1, 1) = p1
      /\ SubSeq(p1, 1, 1) = p1
  BY <1>1, <1>3
<1>5. SubSeq(p4, 1, 2) = p2 /\ SubSeq(p3, 1, 2) = p2 /\ SubSeq(p2, 1, 2) = p2
  BY <1>1, <1>3
<1>6. SubSeq(p4, 1, 3) = p3 /\ SubSeq(p3, 1, 3) = p3
  BY <1>1, <1>3
<1> QED
  BY <1>4, <1>5, <1>6 DEF p4, p3, p2, p1

-----------------------------------------------------------------------------
(* Paths. *)

DirName == {"dir"} \X Nat
ObjName == {"obj"} \X Clients \X (Nat \X Nat)

\* What a path is made of, and the name of a call that has no directory yet.
Name == DirName \cup ObjName \cup {Strange, Link, <<"home">>, <<"elsewhere">>, <<>>}

LEMMA Indices == DOMAIN ObjIds = 1 .. Len(ObjIds) /\ Len(ObjIds) \in Nat \ {0}
  BY DirTreeAssumption

LEMMA NameTypes ==
  ASSUME NEW c \in Clients, NEW i \in DOMAIN ObjIds
  PROVE  /\ Dir(c[2]) \in DirName /\ Dir(c[1]) \in DirName /\ Dir(ObjIds[i][1]) \in DirName
         /\ <<"obj", c, ObjIds[i]>> \in ObjName
<1>1. c \in Nat \X Nat /\ ObjIds[i] \in Nat \X Nat
  BY DirTreeAssumption
<1>2. c[1] \in Nat /\ c[2] \in Nat /\ ObjIds[i][1] \in Nat
  BY <1>1
<1> QED
  BY <1>1, <1>2 DEF Dir, DirName, ObjName

LEMMA NamesApart ==
  /\ DirName \cap ObjName = {} /\ Strange \notin DirName /\ Strange \notin ObjName
  /\ Link \notin DirName /\ Link \notin ObjName /\ Link # Strange
  /\ <<"elsewhere">> \notin DirName
<1>1. DirName \cap ObjName = {}
  BY DEF DirName, ObjName
<1>2. Strange \notin DirName
  BY DEF DirName, Strange
<1>3. Strange \notin ObjName
  BY DEF ObjName, Strange
<1>4. Link \notin DirName /\ <<"elsewhere">> \notin DirName
  BY DEF DirName, Link
<1>5. Link \notin ObjName
  BY DEF ObjName, Link
<1>6. Link # Strange
  BY DEF Link, Strange
<1> QED
  BY <1>1, <1>2, <1>3, <1>4, <1>5, <1>6

\* The directories of an object, from the workspace down, and its file.
LEMMA PathParts ==
  ASSUME NEW c \in Clients, NEW i \in DOMAIN ObjIds
  PROVE  LET o == ObjIds[i]
             p == Pathname(c, o)
         IN /\ p \in Seq(Name) /\ Len(p) = 4 /\ Last(p) \in ObjName
            /\ Last(p) = <<"obj", c, o>>
            /\ \A n \in 1 .. 3 :
                 /\ GenDir(c, o, n) = SubSeq(p, 1, n)
                 /\ GenDir(c, o, n) \in Seq(Name) /\ Len(GenDir(c, o, n)) = n
                 /\ Last(GenDir(c, o, n)) \in DirName
                 /\ \A m \in 1 .. n : SubSeq(GenDir(c, o, n), 1, m) = GenDir(c, o, m)
            /\ GenDir(c, o, 1) = <<Dir(c[2])>>
            /\ Front(GenDir(c, o, 1)) = Root
            /\ Front(GenDir(c, o, 2)) = GenDir(c, o, 1)
            /\ Front(GenDir(c, o, 3)) = GenDir(c, o, 2)
            /\ Front(p) = GenDir(c, o, 3)
<1> DEFINE o == ObjIds[i]
           d1 == Dir(c[2])  d2 == Dir(c[1])  d3 == Dir(o[1])  f == <<"obj", c, o>>
           g1 == GenDir(c, o, 1)  g2 == GenDir(c, o, 2)  g3 == GenDir(c, o, 3)
           p == Pathname(c, o)
<1>1. d1 \in DirName /\ d2 \in DirName /\ d3 \in DirName /\ f \in ObjName
  BY NameTypes
<1>2. d1 \in Name /\ d2 \in Name /\ d3 \in Name /\ f \in Name
  BY <1>1 DEF Name
<1>3. /\ p = <<d1, d2, d3, f>>
      /\ g1 = SubSeq(<<d1, d2, d3>>, 1, 1) /\ g2 = SubSeq(<<d1, d2, d3>>, 1, 2)
      /\ g3 = SubSeq(<<d1, d2, d3>>, 1, 3)
  BY DEF Pathname, GenDir, GenLastDir
<1> HIDE DEF o, d1, d2, d3, f, p, g1, g2, g3
<1>4. g1 = <<d1>> /\ g2 = <<d1, d2>> /\ g3 = <<d1, d2, d3>>
  BY <1>2, <1>3, Beginnings
<1>5. SubSeq(p, 1, 1) = g1 /\ SubSeq(p, 1, 2) = g2 /\ SubSeq(p, 1, 3) = g3
  BY <1>2, <1>3, <1>4, Beginnings
<1>6. /\ SubSeq(g1, 1, 1) = g1
      /\ SubSeq(g2, 1, 1) = g1 /\ SubSeq(g2, 1, 2) = g2
      /\ SubSeq(g3, 1, 1) = g1 /\ SubSeq(g3, 1, 2) = g2 /\ SubSeq(g3, 1, 3) = g3
  <2>1. SubSeq(<<d1>>, 1, 1) = <<d1>> /\ SubSeq(<<d1, d2>>, 1, 1) = <<d1>>
        /\ SubSeq(<<d1, d2, d3>>, 1, 1) = <<d1>>
    BY <1>2, Beginnings
  <2>2. SubSeq(<<d1, d2>>, 1, 2) = <<d1, d2>> /\ SubSeq(<<d1, d2, d3>>, 1, 2) = <<d1, d2>>
    BY <1>2, Beginnings
  <2>3. SubSeq(<<d1, d2, d3>>, 1, 3) = <<d1, d2, d3>>
    BY <1>2, Beginnings
  <2> QED
    BY <1>4, <2>1, <2>2, <2>3, Zenon
<1>7. /\ p \in Seq(Name) /\ Len(p) = 4 /\ p[4] = f
      /\ g1 \in Seq(Name) /\ Len(g1) = 1 /\ g1[1] = d1
      /\ g2 \in Seq(Name) /\ Len(g2) = 2 /\ g2[2] = d2
      /\ g3 \in Seq(Name) /\ Len(g3) = 3 /\ g3[3] = d3
  BY <1>2, <1>3, <1>4
<1>8. Last(p) = f /\ Last(g1) = d1 /\ Last(g2) = d2 /\ Last(g3) = d3
  BY <1>7 DEF Last
<1>9. Front(g1) = Root
  <2>1. Front(g1) = SubSeq(g1, 1, 0)
    BY <1>7 DEF Front
  <2> QED
    BY <2>1, SubSeqEmpty DEF Root
<1>10. Front(g2) = g1 /\ Front(g3) = g2 /\ Front(p) = g3
  <2>1. Len(g2) - 1 = 1 /\ Len(g3) - 1 = 2 /\ Len(p) - 1 = 3
    BY <1>7
  <2>2. Front(g2) = SubSeq(g2, 1, 1) /\ Front(g3) = SubSeq(g3, 1, 2)
        /\ Front(p) = SubSeq(p, 1, 3)
    BY <2>1 DEF Front
  <2> QED
    BY <2>2, <1>5, <1>6
<1>11. ASSUME NEW n \in 1 .. 3
       PROVE  LET g == GenDir(c, o, n)
              IN /\ g = SubSeq(p, 1, n)
                 /\ g \in Seq(Name) /\ Len(g) = n /\ Last(g) \in DirName
                 /\ \A m \in 1 .. n : SubSeq(g, 1, m) = GenDir(c, o, m)
  <2>1. CASE n = 1
    <3>1. \A m \in 1 .. n : m = 1
      BY <2>1
    <3> QED
      BY <1>1, <1>5, <1>6, <1>7, <1>8, <2>1, <3>1 DEF g1
  <2>2. CASE n = 2
    <3>1. \A m \in 1 .. n : m = 1 \/ m = 2
      BY <2>2
    <3> QED
      BY <1>1, <1>5, <1>6, <1>7, <1>8, <2>2, <3>1 DEF g1, g2
  <2>3. CASE n = 3
    <3>1. \A m \in 1 .. n : m = 1 \/ m = 2 \/ m = 3
      BY <2>3
    <3> QED
      BY <1>1, <1>5, <1>6, <1>7, <1>8, <2>3, <3>1 DEF g1, g2, g3
  <2> QED
    BY <2>1, <2>2, <2>3
<1> QED
  BY <1>1, <1>4, <1>7, <1>8, <1>9, <1>10, <1>11 DEF o, f, p, g1, g2, g3, d1

LEMMA InTree ==
  ASSUME NEW d
  PROVE  d \in Tree <=>
           \E c \in Clients, i \in DOMAIN ObjIds, n \in 1 .. 3 : d = GenDir(c, ObjIds[i], n)
<1>1. d \in Tree <=> \E p \in ObjPaths, n \in 1 .. 3 : d = SubSeq(p, 1, n)
  BY DEF Tree
<1>2. \A p : p \in ObjPaths <=> \E c \in Clients, i \in DOMAIN ObjIds : p = Pathname(c, ObjIds[i])
  BY DEF ObjPaths
<1>3. \A c \in Clients, i \in DOMAIN ObjIds, n \in 1 .. 3 :
        GenDir(c, ObjIds[i], n) = SubSeq(Pathname(c, ObjIds[i]), 1, n)
  BY PathParts
<1> QED
  BY <1>1, <1>2, <1>3

LEMMA TreeParts ==
  ASSUME NEW d \in Tree
  PROVE  /\ d \in Seq(Name) /\ Len(d) \in 1 .. 3 /\ d # <<>> /\ Last(d) \in DirName
         /\ Front(d) \in Tree \cup {Root}
<1>1. PICK c \in Clients, i \in DOMAIN ObjIds, n \in 1 .. 3 : d = GenDir(c, ObjIds[i], n)
  BY InTree
<1>2. d \in Seq(Name) /\ Len(d) = n /\ Last(d) \in DirName
  BY <1>1, PathParts
<1>3. d # <<>>
  BY <1>2
<1>4. CASE n = 1
  BY <1>1, <1>2, <1>3, <1>4, PathParts
<1>5. CASE n = 2
  BY <1>1, <1>2, <1>3, <1>5, PathParts, InTree
<1>6. CASE n = 3
  BY <1>1, <1>2, <1>3, <1>6, PathParts, InTree
<1> QED
  BY <1>4, <1>5, <1>6

LEMMA FileParts ==
  /\ \A p \in ObjPaths : /\ p \in Seq(Name) /\ Len(p) = 4 /\ p # <<>>
                         /\ Last(p) \in ObjName /\ Front(p) \in Tree
  /\ \A p \in StrangePaths : /\ p \in Seq(Name) /\ Len(p) \in 1 .. 2 /\ p # <<>>
                             /\ Last(p) = Strange
<1>1. ASSUME NEW p \in ObjPaths
      PROVE  p \in Seq(Name) /\ Len(p) = 4 /\ p # <<>> /\ Last(p) \in ObjName /\ Front(p) \in Tree
  <2>1. PICK c \in Clients, i \in DOMAIN ObjIds : p = Pathname(c, ObjIds[i])
    BY DEF ObjPaths
  <2>2. /\ p \in Seq(Name) /\ Len(p) = 4 /\ Last(p) \in ObjName
        /\ Front(p) = GenDir(c, ObjIds[i], 3)
    BY <2>1, PathParts
  <2>3. p # <<>>
    <3>1. Len(p) = 4
      BY <2>2
    <3> QED
      BY <3>1
  <2> QED
    BY <2>2, <2>3, InTree
<1>2. ASSUME NEW p \in StrangePaths
      PROVE  p \in Seq(Name) /\ Len(p) \in 1 .. 2 /\ p # <<>> /\ Last(p) = Strange
  <2>1. Strange \in Name
    BY DEF Name
  <2>2. CASE p = <<Strange>>
    BY <2>1, <2>2 DEF Last
  <2>3. ASSUME NEW c \in Clients, p = <<Dir(c[2]), Strange>>
        PROVE  p \in Seq(Name) /\ Len(p) \in 1 .. 2 /\ p # <<>> /\ Last(p) = Strange
    <3>1. Dir(c[2]) \in Name
      <4>1. 1 \in DOMAIN ObjIds
        BY Indices
      <4> QED
        BY <4>1, NameTypes DEF Name
    <3> QED
      BY <2>1, <2>3, <3>1 DEF Last
  <2> QED
    BY <2>2, <2>3 DEF StrangePaths
<1> QED
  BY <1>1, <1>2

LEMMA LinkParts ==
  ASSUME NEW p \in LinkPaths
  PROVE  p \in Seq(Name) /\ p # <<>> /\ Last(p) = Link /\ Front(p) = Root
<1>1. p = <<Link>> /\ Link \in Name
  BY DEF LinkPaths, Name
<1>2. p \in Seq(Name) /\ Len(p) = 1 /\ p # <<>> /\ p[1] = Link
  BY <1>1
<1>3. Last(p) = Link
  BY <1>2 DEF Last
<1>4. Front(p) = Root
  <2>1. Front(p) = SubSeq(p, 1, 0)
    BY <1>2 DEF Front
  <2> QED
    BY <2>1, SubSeqEmpty DEF Root
<1> QED
  BY <1>2, <1>3, <1>4

LEMMA OutsideParts ==
  /\ Elsewhere \in Seq(Name) /\ Elsewhere \notin Tree \cup {Root}
  /\ \A p \in OutsidePaths : /\ p \in Seq(Name) /\ Len(p) = 2 /\ p # <<>>
                             /\ Last(p) \in ObjName /\ Front(p) = Elsewhere
<1>1. <<"elsewhere">> \in Name
  BY DEF Name
<1>2. Elsewhere \in Seq(Name) /\ Len(Elsewhere) = 1 /\ Elsewhere # <<>>
      /\ Last(Elsewhere) = <<"elsewhere">>
  BY <1>1 DEF Elsewhere, Last
<1>3. Elsewhere \notin Tree \cup {Root}
  BY <1>2, TreeParts, NamesApart DEF Root
<1>4. ASSUME NEW p \in OutsidePaths
      PROVE  /\ p \in Seq(Name) /\ Len(p) = 2 /\ p # <<>>
             /\ Last(p) \in ObjName /\ Front(p) = Elsewhere
  <2>1. PICK q \in ObjPaths : p = Append(Elsewhere, Last(q))
    BY <1>4 DEF OutsidePaths
  <2>2. Last(q) \in ObjName /\ Last(q) \in Name
    BY FileParts DEF Name
  <2> DEFINE e == Elsewhere  l == Last(q)
  <2>3. e \in Seq(Name) /\ Len(e) = 1 /\ l \in Name
    BY <1>2, <2>2
  <2> HIDE DEF e, l
  <2>4. /\ Append(e, l) \in Seq(Name) /\ Len(Append(e, l)) = Len(e) + 1
        /\ Front(Append(e, l)) = e /\ Last(Append(e, l)) = l /\ Append(e, l) # <<>>
    BY <2>3, Longer
  <2>5. p = Append(e, l)
    BY <2>1 DEF e, l
  <2>6. Len(p) = 2
    BY <2>3, <2>4, <2>5
  <2> QED
    BY <2>2, <2>4, <2>5, <2>6 DEF e, l
<1> QED
  BY <1>2, <1>3, <1>4

\* A path is of one kind.
LEMMA KindsApart ==
  /\ Tree \cap ObjPaths = {} /\ Tree \cap StrangePaths = {} /\ ObjPaths \cap StrangePaths = {}
  /\ LinkPaths \cap Tree = {} /\ LinkPaths \cap ObjPaths = {} /\ LinkPaths \cap StrangePaths = {}
  /\ OutsidePaths \cap Tree = {} /\ OutsidePaths \cap ObjPaths = {}
  /\ OutsidePaths \cap StrangePaths = {} /\ OutsidePaths \cap LinkPaths = {}
<1>1. OutsidePaths \cap ObjPaths = {}
  BY FileParts, OutsideParts
<1> QED
  BY <1>1, TreeParts, FileParts, LinkParts, OutsideParts, NamesApart

LEMMA NamesAre == Names \subseteq Name
<1>1. \A p \in Tree \cup ObjPaths \cup StrangePaths \cup LinkPaths : Last(p) \in Name
  BY TreeParts, FileParts, LinkParts DEF Name
<1> QED
  BY <1>1 DEF Names

\* A path is that of one client and one identifier.
LEMMA OwnPaths ==
  ASSUME NEW c \in Clients, NEW i \in DOMAIN ObjIds, NEW d \in Clients, NEW j \in DOMAIN ObjIds,
         Pathname(c, ObjIds[i]) = Pathname(d, ObjIds[j])
  PROVE  c = d /\ ObjIds[i] = ObjIds[j]
<1>1. <<"obj", c, ObjIds[i]>> = <<"obj", d, ObjIds[j]>>
  BY PathParts
<1> QED
  BY <1>1

-----------------------------------------------------------------------------
(* The inductive invariant. *)

\* A call of storage_dirtree_rmdir.
CallType == [left : SUBSET Name, pruned : Name, back : Seq(Name)]

Types ==
  /\ TypeOK
  /\ cwd \in Seq(Name) /\ stack \in Seq(CallType)
  /\ existed \in [Clients -> [DOMAIN ObjIds -> BOOLEAN]]
  /\ ok \in [Clients -> [DOMAIN ObjIds -> BOOLEAN]]

\* A call that reads a directory is on the stack; before the removal none is.
StackInv ==
  /\ parent = "loop" => stack # <<>>
  /\ parent \in {"create", "wait"} => stack = <<>>

\* The removal begins when no task is at work.
TasksFirst == \A c \in Clients : task[c] \in {"born", "done"} \/ parent = "wait"

\* A file that is being filled is its task's alone.
Filling == \A c \in Clients : task[c] = "fill" => files[Path(c)] = "part"

BaseInv == Types /\ StackInv /\ TasksFirst /\ Filling

-----------------------------------------------------------------------------
(* What there is in the tree. *)

LEMMA PresentIs ==
  ASSUME TypeOK
  PROVE  /\ DOMAIN files = ObjPaths \cup StrangePaths
         /\ Present \subseteq Tree \cup ObjPaths \cup StrangePaths \cup LinkPaths \cup OutsidePaths
         /\ \A p \in Present : p \in Seq(Name) /\ p # <<>> /\ Last(p) \in Name
         /\ \A p \in ObjPaths \cup StrangePaths : p \in Present <=> files[p] # "absent"
         /\ \A p \in Tree : p \in Present <=> p \in dirs
<1>1. /\ DOMAIN files = ObjPaths \cup StrangePaths /\ dirs \subseteq Tree
      /\ DOMAIN links \subseteq LinkPaths /\ outside \subseteq OutsidePaths
  BY DEF TypeOK
<1>2. \A p : p \in Present <=>
               \/ p \in dirs \/ (p \in ObjPaths \cup StrangePaths /\ files[p] # "absent")
               \/ p \in DOMAIN links \/ p \in outside
  BY <1>1 DEF Present, Contents
<1>3. \A p \in Tree \cup ObjPaths \cup StrangePaths \cup LinkPaths \cup OutsidePaths :
        p \in Seq(Name) /\ p # <<>> /\ Last(p) \in Name
  BY TreeParts, FileParts, LinkParts, OutsideParts DEF Name
<1> QED
  BY <1>1, <1>2, <1>3, KindsApart

\* A directory's listing has the names under which there is something in it.
LEMMA InEntries ==
  ASSUME TypeOK, NEW d \in Seq(Name), NEW name \in Name
  PROVE  name \in Entries(d) <=> Append(d, name) \in Present
<1>1. ASSUME NEW q \in Present, Front(q) = d, Last(q) = name
      PROVE  q = Append(d, name)
  BY <1>1, PresentIs, Shorter
<1>2. Front(Append(d, name)) = d /\ Last(Append(d, name)) = name
  BY Longer
<1>3. name \in Entries(d) <=> \E q \in Present : Front(q) = d /\ Last(q) = name
  BY DEF Entries
<1> QED
  BY <1>1, <1>2, <1>3

LEMMA EntriesAreNames ==
  ASSUME TypeOK, NEW d
  PROVE  Entries(d) \subseteq Name
  BY PresentIs DEF Entries

\* In a directory that is not empty there is something.
LEMMA NotEmpty ==
  ASSUME NEW p \in Present
  PROVE  ~Empty(Front(p))
  BY DEF Empty, Entries

\* What is in no directory is nowhere.
LEMMA EmptyRoot ==
  ASSUME TypeOK, Empty(Root)
  PROVE  Contents = {} /\ dirs = {}
<1>1. \A p \in Contents : Front(p) \in dirs
  <2>1. Contents \subseteq Present
    BY DEF Present
  <2> QED
    BY <2>1, NotEmpty DEF TypeOK, Attached
<1>2. \A d \in dirs : d \in Contents /\ d \in Tree
  BY DEF TypeOK, Contents
<1>3. \A d \in dirs : /\ Front(d) \in dirs /\ Len(d) \in 1 .. 3 /\ Len(Front(d)) = Len(d) - 1
  BY <1>1, <1>2, TreeParts, Shorter
<1>4. ASSUME NEW d \in dirs PROVE FALSE
  <2> DEFINE e == Front(d)  f == Front(e)  g == Front(f)
  <2>1. /\ e \in dirs /\ Len(d) \in 1 .. 3 /\ Len(e) = Len(d) - 1
    BY <1>3
  <2> HIDE DEF e
  <2>2. /\ f \in dirs /\ Len(e) \in 1 .. 3 /\ Len(f) = Len(e) - 1
    BY <1>3, <2>1
  <2> HIDE DEF f
  <2>3. /\ g \in dirs /\ Len(f) \in 1 .. 3 /\ Len(g) = Len(f) - 1
    BY <1>3, <2>2
  <2> HIDE DEF g
  <2>4. Len(g) \in 1 .. 3
    BY <1>3, <2>3
  <2>5. \A w, x, y, z \in 1 .. 3 : ~(x = w - 1 /\ y = x - 1 /\ z = y - 1)
    OBVIOUS
  <2> QED
    BY <2>1, <2>2, <2>3, <2>4, <2>5
<1> QED
  BY <1>1, <1>4

LEMMA Entered ==
  ASSUME NEW d \in Seq(Name), Enterable(d)
  PROVE  workspace = "dir" /\ d \in dirs \cup {Root}
<1>1. CASE d = <<>>
  BY <1>1 DEF Enterable, Root
<1>2. CASE d # <<>>
  <2>1. Len(d) \in 1 .. Len(d) /\ SubSeq(d, 1, Len(d)) = d
    BY <1>2, EmptySeq, SubSeqFull
  <2> QED
    BY <2>1 DEF Enterable
<1> QED
  BY <1>1, <1>2

\* The directory that mkdir makes.
LEMMA MkdirMakes ==
  ASSUME TypeOK, NEW c \in Clients, NEW n \in 1 .. 3
  PROVE  LET d == GenDir(c, ObjIds[k[c]], n)
         IN /\ k[c] \in DOMAIN ObjIds
            /\ d \in Tree /\ d \in Seq(Name) /\ d # <<>> /\ Front(d) \in Seq(Name)
<1> DEFINE d == GenDir(c, ObjIds[k[c]], n)
<1>1. k[c] \in DOMAIN ObjIds
  BY DEF TypeOK
<1>2. d \in Tree
  BY <1>1, InTree
<1> HIDE DEF d
<1>3. d \in Seq(Name) /\ d # <<>>
  BY <1>2, TreeParts
<1>4. Front(d) \in Seq(Name)
  BY <1>3, Shorter
<1> QED
  BY <1>1, <1>2, <1>3, <1>4 DEF d

LEMMA PathIs ==
  ASSUME TypeOK, NEW c \in Clients
  PROVE  /\ k[c] \in DOMAIN ObjIds
         /\ Path(c) \in ObjPaths /\ Path(c) \in DOMAIN files
         /\ Path(c) \in Seq(Name) /\ Path(c) # <<>> /\ Front(Path(c)) \in Seq(Name)
<1>1. k[c] \in DOMAIN ObjIds
  BY DEF TypeOK
<1>2. Path(c) \in ObjPaths
  BY <1>1 DEF Path, ObjPaths
<1> QED
  BY <1>1, <1>2, FileParts, PresentIs, Shorter

\* What a write leaves when it returns.
LEMMA ReturnsTyped ==
  ASSUME Types, NEW c \in Clients, NEW result \in BOOLEAN, WriteReturns(c, result)
  PROVE  /\ ok' \in [Clients -> [DOMAIN ObjIds -> BOOLEAN]] /\ existed' = existed
         /\ k' \in [Clients -> DOMAIN ObjIds]
         /\ task' = [task EXCEPT ![c] = "open"] \/ task' = [task EXCEPT ![c] = "read"]
         /\ \A d \in Clients \ {c} : k'[d] = k[d] /\ task'[d] = task[d]
<1>1. k[c] \in DOMAIN ObjIds /\ 1 \in DOMAIN ObjIds
  BY Indices DEF Types, TypeOK
<1>2. ok' = [ok EXCEPT ![c][k[c]] = result] /\ existed' = existed
  BY DEF WriteReturns
<1>3. ok' \in [Clients -> [DOMAIN ObjIds -> BOOLEAN]]
  BY <1>1, <1>2 DEF Types
<1>4. \/ k[c] < Len(ObjIds) /\ k' = [k EXCEPT ![c] = k[c] + 1] /\ Goto(c, "open")
      \/ k' = [k EXCEPT ![c] = 1] /\ Goto(c, "read")
  BY DEF WriteReturns
<1>5. k[c] < Len(ObjIds) => k[c] + 1 \in DOMAIN ObjIds
  BY <1>1, Indices
<1>6. k \in [Clients -> DOMAIN ObjIds]
      /\ task \in [Clients -> {"born", "open", "mkdir1", "mkdir2", "mkdir3", "reopen",
                               "fill", "read", "done"}]
  BY DEF Types, TypeOK
<1> QED
  BY <1>1, <1>2, <1>3, <1>4, <1>5, <1>6 DEF Goto

-----------------------------------------------------------------------------
(* Everything stays attached. *)

LEMMA AttachedSame ==
  ASSUME Attached, UNCHANGED <<dirs, links, files>>, workspace = "dir" => workspace' = "dir"
  PROVE  Attached'
<1>1. Contents' = Contents
  BY DEF Contents
<1> QED
  BY <1>1 DEF Attached

LEMMA WorkspaceRemoved ==
  ASSUME TypeOK, UNCHANGED <<dirs, links, files>>,
         workspace' # workspace => Empty(Root) \/ workspace = "none"
  PROVE  Attached'
<1>1. Contents' = Contents
  BY DEF Contents
<1>2. Attached
  BY DEF TypeOK
<1>3. CASE workspace' = workspace
  BY <1>1, <1>2, <1>3 DEF Attached
<1>4. CASE Empty(Root)
  BY <1>1, <1>4, EmptyRoot DEF Attached
<1>5. CASE workspace = "none"
  BY <1>1, <1>2, <1>5 DEF Attached
<1> QED
  BY <1>3, <1>4, <1>5

\* A new entry of a directory one can be in.
LEMMA Attaching ==
  ASSUME TypeOK, NEW p, Front(p) \in Seq(Name), Enterable(Front(p)), workspace' = workspace,
         dirs \subseteq dirs', Contents' \subseteq Contents \cup {p}
  PROVE  Attached'
<1>1. workspace = "dir" /\ Front(p) \in dirs \cup {Root}
  BY Entered
<1> QED
  BY <1>1 DEF TypeOK, Attached

LEMMA FileWritten ==
  ASSUME TypeOK, NEW p \in DOMAIN files, NEW held \in {"absent", "part", "whole"},
         files' = [files EXCEPT ![p] = held], UNCHANGED <<dirs, links>>
  PROVE  /\ files' \in [ObjPaths \cup StrangePaths -> {"absent", "part", "whole"}]
         /\ Contents' \subseteq Contents \cup {p}
         /\ files[p] # "absent" => Contents' \subseteq Contents
         /\ held = "absent" => \A q \in Contents' : q # p \/ q \in dirs \cup DOMAIN links
<1>1. files \in [ObjPaths \cup StrangePaths -> {"absent", "part", "whole"}]
  BY DEF TypeOK
<1>2. files' \in [ObjPaths \cup StrangePaths -> {"absent", "part", "whole"}]
      /\ DOMAIN files' = DOMAIN files /\ files'[p] = held
      /\ \A q \in DOMAIN files : q # p => files'[q] = files[q]
  BY <1>1
<1> QED
  BY <1>2 DEF Contents

\* Only an empty directory is removed.
LEMMA DirRemoved ==
  ASSUME TypeOK, NEW here, NEW name, dirs' = AfterRmdir(here, name), UNCHANGED <<workspace, links, files>>
  PROVE  /\ dirs' \subseteq dirs /\ Contents' \subseteq Contents /\ Attached'
         /\ \A d \in dirs \ dirs' : d = Append(here, name) /\ Empty(d)
<1>1. dirs' \subseteq dirs /\ \A d \in dirs \ dirs' : d = Append(here, name) /\ Empty(d)
  BY DEF AfterRmdir
<1>2. Contents' \subseteq Contents
  BY <1>1 DEF Contents
<1>3. \A p \in Contents' : Front(p) \in dirs' \cup {Root}
  <2>1. \A p \in Contents : ~Empty(Front(p))
    BY NotEmpty DEF Present
  <2> QED
    BY <2>1, <1>1, <1>2 DEF TypeOK, Attached
<1> QED
  BY <1>1, <1>2, <1>3 DEF TypeOK, Attached

\* What reading an entry does to the workspace.
LEMMA EntryChanges ==
  ASSUME NEW name, RmdirEntry(name)
  PROVE  /\ UNCHANGED <<workspace, dirs, sealed, links, taskVars>>
         /\ \/ UNCHANGED files
            \/ Entry(name) \in ObjPaths /\ files' = [files EXCEPT ![Entry(name)] = "absent"]
         /\ outside' \subseteq outside
         /\ parent = "loop" /\ parent' \in {"loop", "call", "crashed"}
         /\ faults' = faults \/ Fault
         /\ lost' = lost \/ (lost' = TRUE /\ Fault)
<1>1. UNCHANGED <<workspace, dirs, sealed, links, taskVars>> /\ parent = "loop"
  BY DEF RmdirEntry
<1>2. CASE EntryPassed(name)
  BY <1>1, <1>2 DEF EntryPassed, NoFault
<1>3. CASE EntryUnlinked(name)
  BY <1>1, <1>3 DEF EntryUnlinked, NoFault
<1>4. CASE EntryAborts(name)
  BY <1>1, <1>4 DEF EntryAborts, NoFault
<1>5. CASE EntryEntered(name)
  BY <1>1, <1>5 DEF EntryEntered, NoFault
<1> QED
  BY <1>2, <1>3, <1>4, <1>5 DEF RmdirEntry

LEMMA AttachedStep ==
  ASSUME Types, Filling, [Next]_vars
  PROVE  Attached'
<1> USE DEF Fault, NoFault, treeVars, parentVars, taskVars
<1> TypeOK /\ Attached
  BY DEF Types, TypeOK
<1>1. CASE DriverCreate \/ DriverDestroyed
  <2>1. CASE DriverCreate
    BY <2>1, WorkspaceRemoved DEF DriverCreate
  <2>2. CASE DriverDestroyed
    BY <2>2, WorkspaceRemoved DEF DriverDestroyed
  <2> QED
    BY <1>1, <2>1, <2>2
<1>2. CASE DriverDestroy \/ RmdirCall \/ RmdirEnd \/ UNCHANGED vars
  BY <1>2, AttachedSame DEF DriverDestroy, RmdirCall, RmdirEnd, vars
<1>3. ASSUME NEW name \in Names, RmdirEntry(name) PROVE Attached'
  <2> DEFINE p == Entry(name)
  <2>1. UNCHANGED <<workspace, dirs, links>>
    BY <1>3, EntryChanges
  <2>2. UNCHANGED files \/ (p \in ObjPaths /\ files' = [files EXCEPT ![p] = "absent"])
    BY <1>3, EntryChanges
  <2> HIDE DEF p
  <2>3. CASE UNCHANGED files
    BY <2>1, <2>3, AttachedSame
  <2>4. CASE p \in ObjPaths /\ files' = [files EXCEPT ![p] = "absent"]
    <3>1. p \in DOMAIN files
      BY <2>4, PresentIs
    <3>2. Contents' \subseteq Contents \cup {p} /\ \A q \in Contents' : q # p \/ q \in dirs \cup DOMAIN links
      BY <2>1, <2>4, <3>1, FileWritten
    <3>3. Contents' \subseteq Contents
      BY <3>2 DEF Contents
    <3> QED
      BY <2>1, <3>3 DEF Attached
  <2> QED
    BY <2>2, <2>3, <2>4
<1>4. CASE RmdirPruned
  <2>1. UNCHANGED <<workspace, links, files>>
    BY <1>4 DEF RmdirPruned
  <2>2. CASE UNCHANGED dirs
    BY <2>1, <2>2, AttachedSame
  <2>3. CASE dirs' = AfterRmdir(cwd', Frame.pruned)
    BY <2>1, <2>3, DirRemoved
  <2>4. CASE dirs' = AfterRmdir(cwd, Frame.pruned)
    BY <2>1, <2>4, DirRemoved
  <2> QED
    BY <1>4, <2>2, <2>3, <2>4 DEF RmdirPruned
<1>5. ASSUME NEW c \in Clients, WorkerCreate(c) PROVE Attached'
  BY <1>5, WorkspaceRemoved DEF WorkerCreate
<1>6. ASSUME NEW c \in Clients, Open(c) \/ Reopen(c) PROVE Attached'
  <2>1. UNCHANGED <<workspace, dirs, links>>
    BY <1>6 DEF Open, Reopen
  <2>2. UNCHANGED files \/ (CanCreate(Path(c)) /\ files' = [files EXCEPT ![Path(c)] = "part"])
    BY <1>6 DEF Open, Reopen
  <2>3. CASE UNCHANGED files
    BY <2>1, <2>3, AttachedSame
  <2>4. CASE CanCreate(Path(c)) /\ files' = [files EXCEPT ![Path(c)] = "part"]
    <3>1. Contents' \subseteq Contents \cup {Path(c)}
      BY <2>1, <2>4, PathIs, FileWritten
    <3> QED
      BY <2>1, <2>4, <3>1, PathIs, Attaching DEF CanCreate
  <2> QED
    BY <2>2, <2>3, <2>4
<1>7. ASSUME NEW c \in Clients, NEW n \in 1 .. 3, Mkdir(c, n) PROVE Attached'
  <2> DEFINE d == GenDir(c, ObjIds[k[c]], n)
  <2>1. UNCHANGED <<workspace, links, files>>
        /\ (UNCHANGED dirs \/ (Enterable(Front(d)) /\ dirs' = dirs \cup {d}))
    BY <1>7 DEF Mkdir
  <2>2. Front(d) \in Seq(Name)
    BY MkdirMakes
  <2> HIDE DEF d
  <2>3. CASE UNCHANGED dirs
    BY <2>1, <2>3, AttachedSame
  <2>4. CASE Enterable(Front(d)) /\ dirs' = dirs \cup {d}
    <3>1. Contents' \subseteq Contents \cup {d}
      BY <2>1, <2>4 DEF Contents
    <3> QED
      BY <2>1, <2>2, <2>4, <3>1, Attaching
  <2> QED
    BY <2>1, <2>3, <2>4
<1>8. ASSUME NEW c \in Clients, Fill(c) PROVE Attached'
  <2>1. UNCHANGED <<workspace, dirs, links>> /\ task[c] = "fill"
        /\ \E held \in {"part", "whole"} : files' = [files EXCEPT ![Path(c)] = held]
    BY <1>8 DEF Fill
  <2>2. files[Path(c)] # "absent"
    BY <2>1 DEF Filling
  <2>3. Contents' \subseteq Contents
    BY <2>1, <2>2, PathIs, FileWritten
  <2> QED
    BY <2>1, <2>3 DEF Attached
<1>9. ASSUME NEW c \in Clients, Read(c) PROVE Attached'
  BY <1>9, AttachedSame DEF Read
<1> QED
  BY <1>1, <1>2, <1>3, <1>4, <1>5, <1>6, <1>7, <1>8, <1>9 DEF Next, ParentStep, TaskStep

-----------------------------------------------------------------------------
(* Every variable keeps its type. *)

\* What an earlier run has left: three directories and two files at most.
LEMMA FirstPath ==
  ASSUME NEW c \in Clients
  PROVE  LET first == Pathname(c, ObjIds[1])
         IN /\ first \in ObjPaths /\ <<first[1], Strange>> \in StrangePaths
            /\ \A n \in 1 .. 3 : SubSeq(first, 1, n) \in Tree
            /\ Front(SubSeq(first, 1, 1)) = Root
            /\ Front(SubSeq(first, 1, 2)) = SubSeq(first, 1, 1)
            /\ Front(SubSeq(first, 1, 3)) = SubSeq(first, 1, 2)
            /\ Front(first) = SubSeq(first, 1, 3)
            /\ Front(<<first[1], Strange>>) = SubSeq(first, 1, 1)
<1> DEFINE first == Pathname(c, ObjIds[1])
           d1 == Dir(c[2])  d2 == Dir(c[1])  d3 == Dir(ObjIds[1][1])
           f == <<"obj", c, ObjIds[1]>>
<1>1. 1 \in DOMAIN ObjIds
  BY Indices
<1>2. first \in ObjPaths
  BY <1>1 DEF ObjPaths
<1>3. /\ \A n \in 1 .. 3 : GenDir(c, ObjIds[1], n) = SubSeq(first, 1, n)
      /\ Front(GenDir(c, ObjIds[1], 1)) = Root
      /\ Front(GenDir(c, ObjIds[1], 2)) = GenDir(c, ObjIds[1], 1)
      /\ Front(GenDir(c, ObjIds[1], 3)) = GenDir(c, ObjIds[1], 2)
      /\ Front(first) = GenDir(c, ObjIds[1], 3)
  BY <1>1, PathParts
<1>4. \A n \in 1 .. 3 : SubSeq(first, 1, n) \in Tree
  BY <1>2 DEF Tree
<1>5. d1 \in Name /\ d2 \in Name /\ d3 \in Name /\ f \in Name /\ Strange \in Name
  BY <1>1, NameTypes DEF Name
<1>6. first = <<d1, d2, d3, f>>
  BY DEF Pathname
<1>7. <<d1, Strange>> \in StrangePaths
  BY DEF StrangePaths
<1>8. /\ Front(SubSeq(first, 1, 1)) = Root
       /\ Front(SubSeq(first, 1, 2)) = SubSeq(first, 1, 1)
       /\ Front(SubSeq(first, 1, 3)) = SubSeq(first, 1, 2)
       /\ Front(first) = SubSeq(first, 1, 3)
  <2>1. /\ GenDir(c, ObjIds[1], 1) = SubSeq(first, 1, 1)
        /\ GenDir(c, ObjIds[1], 2) = SubSeq(first, 1, 2)
        /\ GenDir(c, ObjIds[1], 3) = SubSeq(first, 1, 3)
    BY <1>3
  <2> QED
    BY <1>3, <2>1, Zenon
<1> HIDE DEF first, d1, d2, d3, f
<1>9. SubSeq(first, 1, 1) = <<d1>> /\ first[1] = d1
  <2>1. GenDir(c, ObjIds[1], 1) = <<Dir(c[2])>>
    BY <1>1, PathParts
  <2>2. SubSeq(first, 1, 1) = <<d1>>
    <3>1. GenDir(c, ObjIds[1], 1) = SubSeq(first, 1, 1)
      BY <1>3
    <3> QED
      BY <2>1, <3>1 DEF d1
  <2> QED
    BY <1>6, <2>2
<1>10. <<d1>> \in Seq(Name) /\ <<d1, Strange>> = Append(<<d1>>, Strange)
  BY <1>5
<1>11. Front(<<d1, Strange>>) = <<d1>>
  <2>1. Front(Append(<<d1>>, Strange)) = <<d1>>
    <3>1. \A s \in Seq(Name), e \in Name : Front(Append(s, e)) = s
      BY Longer
    <3> QED
      BY <1>5, <1>10, <3>1
  <2> QED
    BY <1>10, <2>1
<1>12. <<first[1], Strange>> \in StrangePaths /\ Front(<<first[1], Strange>>) = SubSeq(first, 1, 1)
  BY <1>9, <1>11, <1>7
<1> QED
  BY <1>2, <1>4, <1>8, <1>12 DEF first

LEMMA InitBase == Init => BaseInv
<1> SUFFICES ASSUME Init PROVE BaseInv
  OBVIOUS
<1>1. 1 \in DOMAIN ObjIds
  BY Indices
<1>2. PICK first :
        /\ first \in ObjPaths /\ <<first[1], Strange>> \in StrangePaths
        /\ \A n \in 1 .. 3 : SubSeq(first, 1, n) \in Tree
        /\ Front(SubSeq(first, 1, 1)) = Root
        /\ Front(SubSeq(first, 1, 2)) = SubSeq(first, 1, 1)
        /\ Front(SubSeq(first, 1, 3)) = SubSeq(first, 1, 2)
        /\ Front(first) = SubSeq(first, 1, 3)
        /\ Front(<<first[1], Strange>>) = SubSeq(first, 1, 1)
        /\ workspace \in {"none", "dir", "file"}
        /\ dirs = {} \/ (workspace = "dir" /\ dirs = {SubSeq(first, 1, n) : n \in 1 .. 3})
        /\ sealed = {} \/ \E d \in dirs : sealed = {d}
        /\ links = <<>> \/ (workspace = "dir" /\ links \in [LinkPaths -> {Root, Elsewhere}])
        /\ outside = {Append(Elsewhere, Last(first))}
        /\ \E there \in {{}} \cup IF dirs = {} THEN {} ELSE {{first}, {<<first[1], Strange>>}} :
             files = [p \in ObjPaths \cup StrangePaths |->
                        IF p \in there THEN "whole" ELSE "absent"]
  <2> DEFINE c == CHOOSE c \in Clients : TRUE
  <2>1. c \in Clients
    BY DirTreeAssumption
  <2> QED
    BY <2>1, FirstPath DEF Init
<1> DEFINE g1 == SubSeq(first, 1, 1)  g2 == SubSeq(first, 1, 2)  g3 == SubSeq(first, 1, 3)
<1>3. /\ g1 \in Tree /\ g2 \in Tree /\ g3 \in Tree
      /\ Front(g1) = Root /\ Front(g2) = g1 /\ Front(g3) = g2 /\ Front(first) = g3
      /\ Front(<<first[1], Strange>>) = g1
  BY <1>2
<1>4. PICK there \in {{}} \cup IF dirs = {} THEN {} ELSE {{first}, {<<first[1], Strange>>}} :
        files = [p \in ObjPaths \cup StrangePaths |-> IF p \in there THEN "whole" ELSE "absent"]
  BY <1>2
<1>5. dirs = {} \/ (workspace = "dir" /\ dirs = {g1, g2, g3})
  <2>1. {SubSeq(first, 1, n) : n \in 1 .. 3} = {g1, g2, g3}
    <3>1. 1 .. 3 = {1, 2, 3}
      OBVIOUS
    <3> QED
      BY <3>1
  <2> QED
    BY <1>2, <2>1
<1> HIDE DEF g1, g2, g3
<1>l. /\ DOMAIN links \subseteq LinkPaths
      /\ \A p \in DOMAIN links : workspace = "dir" /\ links[p] \in {Root, Elsewhere}
  BY <1>2
<1>6. Contents \subseteq dirs \cup there \cup DOMAIN links
  BY <1>4 DEF Contents
<1>7. Attached
  <2>1. \A p \in dirs \cup there : workspace = "dir" /\ Front(p) \in dirs \cup {Root}
    BY <1>3, <1>4, <1>5
  <2>2. \A p \in DOMAIN links : workspace = "dir" /\ Front(p) = Root
    BY <1>l, LinkParts
  <2> QED
    BY <1>6, <2>1, <2>2 DEF Attached
<1>o. outside \subseteq OutsidePaths /\ lost \in BOOLEAN
  BY <1>2 DEF Init, OutsidePaths
<1>8. files \in [ObjPaths \cup StrangePaths -> {"absent", "part", "whole"}]
  BY <1>4
<1>9. dirs \subseteq Tree /\ sealed \subseteq Tree
  BY <1>2, <1>3, <1>5
<1>10. cwd \in Seq(Name) /\ stack = <<>>
  <2>1. <<"home">> \in Name
    BY DEF Name
  <2> QED
    BY <2>1 DEF Init, Home
<1>11. stack \in Seq(CallType) /\ Len(stack) <= OpenMax
  BY <1>10, DirTreeAssumption
<1>12. TypeOK
  BY <1>1, <1>2, <1>7, <1>8, <1>9, <1>11, <1>l, <1>o, DirTreeAssumption DEF Init, TypeOK
<1>13. Types
  BY <1>10, <1>11, <1>12 DEF Init, Types
<1>14. StackInv /\ TasksFirst /\ Filling
  BY <1>10 DEF Init, StackInv, TasksFirst, Filling
<1> QED
  BY <1>13, <1>14 DEF BaseInv

LEMMA NewCall ==
  ASSUME TypeOK
  PROVE  [left |-> Entries(cwd), pruned |-> <<>>, back |-> Root] \in CallType
<1>1. Entries(cwd) \in SUBSET Name
  BY EntriesAreNames
<1>2. <<>> \in Name /\ Root \in Seq(Name)
  BY EmptySeq DEF Name, Root
<1> QED
  BY <1>1, <1>2 DEF CallType

LEMMA FrameIs ==
  ASSUME Types, stack # <<>>
  PROVE  /\ Frame \in CallType /\ Frame = stack[Len(stack)]
         /\ Frame.left \in SUBSET Name /\ Frame.pruned \in Name /\ Frame.back \in Seq(Name)
         /\ Front(stack) \in Seq(CallType) /\ Len(Front(stack)) = Len(stack) - 1
         /\ Len(stack) \in Nat \ {0}
<1>1. stack \in Seq(CallType)
  BY DEF Types
<1>2. Frame \in CallType /\ Frame = stack[Len(stack)]
  BY <1>1, Shorter DEF Frame
<1>3. /\ Front(stack) \in Seq(CallType) /\ Len(Front(stack)) = Len(stack) - 1
      /\ Len(stack) \in Nat \ {0}
  BY <1>1, Shorter
<1> QED
  BY <1>2, <1>3 DEF CallType

\* The two ways in which an entry changes the call that has read it.
LEMMA CallChanged ==
  ASSUME Types, stack # <<>>, NEW name \in Name, NEW d \in Seq(Name)
  PROVE  LET into == [Rest(name) EXCEPT !.pruned = name, !.back = d]
         IN /\ Rest(name) \in CallType /\ Rest(name).left = Frame.left \ {name}
            /\ into \in CallType /\ into.left = Frame.left \ {name} /\ into.pruned = name
            /\ into.back = d
<1>1. Frame \in CallType
  BY FrameIs
<1>2. Rest(name) \in CallType /\ Rest(name).left = Frame.left \ {name}
  BY <1>1 DEF CallType, Rest
<1> QED
  BY <1>2 DEF CallType

\* Where a directory or a link leads is a directory.
LEMMA TargetIs ==
  ASSUME TypeOK, NEW p \in dirs \cup DOMAIN links
  PROVE  /\ Target(p) \in Seq(Name) /\ Target(p) \in dirs \cup {Root, Elsewhere}
         /\ ~LeadsOut => Target(p) \in dirs \cup {Root}
         /\ p \in dirs => Target(p) = p
<1>1. /\ DOMAIN links \subseteq LinkPaths /\ \A q \in DOMAIN links : links[q] \in {Root, Elsewhere}
      /\ dirs \subseteq Tree
  BY DEF TypeOK
<1>2. p \in dirs => p \notin DOMAIN links
  BY <1>1, KindsApart
<1>3. Root \in Seq(Name) /\ Elsewhere \in Seq(Name) /\ \A d \in dirs : d \in Seq(Name)
  BY <1>1, OutsideParts, TreeParts, EmptySeq DEF Root
<1> QED
  BY <1>1, <1>2, <1>3 DEF Target, LeadsOut

LEMMA UnfilledTyped == Unfilled \subseteq Seq(Name)
  BY OutsideParts, TreeParts, EmptySeq DEF Unfilled, Root

\* What reading an entry does to the calls.
LEMMA EntryTyped ==
  ASSUME Types, stack # <<>>, NEW name \in Names, RmdirEntry(name)
  PROVE  LET p == Entry(name)
         IN \/ parent' = "crashed" /\ UNCHANGED <<cwd, stack, lost>>
            \/ \E f \in CallType :
                 /\ stack' = Append(Front(stack), f)
                 /\ f.left = Frame.left \ {name}
                 /\ \/ /\ ~Exists(p) \/ Fault
                       /\ UNCHANGED <<parent, cwd, files, outside, lost>>
                    \/ /\ p \in ObjPaths \cup OutsidePaths
                       /\ \/ p \in ObjPaths /\ files' = [files EXCEPT ![p] = "absent"]
                          \/ p \in OutsidePaths /\ UNCHANGED files
                          \/ Fault /\ UNCHANGED files
                       /\ UNCHANGED <<parent, cwd, lost>>
                    \/ /\ p \in dirs \cup DOMAIN links /\ parent' = "call"
                       /\ UNCHANGED <<files, outside>> /\ f.pruned = name
                       /\ \/ /\ f.back = cwd /\ lost' = lost
                             /\ cwd' = Target(p) \/ (cwd' = cwd /\ (p \in sealed \/ Fault))
                          \/ lost' = TRUE /\ Fault /\ cwd' \in {cwd, Target(p)}
<1> DEFINE p == Entry(name)
           into(way) == [Rest(name) EXCEPT !.pruned = name, !.back = way]
<1>1. name \in Name /\ cwd \in Seq(Name)
  BY NamesAre DEF Types
<1>2. /\ Rest(name) \in CallType /\ Rest(name).left = Frame.left \ {name}
  BY <1>1, CallChanged
<1>3. ASSUME NEW way \in Seq(Name)
      PROVE  /\ into(way) \in CallType /\ into(way).left = Frame.left \ {name}
             /\ into(way).pruned = name /\ into(way).back = way
  BY <1>1, CallChanged
<1>4. CASE EntryAborts(name)
  BY <1>4 DEF EntryAborts
<1>5. CASE EntryPassed(name)
  <2>1. /\ stack' = Append(Front(stack), Rest(name))
        /\ ~Exists(p) \/ Fault
        /\ UNCHANGED <<parent, cwd, files, outside, lost>>
    BY <1>5 DEF EntryPassed
  <2> HIDE DEF p
  <2>2. \E f \in CallType :
          /\ stack' = Append(Front(stack), f) /\ f.left = Frame.left \ {name}
          /\ ~Exists(p) \/ Fault
          /\ UNCHANGED <<parent, cwd, files, outside, lost>>
    BY <1>2, <2>1, Zenon
  <2> QED
    BY <2>2 DEF p
<1>6. CASE EntryUnlinked(name)
  <2>1. /\ stack' = Append(Front(stack), Rest(name))
        /\ p \in ObjPaths \cup OutsidePaths
        /\ \/ p \in ObjPaths /\ files' = [files EXCEPT ![p] = "absent"]
           \/ p \in OutsidePaths /\ UNCHANGED files
           \/ Fault /\ UNCHANGED files
        /\ UNCHANGED <<parent, cwd, lost>>
    BY <1>6 DEF EntryUnlinked
  <2> HIDE DEF p
  <2>2. \E f \in CallType :
          /\ stack' = Append(Front(stack), f) /\ f.left = Frame.left \ {name}
          /\ p \in ObjPaths \cup OutsidePaths
          /\ \/ p \in ObjPaths /\ files' = [files EXCEPT ![p] = "absent"]
             \/ p \in OutsidePaths /\ UNCHANGED files
             \/ Fault /\ UNCHANGED files
          /\ UNCHANGED <<parent, cwd, lost>>
    BY <1>2, <2>1, Zenon
  <2> QED
    BY <2>2 DEF p
<1>7. CASE EntryEntered(name)
  <2>1. PICK way \in Unfilled \cup {cwd} :
          /\ stack' = Append(Front(stack), into(way))
          /\ p \in dirs \cup DOMAIN links /\ parent' = "call" /\ UNCHANGED <<files, outside>>
          /\ \/ /\ way = cwd /\ lost' = lost
                /\ cwd' = Target(p) \/ (cwd' = cwd /\ (p \in sealed \/ Fault))
             \/ lost' = TRUE /\ Fault /\ cwd' \in {cwd, Target(p)}
    BY <1>7 DEF EntryEntered
  <2>2. way \in Seq(Name)
    BY <1>1, <2>1, UnfilledTyped
  <2>3. PICK f : f = into(way)
    OBVIOUS
  <2>4. f \in CallType /\ f.left = Frame.left \ {name} /\ f.pruned = name /\ f.back = way
    BY <1>3, <2>2, <2>3
  <2>5. stack' = Append(Front(stack), f)
    BY <2>1, <2>3
  <2> HIDE DEF p, into
  <2>6. \E g \in CallType :
          /\ stack' = Append(Front(stack), g) /\ g.left = Frame.left \ {name}
          /\ p \in dirs \cup DOMAIN links /\ parent' = "call"
          /\ UNCHANGED <<files, outside>> /\ g.pruned = name
          /\ \/ /\ g.back = cwd /\ lost' = lost
                /\ cwd' = Target(p) \/ (cwd' = cwd /\ (p \in sealed \/ Fault))
             \/ lost' = TRUE /\ Fault /\ cwd' \in {cwd, Target(p)}
    BY <2>1, <2>4, <2>5
  <2> QED
    BY <2>6 DEF p
<1> QED
  BY <1>4, <1>5, <1>6, <1>7 DEF RmdirEntry

\* Faults are counted.
LEMMA FaultsGrow ==
  ASSUME [Next]_vars
  PROVE  (faults' = faults \/ Fault) /\ UNCHANGED <<sealed, links>>
<1> USE DEF NoFault, treeVars
<1>1. ASSUME NEW c \in Clients, TaskStep(c)
      PROVE  (faults' = faults \/ Fault) /\ UNCHANGED <<sealed, links>>
  BY <1>1 DEF TaskStep, WorkerCreate, Open, Mkdir, Reopen, Fill, Read
<1>2. ASSUME ParentStep
      PROVE  (faults' = faults \/ Fault) /\ UNCHANGED <<sealed, links>>
  <2>1. ASSUME NEW name \in Names, RmdirEntry(name)
        PROVE  (faults' = faults \/ Fault) /\ UNCHANGED <<sealed, links>>
    BY <2>1, EntryChanges
  <2>2. ASSUME DriverCreate \/ DriverDestroy \/ RmdirCall \/ RmdirEnd \/ RmdirPruned \/ DriverDestroyed
        PROVE  (faults' = faults \/ Fault) /\ UNCHANGED <<sealed, links>>
    BY <2>2 DEF DriverCreate, DriverDestroy, RmdirCall, RmdirEnd, RmdirPruned, DriverDestroyed
  <2> QED
    BY <1>2, <2>1, <2>2 DEF ParentStep
<1>3. CASE UNCHANGED vars
  BY <1>3 DEF vars
<1> QED
  BY <1>1, <1>2, <1>3 DEF Next

LEMMA TypesStep ==
  ASSUME BaseInv, [Next]_vars
  PROVE  Types' /\ StackInv'
<1> USE DEF Fault, NoFault, treeVars, parentVars, taskVars
<1>a. Types /\ TypeOK /\ StackInv /\ Filling /\ Attached'
  BY AttachedStep DEF BaseInv, Types
<1>b. faults' \in 0 .. MaxFaults
  <2>1. faults' = faults \/ (faults < MaxFaults /\ faults' = faults + 1)
    BY FaultsGrow
  <2> QED
    BY <1>a, <2>1, DirTreeAssumption DEF TypeOK
<1>1. CASE DriverCreate
  BY <1>1, <1>a, <1>b DEF DriverCreate, Types, TypeOK, StackInv
<1>2. CASE DriverDestroy
  <2>1. cwd' \in Seq(Name)
    BY <1>2, <1>a, EmptySeq DEF DriverDestroy, Types, Root
  <2> QED
    BY <1>2, <1>a, <1>b, <2>1 DEF DriverDestroy, Types, TypeOK, StackInv
<1>3. CASE RmdirCall
  <2>1. stack' \in Seq(CallType) /\ Len(stack') <= OpenMax /\ (parent' = "loop" => stack' # <<>>)
    <3>1. CASE UNCHANGED stack /\ parent' = "return"
      BY <3>1, <1>a DEF Types, TypeOK
    <3>2. CASE /\ Len(stack) < OpenMax
               /\ stack' = Append(stack, [left |-> Entries(cwd), pruned |-> <<>>, back |-> Root])
      <4>1. stack' \in Seq(CallType) /\ Len(stack') = Len(stack) + 1 /\ stack' # <<>>
        BY <3>2, <1>a, NewCall, Longer DEF Types
      <4>2. Len(stack) \in Nat
        BY <1>a DEF Types
      <4> QED
        BY <3>2, <4>1, <4>2, DirTreeAssumption
    <3> QED
      BY <1>3, <3>1, <3>2 DEF RmdirCall
  <2> QED
    BY <1>3, <1>a, <1>b, <2>1 DEF RmdirCall, Types, TypeOK, StackInv
<1>4. ASSUME NEW name \in Names, RmdirEntry(name) PROVE Types' /\ StackInv'
  <2> DEFINE p == Entry(name)
  <2>1. parent = "loop" /\ stack # <<>> /\ name \in Name /\ cwd \in Seq(Name)
    BY <1>4, <1>a, NamesAre DEF RmdirEntry, StackInv, Types
  <2>2. stack' = stack \/ \E f \in CallType : stack' = Append(Front(stack), f)
    BY <1>4, <1>a, <2>1, EntryTyped
  <2>3. /\ cwd' = cwd \/ (p \in dirs \cup DOMAIN links /\ cwd' = Target(p))
        /\ lost' \in BOOLEAN
    BY <1>4, <1>a, <2>1, EntryTyped DEF TypeOK
  <2>4. /\ files' = files \/ (p \in ObjPaths /\ files' = [files EXCEPT ![p] = "absent"])
        /\ outside' \subseteq outside
        /\ parent' \in {"loop", "call", "crashed"}
        /\ UNCHANGED <<workspace, dirs, sealed, links, taskVars>>
    BY <1>4, EntryChanges
  <2>5. cwd' \in Seq(Name)
    BY <1>a, <2>1, <2>3, TargetIs
  <2> HIDE DEF p
  <2>6. stack' \in Seq(CallType) /\ Len(stack') = Len(stack) /\ stack' # <<>>
    <3>1. stack \in Seq(CallType) /\ Front(stack) \in Seq(CallType)
          /\ Len(Front(stack)) = Len(stack) - 1 /\ Len(stack) \in Nat \ {0}
      BY <1>a, <2>1, FrameIs DEF Types
    <3>2. \A f \in CallType : /\ Append(Front(stack), f) \in Seq(CallType)
                              /\ Len(Append(Front(stack), f)) = Len(stack)
                              /\ Append(Front(stack), f) # <<>>
      BY <3>1, Longer
    <3> QED
      BY <2>1, <2>2, <3>1, <3>2
  <2>7. files' \in [ObjPaths \cup StrangePaths -> {"absent", "part", "whole"}]
    BY <1>a, <2>4 DEF TypeOK
  <2>8. Len(stack') <= OpenMax
    BY <1>a, <2>6 DEF TypeOK
  <2> QED
    BY <1>a, <1>b, <2>3, <2>4, <2>5, <2>6, <2>7, <2>8 DEF Types, TypeOK, StackInv
<1>5. CASE RmdirEnd
  <2>1. stack # <<>>
    BY <1>5, <1>a DEF RmdirEnd, StackInv
  <2>2. stack' \in Seq(CallType) /\ Len(stack') <= OpenMax
    BY <1>5, <1>a, <2>1, FrameIs, DirTreeAssumption DEF RmdirEnd, TypeOK
  <2> QED
    BY <1>5, <1>a, <1>b, <2>2 DEF RmdirEnd, Types, TypeOK, StackInv
<1>6. CASE RmdirPruned
  <2>1. Frame.back \in Seq(Name)
    BY <1>6, <1>a, FrameIs DEF RmdirPruned
  <2>2. /\ dirs' \subseteq dirs /\ cwd' \in {cwd, Frame.back} /\ parent' = "loop" /\ stack # <<>>
        /\ UNCHANGED <<stack, workspace, sealed, links, files, outside, taskVars, lost>>
    BY <1>6 DEF RmdirPruned, AfterRmdir, WayBack
  <2> QED
    BY <1>a, <1>b, <2>1, <2>2 DEF Types, TypeOK, StackInv
<1>7. CASE DriverDestroyed
  <2>1. Home \in Seq(Name)
    BY DEF Home, Name
  <2> QED
    BY <1>7, <1>a, <1>b, <2>1 DEF DriverDestroyed, Types, TypeOK, StackInv
<1>8. ASSUME NEW c \in Clients, WorkerCreate(c) PROVE Types' /\ StackInv'
  BY <1>8, <1>a, <1>b DEF WorkerCreate, Goto, Types, TypeOK, StackInv
<1>9. ASSUME NEW c \in Clients, Open(c) \/ Reopen(c) PROVE Types' /\ StackInv'
  <2>1. k[c] \in DOMAIN ObjIds /\ Path(c) \in DOMAIN files
    BY <1>a, PathIs
  <2>2. files' \in [ObjPaths \cup StrangePaths -> {"absent", "part", "whole"}]
    BY <1>9, <1>a, <2>1, FileWritten DEF Open, Reopen, TypeOK
  <2>3. existed' \in [Clients -> [DOMAIN ObjIds -> BOOLEAN]]
    <3>1. CASE Open(c)
      BY <3>1, <1>a, <2>1 DEF Open, Types, Exists
    <3>2. CASE Reopen(c)
      BY <3>2, <1>a DEF Reopen, WriteReturns, Types
    <3> QED
      BY <1>9, <3>1, <3>2
  <2>4. CASE \/ Goto(c, "fill") /\ UNCHANGED <<k, ok>>
             \/ Goto(c, "mkdir1") /\ UNCHANGED <<k, ok>>
    BY <1>9, <1>a, <1>b, <2>2, <2>3, <2>4 DEF Open, Reopen, Goto, Types, TypeOK, StackInv
  <2>5. CASE WriteReturns(c, FALSE)
    BY <1>9, <1>a, <1>b, <2>2, <2>3, <2>5, ReturnsTyped DEF Open, Reopen, Types, TypeOK, StackInv
  <2> QED
    BY <1>9, <2>4, <2>5 DEF Open, Reopen
<1>10. ASSUME NEW c \in Clients, NEW n \in 1 .. 3, Mkdir(c, n) PROVE Types' /\ StackInv'
  <2>1. dirs' \subseteq Tree
    BY <1>10, <1>a, MkdirMakes DEF Mkdir, TypeOK
  <2>2. Mkdirs[n + 1] \in {"mkdir2", "mkdir3", "reopen"}
    BY DEF Mkdirs
  <2> QED
    BY <1>10, <1>a, <1>b, <2>1, <2>2 DEF Mkdir, Goto, Types, TypeOK, StackInv
<1>11. ASSUME NEW c \in Clients, Fill(c) PROVE Types' /\ StackInv'
  <2>1. files' \in [ObjPaths \cup StrangePaths -> {"absent", "part", "whole"}]
    BY <1>11, <1>a, PathIs, FileWritten DEF Fill, TypeOK
  <2>2. WriteReturns(c, TRUE) \/ WriteReturns(c, FALSE)
    BY <1>11 DEF Fill
  <2> QED
    BY <1>11, <1>a, <1>b, <2>1, <2>2, ReturnsTyped DEF Fill, Types, TypeOK, StackInv
<1>12. ASSUME NEW c \in Clients, Read(c) PROVE Types' /\ StackInv'
  <2>1. k' \in [Clients -> DOMAIN ObjIds]
    BY <1>12, <1>a, Indices DEF Read, TypeOK
  <2> QED
    BY <1>12, <1>a, <1>b, <2>1 DEF Read, Goto, Types, TypeOK, StackInv
<1>13. CASE UNCHANGED vars
  BY <1>13, <1>a, <1>b DEF vars, Types, TypeOK, StackInv
<1> QED
  BY <1>1, <1>2, <1>3, <1>4, <1>5, <1>6, <1>7, <1>8, <1>9, <1>10, <1>11, <1>12, <1>13
     DEF Next, ParentStep, TaskStep

LEMMA FillingStep ==
  ASSUME BaseInv, [Next]_vars
  PROVE  TasksFirst' /\ Filling'
<1> USE DEF Fault, NoFault, treeVars, parentVars, taskVars
<1>a. Types /\ TypeOK /\ TasksFirst /\ Filling
  BY DEF BaseInv, Types
<1>b. task \in [Clients -> {"born", "open", "mkdir1", "mkdir2", "mkdir3", "reopen",
                            "fill", "read", "done"}]
  BY <1>a DEF TypeOK
<1>c. files \in [ObjPaths \cup StrangePaths -> {"absent", "part", "whole"}]
  BY <1>a DEF TypeOK
<1>1. CASE DriverCreate \/ DriverDestroy \/ RmdirCall \/ RmdirEnd \/ RmdirPruned \/ DriverDestroyed
           \/ UNCHANGED vars
  <2>1. UNCHANGED <<task, k, files>> /\ (parent = "wait" => \/ parent' = "wait"
                                                             \/ \A c \in Clients : task[c] = "done")
    BY <1>1 DEF DriverCreate, DriverDestroy, RmdirCall, RmdirEnd, RmdirPruned, DriverDestroyed, vars
  <2> QED
    BY <1>a, <2>1 DEF TasksFirst, Filling, Path
<1>2. ASSUME NEW name \in Names, RmdirEntry(name) PROVE TasksFirst' /\ Filling'
  <2>1. UNCHANGED task /\ \A c \in Clients : task[c] \in {"born", "done"}
    BY <1>2, <1>a, EntryChanges DEF TasksFirst
  <2> QED
    BY <2>1 DEF TasksFirst, Filling
<1>3. ASSUME NEW c \in Clients, WorkerCreate(c) PROVE TasksFirst' /\ Filling'
  BY <1>3, <1>a, <1>b DEF WorkerCreate, Goto, TasksFirst, Filling, Path
<1>4. ASSUME NEW c \in Clients, task[c] \notin {"born", "done"}, UNCHANGED parent,
             \A d \in Clients \ {c} : task'[d] = task[d]
      PROVE  TasksFirst'
  BY <1>4, <1>a DEF TasksFirst
\* Nobody but a task itself writes its paths.
<1>5. ASSUME NEW c \in Clients, NEW d \in Clients \ {c} PROVE Path(d) # Path(c)
  BY <1>a, PathIs, OwnPaths DEF Path
<1>6. ASSUME NEW c \in Clients, Open(c) \/ Reopen(c) \/ Fill(c) PROVE TasksFirst' /\ Filling'
  <2>1. /\ task[c] \notin {"born", "done"} /\ UNCHANGED parent
        /\ UNCHANGED files \/ \E held \in {"part", "whole"} : files' = [files EXCEPT ![Path(c)] = held]
    BY <1>6 DEF Open, Reopen, Fill
  <2>2. \/ task' = [task EXCEPT ![c] = "fill"] /\ k' = k
           /\ files' = [files EXCEPT ![Path(c)] = "part"]
        \/ task' = [task EXCEPT ![c] = "mkdir1"] /\ k' = k
        \/ WriteReturns(c, FALSE) \/ WriteReturns(c, TRUE)
    BY <1>6 DEF Open, Reopen, Fill, Goto
  <2>3. /\ \A d \in Clients \ {c} : k'[d] = k[d] /\ task'[d] = task[d]
        /\ task'[c] = "fill" => files' = [files EXCEPT ![Path(c)] = "part"] /\ k' = k
    BY <1>a, <1>b, <2>2, ReturnsTyped
  <2>4. ASSUME NEW d \in Clients, task'[d] = "fill" PROVE files'[Path(d)'] = "part"
    <3>1. CASE d = c
      BY <1>a, <1>c, <2>3, <2>4, <3>1, PathIs DEF Path
    <3>2. CASE d # c
      <4>1. Path(d)' = Path(d) /\ files[Path(d)] = "part" /\ Path(d) # Path(c)
        BY <1>a, <1>5, <2>3, <2>4, <3>2 DEF Path, Filling
      <4>2. Path(d) \in DOMAIN files /\ Path(c) \in DOMAIN files
        BY <1>a, PathIs
      <4> QED
        BY <1>c, <2>1, <4>1, <4>2
    <3> QED
      BY <3>1, <3>2
  <2> QED
    BY <1>4, <2>1, <2>3, <2>4 DEF Filling
<1>7. ASSUME NEW c \in Clients, NEW n \in 1 .. 3, Mkdir(c, n) PROVE TasksFirst' /\ Filling'
  <2>1. task[c] = Mkdirs[n] /\ task' = [task EXCEPT ![c] = Mkdirs[n + 1]]
        /\ UNCHANGED <<parent, k, files>>
    BY <1>7 DEF Mkdir, Goto
  <2>2. Mkdirs[n] \notin {"born", "done"} /\ Mkdirs[n + 1] # "fill"
    BY DEF Mkdirs
  <2> QED
    BY <1>a, <1>b, <1>4, <2>1, <2>2 DEF Filling, Path
<1>8. ASSUME NEW c \in Clients, Read(c) PROVE TasksFirst' /\ Filling'
  <2>1. /\ task[c] = "read" /\ task'[c] # "fill" /\ UNCHANGED <<parent, files>>
        /\ \A d \in Clients \ {c} : k'[d] = k[d] /\ task'[d] = task[d]
    BY <1>8, <1>a, <1>b DEF Read, Goto, TypeOK
  <2> QED
    BY <1>a, <1>4, <2>1 DEF Filling, Path
<1> QED
  BY <1>1, <1>2, <1>3, <1>6, <1>7, <1>8 DEF Next, ParentStep, TaskStep

LEMMA BaseStep == BaseInv /\ [Next]_vars => BaseInv'
  BY TypesStep, FillingStep DEF BaseInv

LEMMA Base == Spec => []BaseInv
  BY InitBase, BaseStep, PTL DEF Spec

\* Every variable keeps its type, what there is is in a directory that is there,
\* and no more directories are open than may be (storage_dirtree_rmdir).
THEOREM TypeCorrect == Spec => []TypeOK
<1>1. BaseInv => TypeOK
  BY DEF BaseInv, Types
<1> QED
  BY <1>1, Base, PTL

-----------------------------------------------------------------------------
(* The parent's steps, call by call. *)

\* While the parent removes the workspace no task takes a step.
LEMMA TasksWait ==
  ASSUME BaseInv, NEW c \in Clients, TaskStep(c)
  PROVE  parent = "wait" /\ UNCHANGED parentVars
<1>1. task[c] \in {"born", "done"} \/ parent = "wait"
  BY DEF BaseInv, TasksFirst
<1>2. \A n \in 1 .. 3 : Mkdirs[n] \notin {"born", "done"}
  BY DEF Mkdirs
<1> QED
  BY <1>1, <1>2 DEF TaskStep, WorkerCreate, Open, Mkdir, Reopen, Fill, Read

LEMMA RmdirCallStack ==
  ASSUME BaseInv, RmdirCall
  PROVE  /\ UNCHANGED <<cwd, treeVars, outside, taskVars, lost>> /\ parent = "call" /\ Len(stack) \in Nat
         /\ \/ /\ parent' = "return" /\ stack' = stack /\ (Len(stack) >= OpenMax \/ Fault)
            \/ /\ parent' = "loop" /\ Len(stack') = Len(stack) + 1 /\ NoFault
               /\ \A j \in 1 .. Len(stack) : stack'[j] = stack[j]
               /\ stack'[Len(stack) + 1].left = Entries(cwd)
<1> DEFINE f == [left |-> Entries(cwd), pruned |-> <<>>, back |-> Root]
<1>1. f \in CallType /\ stack \in Seq(CallType) /\ f.left = Entries(cwd)
  BY NewCall DEF BaseInv, Types
<1>2. Len(stack) \in Nat /\ OpenMax \in Nat
  BY <1>1, DirTreeAssumption
<1>3. /\ UNCHANGED <<cwd, treeVars, outside, taskVars, lost>> /\ parent = "call"
      /\ \/ /\ Len(stack) < OpenMax /\ NoFault /\ stack' = Append(stack, f) /\ parent' = "loop"
         \/ /\ IF Len(stack) < OpenMax THEN Fault ELSE NoFault
            /\ parent' = "return" /\ UNCHANGED stack
  BY DEF RmdirCall
<1> HIDE DEF f
<1>4. ASSUME stack' = Append(stack, f)
      PROVE  /\ Len(stack') = Len(stack) + 1
             /\ \A j \in 1 .. Len(stack) : stack'[j] = stack[j]
             /\ stack'[Len(stack) + 1].left = Entries(cwd)
  BY <1>1, <1>4, Longer
<1> QED
  BY <1>2, <1>3, <1>4

LEMMA RmdirEntryStack ==
  ASSUME BaseInv, NEW name \in Names, RmdirEntry(name)
  PROVE  LET n == Len(stack)
             p == Entry(name)
         IN /\ parent = "loop" /\ n \in Nat \ {0} /\ name \in Name /\ cwd \in Seq(Name)
            /\ p \in Seq(Name) /\ Len(p) = Len(cwd) + 1
            /\ Front(p) = cwd /\ Last(p) = name
            /\ UNCHANGED <<workspace, dirs, sealed, links, taskVars>> /\ outside' \subseteq outside
            /\ \/ parent' = "crashed"
               \/ /\ Len(stack') = n /\ \A j \in 1 .. n - 1 : stack'[j] = stack[j]
                  /\ stack'[n].left = stack[n].left \ {name}
                  /\ \/ /\ ~Exists(p) \/ Fault
                        /\ UNCHANGED <<parent, cwd, files, outside, lost>>
                     \/ /\ p \in ObjPaths \cup OutsidePaths
                        /\ \/ p \in ObjPaths /\ files' = [files EXCEPT ![p] = "absent"]
                           \/ p \in OutsidePaths /\ UNCHANGED files
                           \/ Fault /\ UNCHANGED files
                        /\ UNCHANGED <<parent, cwd, lost>>
                     \/ /\ p \in dirs \cup DOMAIN links /\ parent' = "call"
                        /\ UNCHANGED <<files, outside>> /\ stack'[n].pruned = name
                        /\ \/ /\ stack'[n].back = cwd /\ lost' = lost
                              /\ cwd' = Target(p) \/ (cwd' = cwd /\ (p \in sealed \/ Fault))
                           \/ lost' = TRUE /\ Fault /\ cwd' \in {cwd, Target(p)}
<1> DEFINE n == Len(stack)
           p == Entry(name)
<1>1. parent = "loop" /\ stack # <<>> /\ name \in Name /\ cwd \in Seq(Name) /\ Types
  BY NamesAre DEF RmdirEntry, BaseInv, StackInv, Types
<1>2. /\ Frame \in CallType /\ Frame = stack[n] /\ n \in Nat \ {0}
      /\ Front(stack) \in Seq(CallType) /\ Len(Front(stack)) = n - 1
  BY <1>1, FrameIs
<1>3. \A j \in 1 .. n - 1 : Front(stack)[j] = stack[j]
  BY <1>1, Shorter DEF Types
<1>4. p \in Seq(Name) /\ Len(p) = Len(cwd) + 1 /\ Front(p) = cwd /\ Last(p) = name
  BY <1>1, Longer DEF Entry
<1>5. UNCHANGED <<workspace, dirs, sealed, links, taskVars>> /\ outside' \subseteq outside
  BY EntryChanges
<1> HIDE DEF n
<1>6. ASSUME NEW f \in CallType, stack' = Append(Front(stack), f)
      PROVE  Len(stack') = n /\ stack'[n] = f /\ \A j \in 1 .. n - 1 : stack'[j] = stack[j]
  <2>1. /\ Len(stack') = n - 1 + 1 /\ stack'[n - 1 + 1] = f
        /\ \A j \in 1 .. n - 1 : stack'[j] = Front(stack)[j]
    BY <1>2, <1>6, Longer
  <2> QED
    BY <1>2, <1>3, <2>1
<1>7. CASE parent' = "crashed"
  BY <1>1, <1>2, <1>4, <1>5, <1>7 DEF n
<1>8. CASE parent' # "crashed"
  <2>1. PICK f \in CallType :
          /\ stack' = Append(Front(stack), f)
          /\ f.left = Frame.left \ {name}
          /\ \/ /\ ~Exists(p) \/ Fault
                /\ UNCHANGED <<parent, cwd, files, outside, lost>>
             \/ /\ p \in ObjPaths \cup OutsidePaths
                /\ \/ p \in ObjPaths /\ files' = [files EXCEPT ![p] = "absent"]
                   \/ p \in OutsidePaths /\ UNCHANGED files
                   \/ Fault /\ UNCHANGED files
                /\ UNCHANGED <<parent, cwd, lost>>
             \/ /\ p \in dirs \cup DOMAIN links /\ parent' = "call"
                /\ UNCHANGED <<files, outside>> /\ f.pruned = name
                /\ \/ /\ f.back = cwd /\ lost' = lost
                      /\ cwd' = Target(p) \/ (cwd' = cwd /\ (p \in sealed \/ Fault))
                   \/ lost' = TRUE /\ Fault /\ cwd' \in {cwd, Target(p)}
    BY <1>1, <1>8, EntryTyped
  <2> HIDE DEF p
  <2>2. Len(stack') = n /\ stack'[n] = f /\ \A j \in 1 .. n - 1 : stack'[j] = stack[j]
    BY <1>6, <2>1
  <2>3. stack'[n].left = stack[n].left \ {name} /\ stack'[n].pruned = f.pruned
        /\ stack'[n].back = f.back
    BY <1>2, <2>1, <2>2
  <2> QED
    BY <1>1, <1>2, <1>4, <1>5, <2>1, <2>2, <2>3 DEF n, p
<1> QED
  BY <1>7, <1>8

LEMMA RmdirEndStack ==
  ASSUME BaseInv, RmdirEnd
  PROVE  LET n == Len(stack)
         IN /\ parent = "loop" /\ parent' = "return" /\ n \in Nat \ {0}
            /\ UNCHANGED <<cwd, treeVars, outside, taskVars, lost>> /\ stack[n].left = {}
            /\ Len(stack') = n - 1 /\ \A j \in 1 .. n - 1 : stack'[j] = stack[j]
<1>1. stack # <<>> /\ Types /\ stack \in Seq(CallType)
  BY DEF RmdirEnd, BaseInv, StackInv, Types
<1>2. Frame = stack[Len(stack)] /\ Len(stack) \in Nat \ {0}
  BY <1>1, FrameIs
<1>3. /\ Len(Front(stack)) = Len(stack) - 1
      /\ \A j \in 1 .. Len(stack) - 1 : Front(stack)[j] = stack[j]
  BY <1>1, Shorter
<1> QED
  BY <1>2, <1>3 DEF RmdirEnd

LEMMA RmdirPrunedStack ==
  ASSUME BaseInv, RmdirPruned
  PROVE  LET n == Len(stack)
             back == stack[n].back
         IN /\ parent = "return" /\ parent' = "loop" /\ n \in Nat \ {0}
            /\ UNCHANGED <<stack, workspace, sealed, links, files, outside, taskVars, lost>>
            /\ back \in Seq(Name) /\ stack[n].pruned \in Name
            /\ cwd' = back \/ cwd' = cwd
            /\ dirs' = dirs \/ dirs' = AfterRmdir(cwd', stack[n].pruned)
            /\ \/ Fault
               \/ /\ back = Root \/ Enterable(back) => cwd' = back
                  /\ dirs' = AfterRmdir(cwd', stack[n].pruned)
<1>1. stack # <<>> /\ Types
  BY DEF RmdirPruned, BaseInv
<1>2. /\ Frame = stack[Len(stack)] /\ Len(stack) \in Nat \ {0}
      /\ Frame.pruned \in Name /\ Frame.back \in Seq(Name)
  BY <1>1, FrameIs
<1>3. WayBack \in {Frame.back, cwd} /\ (Frame.back = Root \/ Enterable(Frame.back) => WayBack = Frame.back)
  BY DEF WayBack
<1>4. /\ parent = "return" /\ parent' = "loop"
      /\ UNCHANGED <<stack, workspace, sealed, links, files, outside, taskVars, lost>>
      /\ cwd' \in {WayBack, cwd}
      /\ dirs' = dirs \/ dirs' = AfterRmdir(cwd', Frame.pruned)
      /\ Fault \/ (cwd' = WayBack /\ dirs' = AfterRmdir(cwd', Frame.pruned))
  BY DEF RmdirPruned
<1> QED
  BY <1>2, <1>3, <1>4

-----------------------------------------------------------------------------
(* The parent stays inside. *)

\* The calls on the stack that wait for a deeper one to return: all of them,
\* but for one that reads its directory.
Waiting == IF parent = "loop" THEN Len(stack) - 1 ELSE Len(stack)

\* The way back goes up, through directories that are there: none of them can
\* be removed, because what is removed is below where the parent is.  A link to
\* the workspace is taken from the workspace, where all ways back lead to.
BackInv ==
  ~LeadsOut /\ ~lost /\ parent \in {"call", "loop", "return"} =>
    /\ cwd \in dirs \cup {Root}
    /\ \A j \in 1 .. Waiting :
         /\ stack[j].back \in dirs \cup {Root}
         /\ Len(stack[j].back) <= Len(cwd)
         /\ \A i \in 1 .. j : Len(stack[i].back) <= Len(stack[j].back)

LEMMA LenOfDirs ==
  ASSUME BaseInv, NEW d \in dirs \cup {Root}
  PROVE  d \in Seq(Name) /\ Len(d) \in Nat
  BY TreeParts, EmptySeq DEF BaseInv, Types, TypeOK, Root

\* What is removed from a directory is not above it.
LEMMA NotAbove ==
  ASSUME BaseInv, NEW here \in dirs \cup {Root}, NEW name \in Name,
         dirs' = AfterRmdir(here, name),
         NEW d \in dirs \cup {Root}, Len(d) <= Len(here)
  PROVE  d \in dirs' \cup {Root}
<1>1. here \in Seq(Name) /\ Len(here) \in Nat /\ Len(d) \in Nat
  BY LenOfDirs
<1>2. Len(Append(here, name)) = Len(here) + 1
  BY <1>1, Longer
<1>3. d # Append(here, name)
  BY <1>1, <1>2
<1> QED
  BY <1>3 DEF AfterRmdir

\* Once the way is lost it is.
LEMMA LostStays ==
  ASSUME [Next]_vars
  PROVE  lost => lost'
<1> USE DEF parentVars
<1>1. ASSUME NEW c \in Clients, TaskStep(c) PROVE lost' = lost
  BY <1>1 DEF TaskStep, WorkerCreate, Open, Mkdir, Reopen, Fill, Read
<1>2. ASSUME NEW name \in Names, RmdirEntry(name) PROVE lost => lost'
  BY <1>2, EntryChanges
<1>3. ASSUME DriverCreate \/ DriverDestroy \/ RmdirCall \/ RmdirEnd \/ RmdirPruned \/ DriverDestroyed
             \/ UNCHANGED vars
      PROVE  lost' = lost
  BY <1>3 DEF DriverCreate, DriverDestroy, RmdirCall, RmdirEnd, RmdirPruned, DriverDestroyed, vars
<1> QED
  BY <1>1, <1>2, <1>3 DEF Next, ParentStep

LEMMA BackStep ==
  ASSUME BaseInv, BackInv, [Next]_vars
  PROVE  BackInv'
<1> SUFFICES ASSUME ~LeadsOut', ~lost' PROVE BackInv'
  BY DEF BackInv
<1>a. ~LeadsOut
  BY FaultsGrow DEF LeadsOut
<1>b. ~lost
  BY LostStays
<1>1. CASE \/ DriverCreate \/ DriverDestroyed \/ \E c \in Clients : TaskStep(c)
  <2>1. parent' \notin {"call", "loop", "return"}
    BY <1>1, TasksWait DEF DriverCreate, DriverDestroyed, parentVars
  <2> QED
    BY <2>1 DEF BackInv
<1>2. CASE DriverDestroy
  <2>1. /\ parent = "wait" /\ UNCHANGED stack
        /\ parent' = "failed" \/ (parent' = "call" /\ cwd' = Root)
    BY <1>2 DEF DriverDestroy
  <2>2. stack = <<>>
    BY <2>1 DEF BaseInv, StackInv
  <2> QED
    BY <2>1, <2>2 DEF BackInv, Waiting
<1>3. CASE RmdirCall
  <2> USE <1>a, <1>b
  <2>1. /\ UNCHANGED <<cwd, dirs>> /\ parent = "call" /\ Len(stack) \in Nat
        /\ \/ parent' = "return" /\ stack' = stack
           \/ /\ parent' = "loop" /\ Len(stack') = Len(stack) + 1
              /\ \A j \in 1 .. Len(stack) : stack'[j] = stack[j]
    BY <1>3, RmdirCallStack DEF treeVars
  <2>2. Waiting = Len(stack) /\ Waiting' = Len(stack)
    BY <2>1 DEF Waiting
  <2>3. \A j \in 1 .. Len(stack) : stack'[j] = stack[j]
    BY <2>1
  <2> QED
    BY <2>1, <2>2, <2>3 DEF BackInv
<1>4. ASSUME NEW name \in Names, RmdirEntry(name) PROVE BackInv'
  <2> USE <1>a, <1>b
  <2> DEFINE n == Len(stack)
             p == Entry(name)
  <2>a. /\ parent = "loop" /\ n \in Nat \ {0} /\ Len(p) = Len(cwd) + 1 /\ UNCHANGED dirs
        /\ Front(p) = cwd
        /\ \/ parent' = "crashed"
           \/ /\ Len(stack') = n /\ \A j \in 1 .. n - 1 : stack'[j] = stack[j]
              /\ \/ UNCHANGED <<parent, cwd>>
                 \/ /\ p \in dirs \cup DOMAIN links /\ parent' = "call" /\ stack'[n].back = cwd
                    /\ cwd' = Target(p) \/ cwd' = cwd
    BY <1>4, RmdirEntryStack
  <2> HIDE DEF p
  <2>b. ASSUME p \in dirs \cup DOMAIN links
        PROVE  Target(p) \in dirs \cup {Root} /\ Len(cwd) <= Len(Target(p))
    <3>1. TypeOK /\ DOMAIN links \subseteq LinkPaths
      BY DEF BaseInv, Types, TypeOK
    <3>2. Target(p) \in dirs \cup {Root} /\ Len(Target(p)) \in Nat
      BY <2>b, <3>1, TargetIs, LenOfDirs
    <3>3. cwd \in dirs \cup {Root} /\ Len(cwd) \in Nat
      BY <2>a, LenOfDirs DEF BackInv
    <3>4. CASE p \in dirs
      <4>1. Target(p) = p
        BY <3>1, <3>4, TargetIs
      <4> QED
        BY <2>a, <3>2, <3>3, <4>1
    <3>5. CASE p \in DOMAIN links
      <4>1. cwd = Root /\ Len(Root) = 0
        BY <2>a, <3>1, <3>5, LinkParts DEF Root
      <4> QED
        BY <3>2, <4>1
    <3> QED
      BY <2>b, <3>4, <3>5
  <2>1. /\ parent = "loop" /\ n \in Nat \ {0} /\ UNCHANGED dirs
        /\ \/ parent' = "crashed"
           \/ /\ Len(stack') = n /\ \A j \in 1 .. n - 1 : stack'[j] = stack[j]
              /\ \/ UNCHANGED <<parent, cwd>>
                 \/ /\ parent' = "call" /\ stack'[n].back = cwd
                    /\ \/ cwd' \in dirs \cup {Root} /\ Len(cwd) <= Len(cwd')
                       \/ cwd' = cwd
    BY <2>a, <2>b
  <2>2. Waiting = n - 1
    BY <2>1 DEF Waiting
  <2>3. cwd \in dirs \cup {Root} /\ Len(cwd) \in Nat
    BY <2>1, LenOfDirs DEF BackInv
  <2>4. \A j \in 1 .. n - 1 : /\ stack[j].back \in dirs \cup {Root}
                              /\ Len(stack[j].back) <= Len(cwd) /\ Len(stack[j].back) \in Nat
                              /\ \A i \in 1 .. j : Len(stack[i].back) <= Len(stack[j].back)
    BY <2>1, <2>2, LenOfDirs DEF BackInv
  <2>5. CASE parent' = "crashed"
    BY <2>5 DEF BackInv
  <2>6. CASE /\ Len(stack') = n /\ \A j \in 1 .. n - 1 : stack'[j] = stack[j]
             /\ UNCHANGED <<parent, cwd>>
    <3>1. Waiting' = n - 1
      BY <2>1, <2>6 DEF Waiting
    <3>2. \A j \in 1 .. n - 1 : \A i \in 1 .. j : stack'[i] = stack[i]
      BY <2>1, <2>6
    <3> QED
      BY <2>1, <2>3, <2>4, <2>6, <3>1, <3>2 DEF BackInv
  <2>7. CASE /\ Len(stack') = n /\ \A j \in 1 .. n - 1 : stack'[j] = stack[j]
             /\ parent' = "call" /\ stack'[n].back = cwd
             /\ \/ cwd' \in dirs \cup {Root} /\ Len(cwd) <= Len(cwd')
                \/ cwd' = cwd
    <3>1. Waiting' = n
      BY <2>7 DEF Waiting
    <3>2. Len(cwd) <= Len(cwd') /\ cwd' \in dirs \cup {Root} /\ Len(cwd') \in Nat
      BY <2>1, <2>3, <2>7, LenOfDirs
    <3>3. ASSUME NEW j \in 1 .. n
          PROVE  /\ stack'[j].back \in dirs \cup {Root} /\ Len(stack'[j].back) <= Len(cwd')
                 /\ \A i \in 1 .. j : Len(stack'[i].back) <= Len(stack'[j].back)
      <4>1. CASE j = n
        <5>1. \A i \in 1 .. n - 1 : Len(stack'[i].back) <= Len(cwd)
          BY <2>4, <2>7
        <5>2. stack'[j].back = cwd /\ cwd \in dirs' \cup {Root} /\ Len(cwd) <= Len(cwd)
          BY <2>1, <2>3, <2>7, <4>1
        <5>3. ASSUME NEW i \in 1 .. j PROVE Len(stack'[i].back) <= Len(cwd)
          <6>1. i = n \/ i \in 1 .. n - 1
            BY <2>1, <4>1
          <6> QED
            BY <2>7, <5>1, <5>2, <6>1, <4>1
        <5> QED
          BY <2>1, <3>2, <5>2, <5>3
      <4>2. CASE j # n
        <5>1. j \in 1 .. n - 1 /\ \A i \in 1 .. j : i \in 1 .. n - 1
          BY <2>1, <4>2
        <5>2. stack'[j] = stack[j] /\ \A i \in 1 .. j : stack'[i] = stack[i]
          BY <2>7, <5>1
        <5>3. Len(stack[j].back) <= Len(cwd')
          BY <2>3, <2>4, <3>2, <5>1
        <5> QED
          BY <2>4, <5>1, <5>2, <5>3
      <4> QED
        BY <4>1, <4>2
    <3> QED
      BY <2>1, <3>1, <3>2, <3>3 DEF BackInv
  <2> QED
    BY <2>1, <2>5, <2>6, <2>7
<1>5. CASE RmdirEnd
  <2> USE <1>a, <1>b
  <2> DEFINE n == Len(stack)
  <2>1. /\ parent = "loop" /\ parent' = "return" /\ n \in Nat \ {0} /\ UNCHANGED <<cwd, dirs>>
        /\ Len(stack') = n - 1 /\ \A j \in 1 .. n - 1 : stack'[j] = stack[j]
    BY <1>5, RmdirEndStack DEF treeVars
  <2>2. Waiting = n - 1 /\ Waiting' = n - 1
    BY <2>1 DEF Waiting
  <2>3. \A j \in 1 .. n - 1 : \A i \in 1 .. j : stack'[i] = stack[i]
    BY <2>1
  <2> QED
    BY <2>1, <2>2, <2>3 DEF BackInv
<1>6. CASE RmdirPruned
  <2> USE <1>a, <1>b
  <2> DEFINE n == Len(stack)
             back == stack[n].back
             name == stack[n].pruned
  <2>1. /\ parent = "return" /\ parent' = "loop" /\ n \in Nat \ {0} /\ UNCHANGED stack
        /\ name \in Name
        /\ cwd' = back \/ cwd' = cwd
        /\ dirs' = dirs \/ dirs' = AfterRmdir(cwd', name)
    BY <1>6, RmdirPrunedStack
  <2>2. Waiting = n /\ Waiting' = n - 1
    BY <2>1 DEF Waiting
  <2>3. /\ back \in dirs \cup {Root} /\ cwd \in dirs \cup {Root}
        /\ \A j \in 1 .. n : /\ stack[j].back \in dirs \cup {Root}
                             /\ Len(stack[j].back) <= Len(cwd) /\ Len(stack[j].back) <= Len(back)
                             /\ \A i \in 1 .. j : Len(stack[i].back) <= Len(stack[j].back)
    BY <2>1, <2>2 DEF BackInv
  <2> HIDE DEF back, name
  <2>4. cwd' \in dirs \cup {Root} /\ Len(cwd') <= Len(cwd') /\ Len(cwd') \in Nat
    BY <2>1, <2>3, LenOfDirs
  <2>5. \A j \in 1 .. n : Len(stack[j].back) <= Len(cwd')
    BY <2>1, <2>3
  <2>6. ASSUME NEW d \in dirs \cup {Root}, Len(d) <= Len(cwd') PROVE d \in dirs' \cup {Root}
    <3>1. CASE dirs' = dirs
      BY <3>1
    <3>2. CASE dirs' = AfterRmdir(cwd', name)
      BY <2>1, <2>4, <2>6, <3>2, NotAbove
    <3> QED
      BY <2>1, <3>1, <3>2
  <2>7. \A j \in 1 .. n - 1 : j \in 1 .. n
    BY <2>1
  <2> QED
    BY <2>1, <2>2, <2>3, <2>4, <2>5, <2>6, <2>7 DEF BackInv
<1>7. CASE UNCHANGED vars
  BY <1>7, <1>a, <1>b DEF vars, BackInv, Waiting
<1> QED
  BY <1>1, <1>2, <1>3, <1>4, <1>5, <1>6, <1>7 DEF Next, ParentStep

\* Whichever chdir fails and however often, the parent removes from no place but
\* the workspace and directories that are still there, if no symbolic link leads
\* out of the workspace and getcwd does not fail (storage_dirtree_rmdir).
THEOREM Inside == Spec => []StaysInside
<1>1. Init => BackInv
  BY DEF Init, BackInv
<1>2. BaseInv /\ BackInv /\ [Next]_vars => BackInv'
  BY BackStep
<1>3. BackInv => StaysInside
  BY DEF BackInv, StaysInside
<1> QED
  BY <1>1, <1>2, <1>3, Base, PTL DEF Spec

-----------------------------------------------------------------------------
(* A run uses its workspace as the abstract one. *)

LEMMA WorkspaceInit == Init => WS!Init
<1> SUFFICES ASSUME Init PROVE WS!Init
  OBVIOUS
<1>1. BaseInv
  BY InitBase
<1>2. Removing = FALSE /\ BeingPut = {}
  BY DEF Init, Removing, BeingPut
<1>3. Held \in [ObjPaths -> {"absent", "part", "whole", "huge"}]
  BY <1>1 DEF BaseInv, Types, TypeOK, Held
<1> QED
  BY <1>2, <1>3 DEF WS!Init

\* Another task's path is another path.
LEMMA OthersPaths ==
  ASSUME BaseInv, NEW c \in Clients, NEW d \in Clients, c # d
  PROVE  Path(c) # Path(d)
  BY PathIs, OwnPaths DEF Path, BaseInv, Types

\* What the steps of one task change of what is being put.
LEMMA PutChanges ==
  ASSUME BaseInv, NEW c \in Clients,
         \A d \in Clients \ {c} : k'[d] = k[d] /\ task'[d] = task[d]
  PROVE  /\ task[c] # "fill" /\ task'[c] # "fill" => BeingPut' = BeingPut
         /\ task[c] # "fill" /\ task'[c] = "fill" => BeingPut' = BeingPut \cup {Path(c)'}
         /\ task[c] = "fill" /\ task'[c] # "fill" => BeingPut' = BeingPut \ {Path(c)}
<1>1. \A d \in Clients \ {c} : Path(d)' = Path(d)
  BY DEF Path
<1>2. \A p : p \in BeingPut <=> \E d \in Clients : task[d] = "fill" /\ p = Path(d)
  BY DEF BeingPut
<1>3. \A p : p \in BeingPut' <=> \E d \in Clients : task'[d] = "fill" /\ p = Path(d)'
  BY DEF BeingPut
<1>4. \A d \in Clients \ {c} : Path(d) # Path(c)
  BY OthersPaths
<1>5. ASSUME task[c] # "fill", task'[c] # "fill" PROVE BeingPut' = BeingPut
  BY <1>1, <1>2, <1>3, <1>5
<1>6. ASSUME task[c] # "fill", task'[c] = "fill" PROVE BeingPut' = BeingPut \cup {Path(c)'}
  BY <1>1, <1>2, <1>3, <1>6
<1>7. ASSUME task[c] = "fill", task'[c] # "fill" PROVE BeingPut' = BeingPut \ {Path(c)}
  BY <1>1, <1>2, <1>3, <1>4, <1>7
<1> QED
  BY <1>5, <1>6, <1>7

\* The parent's steps: the objects' files stay, or it goes on removing.
LEMMA ParentRefines ==
  ASSUME BaseInv, UNCHANGED taskVars, BeingPut = {} \/ (Removing' = Removing /\ UNCHANGED files),
         Removing => Removing',
         \/ UNCHANGED files
         \/ Removing /\ \E p \in ObjPaths : files' = [files EXCEPT ![p] = "absent"]
  PROVE  WS!Next \/ UNCHANGED WS!vars
<1>1. BeingPut' = BeingPut
  BY DEF BeingPut, Path, taskVars
<1>2. files \in [ObjPaths \cup StrangePaths -> {"absent", "part", "whole"}]
  BY DEF BaseInv, Types, TypeOK
<1>3. Removing \in BOOLEAN /\ Removing' \in BOOLEAN
  BY DEF Removing
<1>4. CASE UNCHANGED files /\ Removing' = Removing
  BY <1>1, <1>4 DEF Held, WS!vars
<1>5. CASE UNCHANGED files /\ Removing' # Removing
  <2>1. Removing' = TRUE /\ BeingPut = {}
    BY <1>3, <1>5
  <2> DEFINE gone == {}
  <2>2. Held' = [o \in ObjPaths |-> IF o \in gone /\ Removing THEN "absent" ELSE Held[o]]
    BY <1>5 DEF Held
  <2>3. WS!Remove
    BY <1>1, <2>1, <2>2 DEF WS!Remove
  <2> QED
    BY <2>3 DEF WS!Next
<1>6. ASSUME NEW p \in ObjPaths, files' = [files EXCEPT ![p] = "absent"], Removing
      PROVE  WS!Next \/ UNCHANGED WS!vars
  <2>1. CASE BeingPut = {}
    <3> DEFINE gone == {p}
    <3>1. Held' = [o \in ObjPaths |-> IF o \in gone /\ Removing THEN "absent" ELSE Held[o]]
      BY <1>2, <1>6 DEF Held
    <3>2. Removing' = TRUE
      BY <1>3, <1>6
    <3>3. WS!Remove
      BY <1>1, <2>1, <3>1, <3>2 DEF WS!Remove
    <3> QED
      BY <3>3 DEF WS!Next
  <2>2. CASE UNCHANGED files /\ Removing' = Removing
    BY <1>4, <2>2
  <2> QED
    BY <2>1, <2>2
<1> QED
  BY <1>4, <1>5, <1>6

LEMMA WorkspaceStep ==
  ASSUME BaseInv, [Next]_vars
  PROVE  WS!Next \/ UNCHANGED WS!vars
<1> USE DEF Fault, NoFault, treeVars, parentVars
<1>a. /\ files \in [ObjPaths \cup StrangePaths -> {"absent", "part", "whole"}]
      /\ task \in [Clients -> {"born", "open", "mkdir1", "mkdir2", "mkdir3", "reopen",
                               "fill", "read", "done"}]
      /\ Types /\ TypeOK
  BY DEF BaseInv, Types, TypeOK
<1>b. ASSUME parent # "wait" \/ \A c \in Clients : task[c] = "done" PROVE BeingPut = {}
  BY <1>b DEF BeingPut, BaseInv, TasksFirst
<1>1. CASE UNCHANGED vars
  BY <1>1 DEF vars, WS!vars, Removing, Held, BeingPut, Path
<1>2. CASE DriverCreate \/ DriverDestroy \/ RmdirCall \/ RmdirEnd \/ RmdirPruned \/ DriverDestroyed
  <2>1. /\ UNCHANGED <<taskVars, files>> /\ (Removing => Removing')
        /\ parent # "wait" \/ \A c \in Clients : task[c] = "done"
    BY <1>2 DEF DriverCreate, DriverDestroy, RmdirCall, RmdirEnd, RmdirPruned, DriverDestroyed,
         Removing
  <2> QED
    BY <2>1, <1>b, ParentRefines
<1>3. ASSUME NEW name \in Names, RmdirEntry(name) PROVE WS!Next \/ UNCHANGED WS!vars
  <2>1. /\ UNCHANGED taskVars /\ parent = "loop" /\ Removing /\ Removing'
        /\ \/ UNCHANGED files
           \/ \E p \in ObjPaths : files' = [files EXCEPT ![p] = "absent"]
    BY <1>3, EntryChanges DEF Removing
  <2> QED
    BY <2>1, <1>b, ParentRefines
<1>4. ASSUME NEW c \in Clients, TaskStep(c) PROVE WS!Next \/ UNCHANGED WS!vars
  <2>1. ~Removing /\ Removing' = Removing
    BY <1>4, TasksWait DEF Removing
  <2>2. Path(c) \in ObjPaths
    BY <1>a, PathIs
  <2>3. CASE WorkerCreate(c) \/ Read(c) \/ \E n \in 1 .. 3 : Mkdir(c, n)
    <3>1. /\ UNCHANGED files /\ task[c] # "fill" /\ task'[c] # "fill"
          /\ \A d \in Clients \ {c} : k'[d] = k[d] /\ task'[d] = task[d]
      <4>1. CASE WorkerCreate(c) \/ Read(c)
        BY <4>1, <1>a DEF WorkerCreate, Read, Goto, TypeOK
      <4>2. ASSUME NEW n \in 1 .. 3, Mkdir(c, n)
            PROVE  /\ UNCHANGED <<files, k>> /\ task[c] # "fill" /\ task'[c] # "fill"
                   /\ \A d \in Clients \ {c} : task'[d] = task[d]
        <5>1. Mkdirs[n] # "fill" /\ Mkdirs[n + 1] # "fill"
          BY DEF Mkdirs
        <5> QED
          BY <1>a, <4>2, <5>1 DEF Mkdir, Goto
      <4> QED
        BY <2>3, <4>1, <4>2
    <3>2. BeingPut' = BeingPut
      BY <3>1, PutChanges
    <3> QED
      BY <2>1, <3>1, <3>2 DEF WS!vars, Held
  <2>4. CASE Open(c) \/ Reopen(c)
    <3>1. task[c] # "fill"
      BY <2>4 DEF Open, Reopen
    <3>2. CASE /\ CanCreate(Path(c)) /\ files' = [files EXCEPT ![Path(c)] = "part"]
               /\ Goto(c, "fill") /\ UNCHANGED k
      <4>1. files[Path(c)] = "absent"
        BY <1>a, <2>2, <3>2, PresentIs DEF CanCreate, Exists
      <4>2. Held[Path(c)] = "absent" /\ Held' = [Held EXCEPT ![Path(c)] = "part"]
        BY <1>a, <2>2, <3>2, <4>1 DEF Held
      <4>3. BeingPut' = BeingPut \cup {Path(c)}
        <5>1. Path(c)' = Path(c) /\ task'[c] = "fill" /\ \A d \in Clients \ {c} : k'[d] = k[d] /\ task'[d] = task[d]
          BY <1>a, <3>2 DEF Path, Goto
        <5> QED
          BY <3>1, <5>1, PutChanges
      <4>4. Held'[Path(c)] = "part"
        BY <2>2, <4>2 DEF Held
      <4>5. WS!Put(Path(c))
        BY <2>1, <4>2, <4>3, <4>4 DEF WS!Put
      <4> QED
        BY <2>2, <4>5 DEF WS!Next
    <3>3. CASE UNCHANGED files /\ ((Goto(c, "mkdir1") /\ UNCHANGED k) \/ WriteReturns(c, FALSE))
      <4>1. task'[c] # "fill" /\ \A d \in Clients \ {c} : k'[d] = k[d] /\ task'[d] = task[d]
        BY <1>a, <3>3, ReturnsTyped DEF Goto
      <4>2. BeingPut' = BeingPut
        BY <3>1, <4>1, PutChanges
      <4> QED
        BY <2>1, <3>3, <4>2 DEF WS!vars, Held
    <3> QED
      BY <2>4, <3>2, <3>3 DEF Open, Reopen
  <2>5. CASE Fill(c)
    <3>1. /\ task[c] = "fill" /\ files[Path(c)] = "part"
          /\ WriteReturns(c, TRUE) \/ WriteReturns(c, FALSE)
          /\ \E held \in {"part", "whole"} : files' = [files EXCEPT ![Path(c)] = held]
      BY <2>5 DEF Fill, BaseInv, Filling
    <3>2. task'[c] # "fill" /\ \A d \in Clients \ {c} : k'[d] = k[d] /\ task'[d] = task[d]
      BY <1>a, <3>1, ReturnsTyped
    <3>3. BeingPut' = BeingPut \ {Path(c)} /\ Path(c) \in BeingPut
      <4>1. Path(c) \in BeingPut
        BY <3>1 DEF BeingPut
      <4> QED
        BY <3>1, <3>2, <4>1, PutChanges
    <3>4. Held' = Held \/ Held' = [Held EXCEPT ![Path(c)] = "whole"]
      <4>1. CASE files' = [files EXCEPT ![Path(c)] = "part"]
        <5>1. files' = files
          BY <1>a, <2>2, <3>1, <4>1
        <5> QED
          BY <5>1 DEF Held
      <4>2. CASE files' = [files EXCEPT ![Path(c)] = "whole"]
        BY <1>a, <2>2, <4>2 DEF Held
      <4> QED
        BY <3>1, <4>1, <4>2
    <3>5. WS!Finish(Path(c))
      BY <2>1, <3>3, <3>4 DEF WS!Finish
    <3> QED
      BY <2>2, <3>5 DEF WS!Next
  <2> QED
    BY <1>4, <2>3, <2>4, <2>5 DEF TaskStep
<1> QED
  BY <1>1, <1>2, <1>3, <1>4 DEF Next, ParentStep

\* No object is put over another or changed but by its removal, and none is put
\* once that has begun, for any number of tasks and faults
\* (storage_dirtree_write, storage_dirtree_driver_destroy).
THEOREM WorkspaceRefined == Spec => WorkspaceKept
<1>1. BaseInv /\ [Next]_vars => [WS!Next]_(WS!vars)
  BY WorkspaceStep
<1> QED
  BY <1>1, WorkspaceInit, Base, PTL DEF Spec, WorkspaceKept, WS!Spec

-----------------------------------------------------------------------------
(* Directories are made on demand. *)

Undisturbed == faults = 0 /\ sealed = {} /\ parent \in {"create", "wait"}

\* What a task has behind it: the directories it has made or found, what it
\* found of its object's file, and how its writes went.
Reached(c) ==
  /\ task[c] = "born" => k[c] = 1
  /\ task[c] \notin {"born", "done"} => workspace = "dir"
  /\ \A m \in 1 .. 4 : task[c] = Mkdirs[m] =>
       /\ \A n \in 1 .. 3 : n < m => GenDir(c, ObjIds[k[c]], n) \in dirs
       /\ existed[c][k[c]] <=> files[Path(c)] # "absent"
  /\ task[c] = "fill" => ~existed[c][k[c]]
  /\ \A i \in DOMAIN ObjIds : Written(c, i) =>
       /\ ok[c][i] <=> ~existed[c][i]
       /\ files[Pathname(c, ObjIds[i])] = "whole"

\* A file that is not whole is being filled.
PartsOpen == \A p \in ObjPaths : files[p] = "part" => p \in BeingPut

DemandInv == Undisturbed => PartsOpen /\ \A c \in Clients : Reached(c)

LEMMA MkdirsAre ==
  /\ Mkdirs[1] = "mkdir1" /\ Mkdirs[2] = "mkdir2" /\ Mkdirs[3] = "mkdir3" /\ Mkdirs[4] = "reopen"
  /\ \A n \in 1 .. 4 : Mkdirs[n] \in {"mkdir1", "mkdir2", "mkdir3", "reopen"}
  /\ \A m, n \in 1 .. 4 : Mkdirs[m] = Mkdirs[n] => m = n
<1>1. /\ Mkdirs[1] = "mkdir1" /\ Mkdirs[2] = "mkdir2" /\ Mkdirs[3] = "mkdir3"
      /\ Mkdirs[4] = "reopen"
  BY DEF Mkdirs
<1>2. \A n \in 1 .. 4 : n = 1 \/ n = 2 \/ n = 3 \/ n = 4
  OBVIOUS
<1> QED
  BY <1>1, <1>2

\* The directories an object needs can be entered when they are there.
LEMMA CanEnter ==
  ASSUME NEW c \in Clients, NEW i \in DOMAIN ObjIds, workspace = "dir", sealed = {}
  PROVE  LET o == ObjIds[i]
         IN /\ Enterable(Front(GenDir(c, o, 1)))
            /\ GenDir(c, o, 1) \in dirs => Enterable(Front(GenDir(c, o, 2)))
            /\ GenDir(c, o, 1) \in dirs /\ GenDir(c, o, 2) \in dirs =>
                 Enterable(Front(GenDir(c, o, 3)))
            /\ GenDir(c, o, 1) \in dirs /\ GenDir(c, o, 2) \in dirs /\ GenDir(c, o, 3) \in dirs =>
                 Enterable(Front(Pathname(c, o)))
<1> DEFINE o == ObjIds[i]
           g(n) == GenDir(c, o, n)
<1>1. Enterable(Root)
  <2>1. Len(Root) = 0
    BY DEF Root
  <2> QED
    BY <2>1 DEF Enterable
<1>2. ASSUME NEW n \in 1 .. 3, \A m \in 1 .. n : GenDir(c, o, m) \in dirs
      PROVE  Enterable(GenDir(c, o, n))
  <2>1. /\ Len(GenDir(c, o, n)) = n
        /\ \A m \in 1 .. n : SubSeq(GenDir(c, o, n), 1, m) = GenDir(c, o, m)
    BY PathParts
  <2> QED
    BY <1>2, <2>1 DEF Enterable
<1>3. /\ Front(GenDir(c, o, 1)) = Root /\ Front(GenDir(c, o, 2)) = GenDir(c, o, 1)
      /\ Front(GenDir(c, o, 3)) = GenDir(c, o, 2) /\ Front(Pathname(c, o)) = GenDir(c, o, 3)
  BY PathParts
<1>4. ASSUME GenDir(c, o, 1) \in dirs PROVE Enterable(GenDir(c, o, 1))
  <2>1. \A m \in 1 .. 1 : m = 1
    OBVIOUS
  <2> QED
    BY <1>2, <1>4, <2>1
<1>5. ASSUME GenDir(c, o, 1) \in dirs, GenDir(c, o, 2) \in dirs PROVE Enterable(GenDir(c, o, 2))
  <2>1. \A m \in 1 .. 2 : m = 1 \/ m = 2
    OBVIOUS
  <2> QED
    BY <1>2, <1>5, <2>1
<1>6. ASSUME GenDir(c, o, 1) \in dirs, GenDir(c, o, 2) \in dirs, GenDir(c, o, 3) \in dirs
      PROVE  Enterable(GenDir(c, o, 3))
  <2>1. \A m \in 1 .. 3 : m = 1 \/ m = 2 \/ m = 3
    OBVIOUS
  <2> QED
    BY <1>2, <1>6, <2>1
<1> QED
  BY <1>1, <1>3, <1>4, <1>5, <1>6

\* One note in a table of a task's writes.
LEMMA Noted ==
  ASSUME NEW f \in [Clients -> [DOMAIN ObjIds -> BOOLEAN]], NEW c \in Clients,
         NEW i \in DOMAIN ObjIds, NEW v \in BOOLEAN
  PROVE  LET g == [f EXCEPT ![c][i] = v]
         IN /\ g[c][i] = v
            /\ \A j \in DOMAIN ObjIds : j # i => g[c][j] = f[c][j]
            /\ \A d \in Clients : d # c => g[d] = f[d]
  OBVIOUS

\* What a step of another task leaves as it is.
LEMMA OtherReached ==
  ASSUME BaseInv, NEW c \in Clients, NEW d \in Clients, c # d, Reached(d),
         k'[d] = k[d], task'[d] = task[d], ok'[d] = ok[d], existed'[d] = existed[d],
         workspace' = workspace, dirs \subseteq dirs',
         \A p \in ObjPaths : p # Path(c) => files'[p] = files[p]
  PROVE  Reached(d)'
<1>1. Path(d)' = Path(d) /\ files'[Path(d)] = files[Path(d)]
  BY OthersPaths, PathIs DEF Path, BaseInv, Types
<1>2. \A i \in DOMAIN ObjIds : files'[Pathname(d, ObjIds[i])] = files[Pathname(d, ObjIds[i])]
  <2> SUFFICES ASSUME NEW i \in DOMAIN ObjIds
               PROVE  files'[Pathname(d, ObjIds[i])] = files[Pathname(d, ObjIds[i])]
    OBVIOUS
  <2>1. Pathname(d, ObjIds[i]) \in ObjPaths
    BY DEF ObjPaths
  <2>2. Pathname(d, ObjIds[i]) # Path(c)
    BY PathIs, OwnPaths DEF Path, BaseInv, Types
  <2> QED
    BY <2>1, <2>2
<1>3. \A i \in DOMAIN ObjIds : Written(d, i)' <=> Written(d, i)
  BY DEF Written
<1>4. \A m \in 1 .. 4 : task'[d] = Mkdirs[m] =>
        /\ \A n \in 1 .. 3 : n < m => GenDir(d, ObjIds[k'[d]], n) \in dirs'
        /\ existed'[d][k'[d]] <=> files'[Path(d)'] # "absent"
  BY <1>1 DEF Reached
<1>5. \A i \in DOMAIN ObjIds : Written(d, i)' =>
        /\ ok'[d][i] <=> ~existed'[d][i]
        /\ files'[Pathname(d, ObjIds[i])] = "whole"
  BY <1>2, <1>3 DEF Reached
<1>6. /\ task'[d] = "born" => k'[d] = 1
      /\ task'[d] \notin {"born", "done"} => workspace' = "dir"
      /\ task'[d] = "fill" => ~existed'[d][k'[d]]
  BY DEF Reached
<1> QED
  BY <1>4, <1>5, <1>6 DEF Reached

\* The end of a write that says what it found, when the file is whole.
LEMMA ReturnsReached ==
  ASSUME BaseInv, NEW c \in Clients, NEW result \in BOOLEAN, WriteReturns(c, result),
         Reached(c), task[c] \notin {"born", "done"}, result <=> ~existed[c][k[c]],
         workspace' = workspace, files'[Path(c)] = "whole",
         \A p \in ObjPaths : p # Path(c) => files'[p] = files[p]
  PROVE  Reached(c)'
<1>1. /\ ok' = [ok EXCEPT ![c][k[c]] = result] /\ existed' = existed
      /\ k[c] \in DOMAIN ObjIds /\ DOMAIN ObjIds = 1 .. Len(ObjIds) /\ Len(ObjIds) \in Nat
      /\ ok \in [Clients -> [DOMAIN ObjIds -> BOOLEAN]]
  BY Indices DEF WriteReturns, BaseInv, Types, TypeOK
<1>2. ok'[c][k[c]] = result /\ \A j \in DOMAIN ObjIds : j # k[c] => ok'[c][j] = ok[c][j]
  BY <1>1, Noted
<1>3. \/ k[c] < Len(ObjIds) /\ k'[c] = k[c] + 1 /\ task'[c] = "open"
      \/ ~(k[c] < Len(ObjIds)) /\ k'[c] = 1 /\ task'[c] = "read"
  BY DEF WriteReturns, Goto, BaseInv, Types, TypeOK
<1>4. ASSUME NEW i \in DOMAIN ObjIds, Written(c, i)' PROVE i = k[c] \/ (i # k[c] /\ Written(c, i))
  <2>1. i <= k[c]
    BY <1>1, <1>3, <1>4 DEF Written
  <2> QED
    BY <1>1, <2>1 DEF Written
<1>5. ASSUME NEW i \in DOMAIN ObjIds, Written(c, i)'
      PROVE  (ok'[c][i] <=> ~existed'[c][i]) /\ files'[Pathname(c, ObjIds[i])] = "whole"
  <2>1. CASE i = k[c]
    BY <1>1, <1>2, <2>1 DEF Path
  <2>2. CASE i # k[c] /\ Written(c, i)
    <3>1. (ok[c][i] <=> ~existed[c][i]) /\ files[Pathname(c, ObjIds[i])] = "whole"
      BY <2>2 DEF Reached
    <3>2. Pathname(c, ObjIds[i]) \in ObjPaths
      BY DEF ObjPaths
    <3> QED
      BY <1>1, <1>2, <2>2, <3>1, <3>2
  <2> QED
    BY <1>4, <1>5, <2>1, <2>2
<1>6. \A m \in 1 .. 4 : task'[c] # Mkdirs[m]
  BY <1>3, MkdirsAre
<1>7. task'[c] \notin {"born", "fill", "done"} /\ workspace' = "dir"
  BY <1>3 DEF Reached
<1> QED
  BY <1>5, <1>6, <1>7 DEF Reached

\* What a step of one task, nothing failing, does to the others' files and tables.
LEMMA OthersKept ==
  ASSUME BaseInv, NEW c \in Clients, TaskStep(c), ~Fault
  PROVE  /\ workspace' = workspace /\ dirs \subseteq dirs' /\ UNCHANGED sealed
         /\ \A d \in Clients \ {c} : /\ k'[d] = k[d] /\ task'[d] = task[d]
                                     /\ ok'[d] = ok[d] /\ existed'[d] = existed[d]
         /\ \A p \in ObjPaths : p # Path(c) => files'[p] = files[p]
<1> USE DEF treeVars, parentVars, NoFault
<1>a. /\ files \in [ObjPaths \cup StrangePaths -> {"absent", "part", "whole"}]
      /\ task \in [Clients -> {"born", "open", "mkdir1", "mkdir2", "mkdir3", "reopen",
                               "fill", "read", "done"}]
      /\ existed \in [Clients -> [DOMAIN ObjIds -> BOOLEAN]]
      /\ ok \in [Clients -> [DOMAIN ObjIds -> BOOLEAN]]
      /\ k \in [Clients -> DOMAIN ObjIds] /\ Types /\ k[c] \in DOMAIN ObjIds
  BY DEF BaseInv, Types, TypeOK
<1>b. ASSUME NEW result \in BOOLEAN, WriteReturns(c, result)
      PROVE  \A d \in Clients \ {c} : /\ k'[d] = k[d] /\ task'[d] = task[d]
                                      /\ ok'[d] = ok[d] /\ existed'[d] = existed[d]
  <2>1. ok' = [ok EXCEPT ![c][k[c]] = result] /\ existed' = existed
    BY <1>b DEF WriteReturns
  <2>2. \A d \in Clients \ {c} : ok'[d] = ok[d]
    BY <1>a, <2>1
  <2> QED
    BY <1>a, <1>b, <2>1, <2>2, ReturnsTyped
<1>1. CASE WorkerCreate(c)
  BY <1>1, <1>a DEF WorkerCreate, Goto
<1>2. CASE Open(c)
  <2>1. /\ existed' = [existed EXCEPT ![c][k[c]] = Exists(Path(c))] /\ UNCHANGED <<workspace, dirs, sealed, k, ok>>
        /\ task' = [task EXCEPT ![c] = "fill"] \/ task' = [task EXCEPT ![c] = "mkdir1"]
        /\ files' = files \/ files' = [files EXCEPT ![Path(c)] = "part"]
    BY <1>2 DEF Open, Goto
  <2> QED
    BY <1>a, <2>1
<1>3. ASSUME NEW n \in 1 .. 3, Mkdir(c, n)
      PROVE  /\ workspace' = workspace /\ dirs \subseteq dirs' /\ UNCHANGED <<sealed, k, ok, existed, files>>
             /\ \A d \in Clients \ {c} : task'[d] = task[d]
  BY <1>3, <1>a DEF Mkdir, Goto
<1>4. CASE Reopen(c)
  <2>1. /\ UNCHANGED <<workspace, dirs, sealed>>
        /\ files' = files \/ files' = [files EXCEPT ![Path(c)] = "part"]
        /\ WriteReturns(c, FALSE) \/ (Goto(c, "fill") /\ UNCHANGED <<k, existed, ok>>)
    BY <1>4 DEF Reopen
  <2>2. \A d \in Clients \ {c} : /\ k'[d] = k[d] /\ task'[d] = task[d]
                                 /\ ok'[d] = ok[d] /\ existed'[d] = existed[d]
    <3>1. CASE WriteReturns(c, FALSE)
      BY <1>b, <3>1
    <3>2. CASE Goto(c, "fill") /\ UNCHANGED <<k, existed, ok>>
      BY <1>a, <3>2 DEF Goto
    <3> QED
      BY <2>1, <3>1, <3>2
  <2> QED
    BY <1>a, <2>1, <2>2
<1>5. CASE Fill(c)
  <2>1. /\ UNCHANGED <<workspace, dirs, sealed>>
        /\ \E held \in {"part", "whole"} : files' = [files EXCEPT ![Path(c)] = held]
        /\ WriteReturns(c, FALSE) \/ WriteReturns(c, TRUE)
    BY <1>5 DEF Fill
  <2> QED
    BY <1>a, <1>b, <2>1
<1>6. CASE Read(c)
  BY <1>6, <1>a DEF Read, Goto
<1> QED
  BY <1>1, <1>2, <1>3, <1>4, <1>5, <1>6 DEF TaskStep

LEMMA PartsOpenStep ==
  ASSUME BaseInv, NEW c \in Clients, TaskStep(c), ~Fault, PartsOpen
  PROVE  PartsOpen'
<1>a. /\ files \in [ObjPaths \cup StrangePaths -> {"absent", "part", "whole"}]
      /\ Path(c) \in ObjPaths /\ Types
      /\ task \in [Clients -> {"born", "open", "mkdir1", "mkdir2", "mkdir3", "reopen",
                               "fill", "read", "done"}]
  BY PathIs DEF BaseInv, Types, TypeOK
<1>b. \A p \in ObjPaths : p # Path(c) => files'[p] = files[p]
  BY OthersKept
<1>c. \A d \in Clients \ {c} : k'[d] = k[d] /\ task'[d] = task[d]
  BY OthersKept
<1>1. files'[Path(c)] = "part" => Path(c) \in BeingPut'
  <2>1. CASE Open(c) \/ Reopen(c)
    <3>1. CASE files' = [files EXCEPT ![Path(c)] = "part"] /\ Goto(c, "fill") /\ UNCHANGED k
      <4>1. task'[c] = "fill" /\ Path(c)' = Path(c)
        BY <1>a, <3>1 DEF Goto, Path
      <4> QED
        BY <4>1 DEF BeingPut
    <3>2. CASE UNCHANGED files
      <4>1. files[Path(c)] # "part"
        <5>1. task[c] # "fill"
          BY <2>1 DEF Open, Reopen
        <5>2. Path(c) \notin BeingPut
          BY <5>1, OthersPaths DEF BeingPut
        <5> QED
          BY <1>a, <5>2 DEF PartsOpen
      <4> QED
        BY <3>2, <4>1
    <3> QED
      BY <2>1, <3>1, <3>2 DEF Open, Reopen
  <2>2. CASE Fill(c)
    <3>1. files' = [files EXCEPT ![Path(c)] = "whole"]
      BY <2>2 DEF Fill
    <3> QED
      BY <1>a, <3>1
  <2>3. CASE WorkerCreate(c) \/ Read(c) \/ \E n \in 1 .. 3 : Mkdir(c, n)
    <3>1. UNCHANGED files /\ task[c] # "fill"
      <4>1. \A n \in 1 .. 3 : Mkdirs[n] # "fill"
        BY MkdirsAre
      <4> QED
        BY <2>3, <4>1 DEF WorkerCreate, Read, Mkdir, treeVars
    <3>2. Path(c) \notin BeingPut
      BY <3>1, OthersPaths DEF BeingPut
    <3> QED
      BY <1>a, <3>1, <3>2 DEF PartsOpen
  <2> QED
    BY <2>1, <2>2, <2>3 DEF TaskStep
<1>2. ASSUME NEW p \in BeingPut, p # Path(c) PROVE p \in BeingPut'
  <2>1. PICK d \in Clients : task[d] = "fill" /\ p = Path(d)
    BY <1>2 DEF BeingPut
  <2>2. d # c
    BY <1>2, <2>1
  <2>3. task'[d] = "fill" /\ p = Path(d)'
    BY <1>c, <2>1, <2>2 DEF Path
  <2> QED
    BY <2>3 DEF BeingPut
<1> QED
  BY <1>b, <1>1, <1>2 DEF PartsOpen

\* A file that there is and that no task has open is whole.
LEMMA WholeUnlessOpen ==
  ASSUME BaseInv, PartsOpen, NEW c \in Clients, task[c] # "fill", files[Path(c)] # "absent"
  PROVE  files[Path(c)] = "whole"
<1>1. Path(c) \notin BeingPut
  BY OthersPaths DEF BeingPut
<1>2. files[Path(c)] # "part"
  BY <1>1, PathIs DEF PartsOpen, BaseInv, Types
<1> QED
  BY <1>2, PathIs DEF BaseInv, Types, TypeOK

\* Each step of a task that nothing disturbs keeps what it has behind it.
LEMMA OwnReached ==
  ASSUME BaseInv, NEW c \in Clients, TaskStep(c), ~Fault, sealed = {}, PartsOpen, Reached(c)
  PROVE  Reached(c)'
<1> USE DEF NoFault
<1>a. /\ files \in [ObjPaths \cup StrangePaths -> {"absent", "part", "whole"}]
      /\ task \in [Clients -> {"born", "open", "mkdir1", "mkdir2", "mkdir3", "reopen",
                               "fill", "read", "done"}]
      /\ existed \in [Clients -> [DOMAIN ObjIds -> BOOLEAN]]
      /\ k \in [Clients -> DOMAIN ObjIds] /\ Types /\ TypeOK
      /\ k[c] \in DOMAIN ObjIds /\ DOMAIN ObjIds = 1 .. Len(ObjIds) /\ Len(ObjIds) \in Nat \ {0}
  BY Indices DEF BaseInv, Types, TypeOK
<1>b. /\ Path(c) \in ObjPaths /\ Path(c) \in DOMAIN files
      /\ Exists(Path(c)) <=> files[Path(c)] # "absent"
  BY <1>a, PathIs, PresentIs DEF Exists
<1>c. /\ workspace' = workspace /\ \A p \in ObjPaths : p # Path(c) => files'[p] = files[p]
  BY OthersKept
<1>d. \A i \in DOMAIN ObjIds : Written(c, i) =>
        (ok[c][i] <=> ~existed[c][i]) /\ files[Pathname(c, ObjIds[i])] = "whole"
  BY DEF Reached
<1>1. CASE WorkerCreate(c)
  <2>1. k[c] = 1 /\ k' = k
    BY <1>1 DEF WorkerCreate, Reached
  <2>2. \/ task'[c] = "open" /\ workspace = "dir"
        \/ task'[c] = "done"
    BY <1>1, <1>a DEF WorkerCreate, Goto
  <2>3. \A i \in DOMAIN ObjIds : ~Written(c, i)'
    BY <1>a, <2>1, <2>2 DEF Written
  <2>4. \A m \in 1 .. 4 : task'[c] # Mkdirs[m]
    BY <2>2, MkdirsAre
  <2> QED
    BY <1>c, <2>2, <2>3, <2>4 DEF Reached
<1>2. CASE Open(c)
  <2> DEFINE there == Exists(Path(c))
  <2>1. /\ task[c] = "open" /\ workspace = "dir" /\ k' = k /\ ok' = ok /\ UNCHANGED dirs
        /\ existed' = [existed EXCEPT ![c][k[c]] = there] /\ there \in BOOLEAN
    BY <1>2 DEF Open, Reached, Exists
  <2> HIDE DEF there
  <2>2. (existed'[c][k[c]] <=> there) /\ \A i \in DOMAIN ObjIds : i # k[c] => existed'[c][i] = existed[c][i]
    BY <1>a, <2>1, Noted
  <2>3. Path(c)' = Path(c)
    BY <2>1 DEF Path
  <2>4. ASSUME task'[c] = "fill" \/ task'[c] = "mkdir1", NEW i \in DOMAIN ObjIds, Written(c, i)'
        PROVE  (ok'[c][i] <=> ~existed'[c][i]) /\ files[Pathname(c, ObjIds[i])] = "whole"
    <3>1. Written(c, i) /\ i # k[c]
      BY <1>a, <2>1, <2>4 DEF Written
    <3> QED
      BY <1>d, <2>1, <2>2, <3>1
  <2>5. CASE /\ CanCreate(Path(c)) /\ files' = [files EXCEPT ![Path(c)] = "part"]
             /\ Goto(c, "fill")
    <3>1. task'[c] = "fill" /\ ~there /\ files[Path(c)] = "absent"
      BY <1>a, <1>b, <2>5 DEF Goto, CanCreate, there
    <3>2. ASSUME NEW i \in DOMAIN ObjIds, Written(c, i)'
          PROVE  (ok'[c][i] <=> ~existed'[c][i]) /\ files'[Pathname(c, ObjIds[i])] = "whole"
      <4>1. (ok'[c][i] <=> ~existed'[c][i]) /\ files[Pathname(c, ObjIds[i])] = "whole"
        BY <2>4, <3>1, <3>2
      <4>2. Pathname(c, ObjIds[i]) \in ObjPaths /\ Pathname(c, ObjIds[i]) # Path(c)
        BY <3>1, <4>1 DEF ObjPaths
      <4> QED
        BY <1>c, <4>1, <4>2
    <3>3. \A m \in 1 .. 4 : task'[c] # Mkdirs[m]
      BY <3>1, MkdirsAre
    <3> QED
      BY <1>c, <2>1, <2>2, <3>1, <3>2, <3>3 DEF Reached
  <2>6. CASE Goto(c, "mkdir1") /\ UNCHANGED files
    <3>1. task'[c] = "mkdir1"
      BY <1>a, <2>6 DEF Goto
    <3>2. \A m \in 1 .. 4 : task'[c] = Mkdirs[m] => m = 1
      BY <3>1, MkdirsAre
    <3>3. \A i \in DOMAIN ObjIds : Written(c, i)' =>
            (ok'[c][i] <=> ~existed'[c][i]) /\ files'[Pathname(c, ObjIds[i])] = "whole"
      BY <2>4, <2>6, <3>1
    <3>4. existed'[c][k'[c]] <=> files'[Path(c)'] # "absent"
      BY <1>b, <2>1, <2>2, <2>3, <2>6 DEF there
    <3> QED
      BY <1>c, <2>1, <3>1, <3>2, <3>3, <3>4 DEF Reached
  <2> QED
    BY <1>2, <2>5, <2>6 DEF Open
<1>3. ASSUME NEW n \in 1 .. 3, Mkdir(c, n) PROVE Reached(c)'
  <2> DEFINE o == ObjIds[k[c]]
             d == GenDir(c, o, n)
  <2>1. /\ task[c] = Mkdirs[n] /\ task'[c] = Mkdirs[n + 1] /\ UNCHANGED <<workspace, files, k, existed, ok>>
        /\ dirs' = dirs \cup {d} \/ (dirs' = dirs /\ ~(Enterable(Front(d)) /\ ~Exists(d)))
    BY <1>3, <1>a DEF Mkdir, Goto
  <2>2. n \in 1 .. 4 /\ n + 1 \in 1 .. 4
    OBVIOUS
  <2>3. workspace = "dir" /\ \A m \in 1 .. 3 : m < n => GenDir(c, o, m) \in dirs
    BY <2>1, <2>2, MkdirsAre DEF Reached
  <2>4. Enterable(Front(d))
    <3>1. n = 1 \/ n = 2 \/ n = 3
      OBVIOUS
    <3>2. (n = 2 => GenDir(c, o, 1) \in dirs)
          /\ (n = 3 => GenDir(c, o, 1) \in dirs /\ GenDir(c, o, 2) \in dirs)
      BY <2>3
    <3> QED
      BY <1>a, <2>3, <3>1, <3>2, CanEnter
  <2>5. d \in Tree
    BY <1>a, MkdirMakes
  <2>6. d \in dirs'
    BY <1>a, <2>1, <2>4, <2>5, PresentIs DEF Exists
  <2>7. \A m \in 1 .. 3 : m < n + 1 => GenDir(c, o, m) \in dirs'
    <3>1. \A m \in 1 .. 3 : m < n + 1 => m = n \/ m < n
      OBVIOUS
    <3> QED
      BY <2>1, <2>3, <2>6, <3>1
  <2> HIDE DEF d
  <2>8. \A m \in 1 .. 4 : task'[c] = Mkdirs[m] => m = n + 1
    BY <2>1, <2>2, MkdirsAre
  <2>9. (existed[c][k[c]] <=> files[Path(c)] # "absent") /\ Path(c)' = Path(c)
    BY <2>1, <2>2 DEF Reached, Path
  <2>10. task'[c] \notin {"born", "done", "fill", "read"} /\ task[c] \notin {"born", "done", "fill", "read"}
    BY <2>1, <2>2, MkdirsAre
  <2>11. \A i \in DOMAIN ObjIds : Written(c, i)' <=> Written(c, i)
    BY <2>1, <2>10 DEF Written
  <2>12. \A i \in DOMAIN ObjIds : Written(c, i)' =>
           (ok'[c][i] <=> ~existed'[c][i]) /\ files'[Pathname(c, ObjIds[i])] = "whole"
    BY <1>d, <2>1, <2>11
  <2>13. \A m \in 1 .. 4 : task'[c] = Mkdirs[m] =>
           /\ \A l \in 1 .. 3 : l < m => GenDir(c, ObjIds[k'[c]], l) \in dirs'
           /\ existed'[c][k'[c]] <=> files'[Path(c)'] # "absent"
    BY <2>1, <2>7, <2>8, <2>9
  <2> QED
    BY <2>1, <2>3, <2>10, <2>12, <2>13 DEF Reached
<1>4. CASE Reopen(c)
  <2>1. task[c] = "reopen" /\ task[c] = Mkdirs[4] /\ 4 \in 1 .. 4
    BY <1>4, MkdirsAre DEF Reopen
  <2>2. /\ workspace = "dir" /\ \A n \in 1 .. 3 : GenDir(c, ObjIds[k[c]], n) \in dirs
        /\ existed[c][k[c]] <=> files[Path(c)] # "absent"
    BY <2>1 DEF Reached
  <2>3. Enterable(Front(Path(c)))
    BY <1>a, <2>2, CanEnter DEF Path
  <2>4. CASE /\ CanCreate(Path(c)) /\ files' = [files EXCEPT ![Path(c)] = "part"]
             /\ Goto(c, "fill") /\ UNCHANGED <<k, existed, ok>>
    <3>1. task'[c] = "fill" /\ files[Path(c)] = "absent" /\ ~existed[c][k[c]]
      BY <1>a, <1>b, <2>2, <2>4 DEF Goto, CanCreate
    <3>2. ASSUME NEW i \in DOMAIN ObjIds, Written(c, i)'
          PROVE  (ok'[c][i] <=> ~existed'[c][i]) /\ files'[Pathname(c, ObjIds[i])] = "whole"
      <4>1. Written(c, i)
        BY <2>1, <2>4, <3>1, <3>2 DEF Written
      <4>2. (ok[c][i] <=> ~existed[c][i]) /\ files[Pathname(c, ObjIds[i])] = "whole"
        BY <1>d, <4>1
      <4>3. Pathname(c, ObjIds[i]) \in ObjPaths /\ Pathname(c, ObjIds[i]) # Path(c)
        BY <3>1, <4>2 DEF ObjPaths
      <4> QED
        BY <1>c, <2>4, <4>2, <4>3
    <3>3. \A m \in 1 .. 4 : task'[c] # Mkdirs[m]
      BY <3>1, MkdirsAre
    <3> QED
      BY <1>c, <2>2, <2>4, <3>1, <3>2, <3>3 DEF Reached
  <2>5. CASE ~CanCreate(Path(c)) /\ WriteReturns(c, FALSE) /\ UNCHANGED files
    <3>1. files[Path(c)] # "absent" /\ existed[c][k[c]]
      BY <1>b, <2>2, <2>3, <2>5 DEF CanCreate
    <3>2. files'[Path(c)] = "whole"
      BY <2>1, <2>5, <3>1, WholeUnlessOpen
    <3> QED
      BY <1>c, <2>1, <2>5, <3>1, <3>2, ReturnsReached
  <2> QED
    BY <1>4, <2>4, <2>5 DEF Reopen
<1>5. CASE Fill(c)
  <2>1. /\ files' = [files EXCEPT ![Path(c)] = "whole"] /\ WriteReturns(c, TRUE)
        /\ task[c] = "fill"
    BY <1>5 DEF Fill
  <2>2. ~existed[c][k[c]]
    BY <2>1 DEF Reached
  <2>3. files'[Path(c)] = "whole"
    BY <1>a, <1>b, <2>1
  <2> QED
    BY <1>c, <2>1, <2>2, <2>3, ReturnsReached
<1>6. CASE Read(c)
  <2>1. /\ task[c] = "read" /\ UNCHANGED <<files, dirs, existed, ok>> /\ workspace = "dir"
        /\ \/ task'[c] = "read"
           \/ task'[c] = "done"
    BY <1>6, <1>a DEF Read, Goto, treeVars, Reached
  <2>2. \A i \in DOMAIN ObjIds : Written(c, i)
    BY <2>1 DEF Written
  <2>3. \A m \in 1 .. 4 : task'[c] # Mkdirs[m]
    BY <2>1, MkdirsAre
  <2> QED
    BY <1>c, <1>d, <2>1, <2>2, <2>3 DEF Reached
<1> QED
  BY <1>1, <1>2, <1>3, <1>4, <1>5, <1>6 DEF TaskStep

LEMMA DemandStep ==
  ASSUME BaseInv, DemandInv, [Next]_vars
  PROVE  DemandInv'
<1> SUFFICES ASSUME Undisturbed' PROVE PartsOpen' /\ \A c \in Clients : Reached(c)'
  BY DEF DemandInv
<1>a. faults \in Nat /\ MaxFaults \in Nat
  BY DirTreeAssumption DEF BaseInv, Types, TypeOK
<1>b. sealed' = sealed
  BY FaultsGrow
<1>c. faults' = faults \/ Fault
  BY FaultsGrow
<1>d. ~Fault
  BY <1>a DEF Undisturbed, Fault
<1>e. faults = 0 /\ sealed = {}
  BY <1>b, <1>c, <1>d DEF Undisturbed
<1>1. CASE DriverCreate \/ UNCHANGED vars
  <2>1. UNCHANGED <<dirs, files, taskVars>> /\ parent \in {"create", "wait"}
        /\ (workspace = "dir" => workspace' = "dir")
    BY <1>1, <1>d DEF DriverCreate, vars, Undisturbed, taskVars
  <2>2. Undisturbed
    BY <1>e, <2>1 DEF Undisturbed
  <2>3. PartsOpen'
    BY <2>1, <2>2 DEF DemandInv, PartsOpen, BeingPut, Path, taskVars
  <2>4. ASSUME NEW c \in Clients PROVE Reached(c)'
    <3>1. Reached(c)
      BY <2>2 DEF DemandInv
    <3>2. Path(c)' = Path(c) /\ \A i \in DOMAIN ObjIds : Written(c, i)' <=> Written(c, i)
      BY <2>1 DEF taskVars, Path, Written
    <3> QED
      BY <2>1, <3>1, <3>2 DEF taskVars, Reached
  <2> QED
    BY <2>3, <2>4
<1>2. CASE DriverDestroy \/ RmdirCall \/ RmdirEnd \/ RmdirPruned \/ DriverDestroyed
  BY <1>2 DEF Undisturbed, DriverDestroy, RmdirCall, RmdirEnd, RmdirPruned, DriverDestroyed
<1>3. ASSUME NEW name \in Names, RmdirEntry(name) PROVE FALSE
  BY <1>3, EntryChanges DEF Undisturbed
<1>4. ASSUME NEW c \in Clients, TaskStep(c)
      PROVE  PartsOpen' /\ \A d \in Clients : Reached(d)'
  <2>1. Undisturbed
    BY <1>4, <1>e, TasksWait DEF Undisturbed
  <2>2. PartsOpen /\ \A d \in Clients : Reached(d)
    BY <2>1 DEF DemandInv
  <2>3. PartsOpen'
    BY <1>4, <1>d, <2>2, PartsOpenStep
  <2>4. Reached(c)'
    BY <1>4, <1>d, <1>e, <2>2, OwnReached
  <2>5. ASSUME NEW d \in Clients, d # c PROVE Reached(d)'
    BY <1>4, <1>d, <2>2, <2>5, OthersKept, OtherReached
  <2> QED
    BY <2>3, <2>4, <2>5
<1> QED
  BY <1>1, <1>2, <1>3, <1>4 DEF Next, ParentStep

LEMMA InitDemand == Init => DemandInv
<1> SUFFICES ASSUME Init PROVE PartsOpen /\ \A c \in Clients : Reached(c)
  BY DEF DemandInv
<1>1. PartsOpen
  BY DEF Init, PartsOpen
<1>2. ASSUME NEW c \in Clients PROVE Reached(c)
  <2>1. task[c] = "born" /\ k[c] = 1
    BY DEF Init
  <2>2. \A i \in DOMAIN ObjIds : ~Written(c, i)
    BY <2>1 DEF Written
  <2>3. \A m \in 1 .. 4 : task[c] # Mkdirs[m]
    BY <2>1, MkdirsAre
  <2> QED
    BY <2>1, <2>2, <2>3 DEF Reached
<1> QED
  BY <1>1, <1>2

\* However many tasks make whichever directories they share, in any order, no
\* write fails but of an object that was there (storage_dirtree_write,
\* storage_dirtree_pathgen).
THEOREM MadeOnDemand == Spec => []CreatedOnDemand
<1>1. ASSUME BaseInv, DemandInv PROVE CreatedOnDemand
  <2> SUFFICES ASSUME faults = 0, sealed = {}, parent = "wait",
                      NEW c \in Clients, NEW i \in DOMAIN ObjIds, Written(c, i)
               PROVE  ok[c][i] = ~existed[c][i] /\ files[Pathname(c, ObjIds[i])] = "whole"
    BY DEF CreatedOnDemand
  <2>1. Reached(c)
    BY <1>1 DEF DemandInv, Undisturbed
  <2>2. ok[c][i] \in BOOLEAN /\ existed[c][i] \in BOOLEAN
    BY <1>1 DEF BaseInv, Types
  <2> QED
    BY <2>1, <2>2 DEF Reached
<1> QED
  BY <1>1, InitDemand, DemandStep, Base, PTL DEF Spec

-----------------------------------------------------------------------------
(* Nothing is left. *)

\* Where the parent is when nothing has failed: each call that waits is one
\* directory further down than the one before, has entered an entry of its own,
\* and has the others of that directory still to read.  The one that runs has
\* all of its directory to read, and leaves it empty when it returns.
HasEntered(j) ==
  /\ Len(stack[j].back) = j - 1
  /\ stack[j].back = IF j = 1 THEN Root ELSE Append(stack[j - 1].back, stack[j - 1].pruned)
  /\ Entries(stack[j].back) \subseteq stack[j].left \cup {stack[j].pruned}

Descent ==
  /\ cwd = IF Waiting = 0 THEN Root ELSE Append(stack[Waiting].back, stack[Waiting].pruned)
  /\ Len(cwd) = Waiting
  /\ \A j \in 1 .. Waiting : HasEntered(j)
  /\ parent = "loop" => Entries(cwd) \subseteq stack[Len(stack)].left
  /\ parent = "return" => Entries(cwd) = {}

CleanInv ==
  /\ lost => faults # 0
  /\ faults = 0 /\ sealed = {} /\ DOMAIN links = {} /\ parent \in {"call", "loop", "return"} => Descent
  /\ CleanAfter

\* A call that waits goes on waiting.
LEMMA StillEntered ==
  ASSUME NEW j, HasEntered(j), Present' \subseteq Present,
         stack'[j] = stack[j], j # 1 => stack'[j - 1] = stack[j - 1]
  PROVE  HasEntered(j)'
  BY DEF HasEntered, Entries

\* Where no link is and getcwd has not failed, we are in the workspace.
LEMMA InWorkspace ==
  ASSUME BaseInv, BackInv, DOMAIN links = {}, ~lost, parent \in {"call", "loop", "return"}
  PROVE  /\ cwd \in dirs \cup {Root} /\ Elsewhere \notin dirs \cup {Root}
         /\ \A j \in 1 .. Waiting : stack[j].back \in dirs \cup {Root}
<1>1. ~LeadsOut /\ dirs \subseteq Tree
  BY DEF LeadsOut, BaseInv, Types, TypeOK
<1> QED
  BY <1>1, OutsideParts DEF BackInv

\* When every directory can be entered one can go to any.
LEMMA AllEnterable ==
  ASSUME TypeOK, sealed = {}, NEW d \in dirs
  PROVE  Enterable(d)
<1>1. Attached /\ d \in Tree /\ dirs \subseteq Tree /\ dirs \subseteq Contents
  BY DEF TypeOK, Contents
<1>2. PICK c \in Clients, i \in DOMAIN ObjIds, n \in 1 .. 3 : d = GenDir(c, ObjIds[i], n)
  BY <1>1, InTree
<1> DEFINE g(m) == GenDir(c, ObjIds[i], m)
<1>3. /\ Front(g(1)) = Root /\ Front(g(2)) = g(1) /\ Front(g(3)) = g(2)
      /\ Len(g(n)) = n /\ \A m \in 1 .. n : SubSeq(g(n), 1, m) = g(m)
      /\ Len(g(1)) = 1 /\ Len(g(2)) = 2
  <2>1. /\ g(1) = GenDir(c, ObjIds[i], 1) /\ g(2) = GenDir(c, ObjIds[i], 2)
        /\ g(3) = GenDir(c, ObjIds[i], 3) /\ \A m : g(m) = GenDir(c, ObjIds[i], m)
    OBVIOUS
  <2> HIDE DEF g
  <2>2. \A j \in 1 .. 3 : Len(g(j)) = j
    BY <2>1, PathParts
  <2>3. \A j \in 1 .. 3 : \A m \in 1 .. j : SubSeq(g(j), 1, m) = g(m)
    BY <2>1, PathParts
  <2>4. Front(g(1)) = Root /\ Front(g(2)) = g(1) /\ Front(g(3)) = g(2)
    BY <2>1, PathParts
  <2>5. n \in 1 .. 3 /\ 1 \in 1 .. 3 /\ 2 \in 1 .. 3
    BY <1>2
  <2> QED
    BY <2>2, <2>3, <2>4, <2>5
<1>4. g(1) # Root /\ g(2) # Root
  <2>1. Len(Root) = 0
    BY DEF Root
  <2> QED
    BY <1>3, <2>1
<1>5. workspace = "dir" /\ \A e \in dirs : Front(e) \in dirs \cup {Root}
  BY <1>1 DEF Attached
<1> HIDE DEF g
<1>6. (g(3) \in dirs => g(2) \in dirs) /\ (g(2) \in dirs => g(1) \in dirs)
  BY <1>3, <1>4, <1>5
<1>7. d = g(n)
  BY <1>2 DEF g
<1>8. \A m \in 1 .. n : g(m) \in dirs
  <2>1. CASE n = 1
    <3>1. \A m \in 1 .. n : m = 1
      BY <2>1
    <3> QED
      BY <1>7, <2>1, <3>1
  <2>2. CASE n = 2
    <3>1. \A m \in 1 .. n : m = 1 \/ m = 2
      BY <2>2
    <3> QED
      BY <1>6, <1>7, <2>2, <3>1
  <2>3. CASE n = 3
    <3>1. \A m \in 1 .. n : m = 1 \/ m = 2 \/ m = 3
      BY <2>3
    <3> QED
      BY <1>6, <1>7, <2>3, <3>1
  <2> QED
    BY <2>1, <2>2, <2>3
<1> QED
  BY <1>3, <1>5, <1>7, <1>8 DEF Enterable

\* The four ways in which a descent goes on.

LEMMA DescentCalls ==
  ASSUME BaseInv, BackInv, Descent, RmdirCall, ~Fault, OpenMax >= 4,
         DOMAIN links = {}, ~lost
  PROVE  Descent'
<1> DEFINE n == Len(stack)
<1>1. /\ UNCHANGED <<cwd, dirs, links, files, outside>> /\ parent = "call" /\ n \in Nat
      /\ \/ /\ parent' = "return" /\ n >= OpenMax
         \/ /\ parent' = "loop" /\ Len(stack') = n + 1
            /\ \A j \in 1 .. n : stack'[j] = stack[j]
            /\ stack'[n + 1].left = Entries(cwd)
  BY RmdirCallStack DEF treeVars
<1>2. Waiting = n
  BY <1>1 DEF Waiting
<1>3. n <= 3
  <2>1. cwd \in Tree \cup {Root} /\ Len(cwd) = n
    BY <1>1, <1>2, InWorkspace DEF Descent, BaseInv, Types, TypeOK
  <2>2. Len(Root) = 0
    BY DEF Root
  <2>3. cwd \in Tree => Len(cwd) \in 1 .. 3
    BY TreeParts
  <2> HIDE DEF n
  <2>4. CASE cwd = Root
    BY <2>1, <2>2, <2>4
  <2>5. CASE cwd \in Tree
    BY <2>1, <2>3, <2>5
  <2> QED
    BY <2>1, <2>4, <2>5
<1>4. /\ parent' = "loop" /\ Len(stack') = n + 1 /\ \A j \in 1 .. n : stack'[j] = stack[j]
      /\ stack'[n + 1].left = Entries(cwd)
  BY <1>1, <1>3, DirTreeAssumption
<1>5. Waiting' = n
  BY <1>1, <1>4 DEF Waiting
<1>6. Present' = Present /\ \A d : Entries(d)' = Entries(d)
  BY <1>1 DEF Present, Contents, Entries
<1>7. cwd' = IF n = 0 THEN Root ELSE Append(stack'[n].back, stack'[n].pruned)
  BY <1>1, <1>2, <1>4 DEF Descent
<1>8. Len(cwd') = n
  BY <1>1, <1>2 DEF Descent
<1>9. ASSUME NEW j \in 1 .. n
      PROVE  HasEntered(j)'
  <2>1. j # 1 => j - 1 \in 1 .. n
    BY <1>1
  <2>2. stack'[j] = stack[j] /\ (j # 1 => stack'[j - 1] = stack[j - 1])
    BY <1>4, <2>1
  <2> QED
    BY <1>2, <1>6, <2>2, StillEntered DEF Descent
<1>10. Entries(cwd)' \subseteq stack'[Len(stack')].left
  <2>1. Entries(cwd)' = Entries(cwd)
    BY <1>1, <1>6 DEF Entries
  <2> QED
    BY <1>1, <1>4, <2>1
<1> QED
  BY <1>4, <1>5, <1>7, <1>8, <1>9, <1>10 DEF Descent

LEMMA DescentReads ==
  ASSUME BaseInv, BackInv, Descent, NEW name \in Names, RmdirEntry(name), ~Fault, sealed = {},
         DOMAIN links = {}, ~lost, parent' # "crashed"
  PROVE  Descent'
<1> DEFINE n == Len(stack)
           p == Entry(name)
<1>a. Types /\ TypeOK
  BY DEF BaseInv, Types
<1>b. /\ parent = "loop" /\ n \in Nat \ {0} /\ name \in Name /\ cwd \in Seq(Name)
      /\ p \in Seq(Name) /\ Len(p) = Len(cwd) + 1 /\ Front(p) = cwd /\ Last(p) = name
      /\ UNCHANGED <<dirs, links>> /\ outside' \subseteq outside
      /\ Len(stack') = n /\ \A j \in 1 .. n - 1 : stack'[j] = stack[j]
      /\ stack'[n].left = stack[n].left \ {name}
      /\ \/ /\ ~Exists(p) /\ UNCHANGED <<parent, cwd, files>>
         \/ /\ p \in ObjPaths \cup OutsidePaths /\ UNCHANGED <<parent, cwd>>
            /\ p \in OutsidePaths \/ files' = [files EXCEPT ![p] = "absent"]
         \/ /\ p \in dirs \cup DOMAIN links /\ parent' = "call" /\ UNCHANGED files
            /\ stack'[n].pruned = name /\ stack'[n].back = cwd /\ cwd' = Target(p)
  BY RmdirEntryStack
<1>c. p \notin OutsidePaths
  BY <1>b, InWorkspace, OutsideParts
<1>d. p \in dirs => Target(p) = p
  BY <1>a, TargetIs
<1>e. p = Append(cwd, name)
  BY DEF Entry
<1> HIDE DEF p
<1>1. /\ parent = "loop" /\ n \in Nat \ {0} /\ name \in Name /\ cwd \in Seq(Name)
      /\ p \in Seq(Name) /\ Len(p) = Len(cwd) + 1 /\ UNCHANGED <<dirs, links>>
      /\ outside' \subseteq outside
      /\ Len(stack') = n /\ \A j \in 1 .. n - 1 : stack'[j] = stack[j]
      /\ stack'[n].left = stack[n].left \ {name}
      /\ \/ /\ ~Exists(p) /\ UNCHANGED <<parent, cwd, files>>
         \/ /\ p \in ObjPaths /\ UNCHANGED <<parent, cwd>>
            /\ files' = [files EXCEPT ![p] = "absent"]
         \/ /\ p \in dirs /\ parent' = "call" /\ UNCHANGED files
            /\ stack'[n].pruned = name /\ stack'[n].back = cwd /\ cwd' = p
  BY <1>b, <1>c, <1>d
<1>2. Waiting = n - 1
  BY <1>1 DEF Waiting
<1>3. Types /\ TypeOK
  BY DEF BaseInv, Types
<1>4. Present' \subseteq Present /\ (p \in ObjPaths /\ files' = [files EXCEPT ![p] = "absent"] => p \notin Present')
  <2>1. CASE UNCHANGED files /\ ~(p \in ObjPaths /\ files' = [files EXCEPT ![p] = "absent"])
    BY <1>1, <2>1 DEF Present, Contents
  <2>2. CASE p \in ObjPaths /\ files' = [files EXCEPT ![p] = "absent"]
    <3>1. p \in DOMAIN files /\ p \notin dirs /\ p \notin outside
      BY <1>3, <2>2, PresentIs, KindsApart DEF TypeOK
    <3>2. /\ Contents' \subseteq Contents \cup {p}
          /\ \A q \in Contents' : q # p \/ q \in dirs \cup DOMAIN links
      BY <1>1, <1>3, <2>2, <3>1, FileWritten
    <3>3. p \notin Contents'
      BY <3>1, <3>2
    <3> QED
      BY <1>1, <3>1, <3>2, <3>3 DEF Present
  <2> QED
    BY <1>1, <2>1, <2>2
<1>5. ASSUME NEW j \in 1 .. n - 1
      PROVE  HasEntered(j)'
  <2>1. j # 1 => j - 1 \in 1 .. n - 1
    BY <1>1
  <2>2. stack'[j] = stack[j] /\ (j # 1 => stack'[j - 1] = stack[j - 1])
    BY <1>1, <2>1
  <2> QED
    BY <1>2, <1>4, <2>2, StillEntered DEF Descent
<1>6. /\ cwd = IF n - 1 = 0 THEN Root ELSE Append(stack[n - 1].back, stack[n - 1].pruned)
      /\ Len(cwd) = n - 1 /\ Entries(cwd) \subseteq stack[n].left
  BY <1>1, <1>2 DEF Descent
<1>7. n - 1 # 0 => stack'[n - 1] = stack[n - 1]
  BY <1>1
<1>9. CASE UNCHANGED <<parent, cwd>>
  <2>1. Waiting' = n - 1
    BY <1>1, <1>9 DEF Waiting
  <2>2. Entries(cwd)' \subseteq Entries(cwd)
    BY <1>4, <1>9 DEF Entries
  <2>3. name \notin Entries(cwd)'
    <3>1. CASE ~Exists(p)
      <4>1. name \notin Entries(cwd)
        BY <1>1, <1>3, <1>e, <3>1, InEntries DEF Exists
      <4> QED
        BY <2>2, <4>1
    <3>2. CASE p \in ObjPaths /\ files' = [files EXCEPT ![p] = "absent"]
      <4>1. ASSUME NEW q \in Present', Front(q) = cwd, Last(q) = name PROVE q = p
        BY <1>3, <1>4, <1>e, <4>1, PresentIs, Shorter
      <4> QED
        BY <1>4, <1>9, <3>2, <4>1 DEF Entries
    <3> QED
      BY <1>1, <1>6, <1>9, <3>1, <3>2
  <2>4. Entries(cwd)' \subseteq stack'[Len(stack')].left
    BY <1>1, <1>6, <2>3, <2>2
  <2>5. cwd' = IF n - 1 = 0 THEN Root ELSE Append(stack'[n - 1].back, stack'[n - 1].pruned)
    BY <1>6, <1>7, <1>9
  <2> QED
    BY <1>1, <1>5, <1>6, <1>9, <2>1, <2>4, <2>5 DEF Descent
<1>10. CASE /\ p \in dirs /\ parent' = "call" /\ UNCHANGED files
            /\ stack'[n].pruned = name /\ stack'[n].back = cwd /\ cwd' = p
  <2>1. Waiting' = n
    BY <1>1, <1>10 DEF Waiting
  <2>2. cwd' = IF n = 0 THEN Root ELSE Append(stack'[n].back, stack'[n].pruned)
    BY <1>1, <1>10, <1>e
  <2>3. Len(cwd') = n
    BY <1>1, <1>6, <1>10
  <2>4. Entries(cwd) \subseteq stack'[n].left \cup {name}
    BY <1>1, <1>6
  <2>5. stack'[n].back = IF n = 1 THEN Root ELSE Append(stack'[n - 1].back, stack'[n - 1].pruned)
    <3>1. n - 1 = 0 <=> n = 1
      BY <1>1
    <3> QED
      BY <1>6, <1>7, <1>10, <3>1
  <2>6. Len(stack'[n].back) = n - 1
    BY <1>6, <1>10
  <2>7. ASSUME NEW j \in 1 .. n
        PROVE  HasEntered(j)'
    <3>1. CASE j = n
      BY <1>4, <1>10, <2>4, <2>5, <2>6, <3>1 DEF HasEntered, Entries
    <3>2. CASE j # n
      <4>1. j \in 1 .. n - 1
        BY <1>1, <3>2
      <4> QED
        BY <1>5, <4>1
    <3> QED
      BY <3>1, <3>2
  <2> QED
    BY <1>10, <2>1, <2>2, <2>3, <2>7 DEF Descent
<1> QED
  BY <1>1, <1>9, <1>10

LEMMA DescentEnds ==
  ASSUME BaseInv, Descent, RmdirEnd
  PROVE  Descent'
<1> DEFINE n == Len(stack)
<1>1. /\ parent = "loop" /\ parent' = "return" /\ n \in Nat \ {0}
      /\ UNCHANGED <<cwd, dirs, links, files, outside>> /\ stack[n].left = {}
      /\ Len(stack') = n - 1 /\ \A j \in 1 .. n - 1 : stack'[j] = stack[j]
  BY RmdirEndStack DEF treeVars
<1>2. Waiting = n - 1 /\ Waiting' = n - 1
  BY <1>1 DEF Waiting
<1>3. Entries(cwd)' = Entries(cwd)
  BY <1>1 DEF Present, Contents, Entries
<1>4. ASSUME NEW j \in 1 .. n - 1
      PROVE  HasEntered(j)'
  <2>1. j # 1 => j - 1 \in 1 .. n - 1
    BY <1>1
  <2>2. stack'[j] = stack[j] /\ (j # 1 => stack'[j - 1] = stack[j - 1])
    BY <1>1, <2>1
  <2> QED
    BY <1>1, <1>2, <2>2, StillEntered DEF Descent, Present, Contents
<1>5. Entries(cwd)' = {}
  BY <1>1, <1>3 DEF Descent
<1>6. n - 1 # 0 => stack'[n - 1] = stack[n - 1]
  BY <1>1
<1>7. cwd' = (IF n - 1 = 0 THEN Root ELSE Append(stack'[n - 1].back, stack'[n - 1].pruned))
      /\ Len(cwd') = n - 1
  BY <1>1, <1>2, <1>6 DEF Descent
<1> QED
  BY <1>1, <1>2, <1>4, <1>5, <1>7 DEF Descent

LEMMA DescentReturns ==
  ASSUME BaseInv, BackInv, Descent, RmdirPruned, ~Fault, sealed = {}, DOMAIN links = {}, ~lost
  PROVE  Descent'
<1> DEFINE n == Len(stack)
           back == stack[n].back
           name == stack[n].pruned
<1>a. /\ parent = "return" /\ parent' = "loop" /\ n \in Nat \ {0}
      /\ UNCHANGED <<stack, links, files, outside>>
      /\ back \in Seq(Name) /\ name \in Name
      /\ (back = Root \/ Enterable(back) => cwd' = back) /\ dirs' = AfterRmdir(cwd', name)
  BY RmdirPrunedStack
<1>b. back = Root \/ Enterable(back)
  <2>1. n \in 1 .. Waiting /\ TypeOK
    BY <1>a DEF Waiting, BaseInv, Types
  <2>2. back \in dirs \cup {Root}
    BY <1>a, <2>1, InWorkspace
  <2> QED
    BY <2>1, <2>2, AllEnterable
<1>1. /\ parent = "return" /\ parent' = "loop" /\ n \in Nat \ {0}
      /\ UNCHANGED <<stack, links, files, outside>>
      /\ back \in Seq(Name) /\ name \in Name /\ cwd' = back /\ dirs' = AfterRmdir(cwd', name)
  BY <1>a, <1>b
<1>2. Waiting = n /\ Waiting' = n - 1
  BY <1>1 DEF Waiting
<1>3. /\ cwd = Append(back, name) /\ Entries(cwd) = {} /\ Len(back) = n - 1
      /\ back = IF n = 1 THEN Root ELSE Append(stack[n - 1].back, stack[n - 1].pruned)
      /\ Entries(back) \subseteq stack[n].left \cup {name}
  <2>1. HasEntered(n)
    BY <1>1, <1>2 DEF Descent
  <2>2. cwd = Append(back, name) /\ Entries(cwd) = {}
    BY <1>1, <1>2 DEF Descent
  <2> QED
    BY <2>1, <2>2 DEF HasEntered
<1> HIDE DEF back, name
<1>4. Types /\ TypeOK
  BY DEF BaseInv, Types
<1>5. cwd \in Tree
  <2>1. cwd # Root
    <3>1. Append(back, name) # <<>>
      BY <1>1, Longer
    <3> QED
      BY <1>3, <3>1 DEF Root
  <2> QED
    BY <1>1, <1>4, <2>1, InWorkspace DEF TypeOK
<1>6. dirs' \subseteq dirs /\ cwd \notin dirs'
  BY <1>1, <1>3 DEF AfterRmdir, Empty
<1>7. Present' \subseteq Present /\ cwd \notin Present'
  <2>1. cwd \notin DOMAIN files /\ cwd \notin outside
    BY <1>4, <1>5, PresentIs, KindsApart DEF TypeOK
  <2> QED
    BY <1>1, <1>6, <2>1 DEF Present, Contents
<1>9. name \notin Entries(cwd)'
  <2>1. ASSUME NEW q \in Present', Front(q) = back, Last(q) = name PROVE q = cwd
    BY <1>3, <1>4, <1>7, <2>1, PresentIs, Shorter
  <2> QED
    BY <1>1, <1>7, <2>1 DEF Entries
<1>10. Entries(cwd)' \subseteq stack'[Len(stack')].left
  <2>1. Entries(cwd)' \subseteq Entries(back)
    BY <1>1, <1>7 DEF Entries
  <2> QED
    BY <1>1, <1>3, <1>9, <2>1
<1>11. ASSUME NEW j \in 1 .. n - 1
       PROVE  HasEntered(j)'
  <2>1. j \in 1 .. n
    BY <1>1
  <2> QED
    BY <1>1, <1>2, <1>7, <2>1, StillEntered DEF Descent
<1>12. cwd' = (IF n - 1 = 0 THEN Root ELSE Append(stack'[n - 1].back, stack'[n - 1].pruned))
       /\ Len(cwd') = n - 1
  <2>1. n - 1 = 0 <=> n = 1
    BY <1>1
  <2> QED
    BY <1>1, <1>3, <2>1
<1> QED
  BY <1>1, <1>2, <1>10, <1>11, <1>12 DEF Descent

\* The way is lost by a fault.
LEMMA LostFaults ==
  ASSUME [Next]_vars
  PROVE  lost' = lost \/ Fault
<1> USE DEF parentVars
<1>1. ASSUME NEW c \in Clients, TaskStep(c) PROVE lost' = lost
  BY <1>1 DEF TaskStep, WorkerCreate, Open, Mkdir, Reopen, Fill, Read
<1>2. ASSUME NEW name \in Names, RmdirEntry(name) PROVE lost' = lost \/ Fault
  BY <1>2, EntryChanges
<1>3. ASSUME DriverCreate \/ DriverDestroy \/ RmdirCall \/ RmdirEnd \/ RmdirPruned \/ DriverDestroyed
             \/ UNCHANGED vars
      PROVE  lost' = lost
  BY <1>3 DEF DriverCreate, DriverDestroy, RmdirCall, RmdirEnd, RmdirPruned, DriverDestroyed, vars
<1> QED
  BY <1>1, <1>2, <1>3 DEF Next, ParentStep

LEMMA CleanStep ==
  ASSUME OpenMax >= 4, BaseInv, BackInv, CleanInv, [Next]_vars
  PROVE  CleanInv'
<1>a. faults \in Nat /\ Types /\ TypeOK
  BY DirTreeAssumption DEF BaseInv, Types, TypeOK
<1>b. UNCHANGED <<sealed, links>>
  BY FaultsGrow
<1>c. faults' = faults \/ Fault
  BY FaultsGrow
<1>e. (lost => faults # 0) /\ (lost' = lost \/ Fault)
  BY LostFaults DEF CleanInv
<1>f. lost' => faults' # 0
  <2>1. Fault => faults' # 0
    BY <1>a DEF Fault
  <2> QED
    BY <1>c, <1>e, <2>1
<1> SUFFICES ASSUME faults' = 0, sealed' = {}, DOMAIN links' = {}
             PROVE  /\ parent' \in {"call", "loop", "return"} => Descent'
                    /\ CleanAfter'
  BY <1>f DEF CleanInv, CleanAfter
<1>d. ~Fault /\ faults = 0 /\ sealed = {} /\ DOMAIN links = {} /\ ~lost
  BY <1>a, <1>b, <1>c, <1>e DEF Fault
<1>1. CASE DriverCreate \/ \E c \in Clients : TaskStep(c)
  <2>1. parent' \in {"wait", "failed"}
    BY <1>1, TasksWait DEF DriverCreate, parentVars
  <2> QED
    BY <2>1 DEF CleanAfter
<1>2. CASE DriverDestroy
  <2>1. /\ parent = "wait" /\ UNCHANGED stack
        /\ parent' = "failed" \/ (parent' = "call" /\ cwd' = Root)
    BY <1>2 DEF DriverDestroy
  <2>2. stack = <<>>
    BY <2>1 DEF BaseInv, StackInv
  <2>3. parent' = "call" => Descent'
    <3>1. parent' = "call" => Waiting' = 0
      BY <2>1, <2>2 DEF Waiting
    <3>2. Len(Root) = 0
      BY DEF Root
    <3> QED
      BY <2>1, <3>1, <3>2 DEF Descent
  <2> QED
    BY <2>1, <2>3 DEF CleanAfter
<1>3. CASE RmdirCall
  <2>1. parent = "call" /\ parent' \in {"loop", "return"}
    BY <1>3 DEF RmdirCall
  <2> QED
    BY <1>3, <1>d, <2>1, DescentCalls DEF CleanInv, CleanAfter
<1>4. ASSUME NEW name \in Names, RmdirEntry(name)
      PROVE  (parent' \in {"call", "loop", "return"} => Descent') /\ CleanAfter'
  <2>1. parent = "loop" /\ parent' \in {"loop", "call", "crashed"}
    BY <1>4, EntryChanges
  <2> QED
    BY <1>4, <1>d, <2>1, DescentReads DEF CleanInv, CleanAfter
<1>5. CASE RmdirEnd
  <2>1. parent = "loop" /\ parent' = "return"
    BY <1>5 DEF RmdirEnd
  <2> QED
    BY <1>5, <1>d, <2>1, DescentEnds DEF CleanInv, CleanAfter
<1>6. CASE RmdirPruned
  <2>1. parent = "return" /\ parent' = "loop"
    BY <1>6 DEF RmdirPruned
  <2> QED
    BY <1>6, <1>d, <2>1, DescentReturns DEF CleanInv, CleanAfter
<1>7. CASE DriverDestroyed
  <2>1. /\ parent = "return" /\ stack = <<>> /\ parent' = "end" /\ UNCHANGED <<dirs, files>>
        /\ workspace' = IF Empty(Root) THEN "none" ELSE workspace
    BY <1>7, <1>d DEF DriverDestroyed
  <2>2. cwd = Root /\ Entries(cwd) = {}
    <3>1. Descent
      BY <1>d, <2>1 DEF CleanInv
    <3>2. Waiting = 0
      BY <2>1 DEF Waiting
    <3> QED
      BY <2>1, <3>1, <3>2 DEF Descent
  <2>3. Empty(Root)
    BY <2>2 DEF Empty
  <2>4. Contents = {} /\ dirs = {}
    BY <1>a, <2>3, EmptyRoot
  <2>5. \A p \in DOMAIN files : files[p] = "absent"
    BY <2>4 DEF Contents
  <2> QED
    BY <2>1, <2>3, <2>4, <2>5 DEF CleanAfter
<1>8. CASE UNCHANGED vars
  <2>1. UNCHANGED <<parent, cwd, stack, workspace, dirs, links, files, outside>>
    BY <1>8 DEF vars
  <2>3. CleanAfter'
    BY <1>d, <2>1 DEF CleanInv, CleanAfter
  <2>4. parent' \in {"call", "loop", "return"} => Descent'
    <3>1. Waiting' = Waiting
      BY <2>1 DEF Waiting
    <3>2. Present' = Present /\ Entries(cwd)' = Entries(cwd)
      BY <2>1 DEF Present, Contents, Entries
    <3>3. \A j : HasEntered(j) => HasEntered(j)'
      BY <2>1, <3>2, StillEntered
    <3> QED
      BY <1>d, <2>1, <3>1, <3>2, <3>3 DEF CleanInv, Descent
  <2> QED
    BY <2>3, <2>4
<1> QED
  BY <1>1, <1>2, <1>3, <1>4, <1>5, <1>6, <1>7, <1>8 DEF Next, ParentStep

\* When nothing fails, no symbolic link is there, and four directories may be open
\* at a time (the workspace and the three below it), nothing of the workspace is
\* left, whatever tasks and earlier runs have put there
\* (storage_dirtree_driver_destroy).
THEOREM AllGone ==
  ASSUME OpenMax >= 4
  PROVE  Spec => []CleanAfter
<1>1. Init => BackInv /\ CleanInv
  BY DEF Init, BackInv, CleanInv, CleanAfter
<1>2. BaseInv /\ BackInv /\ CleanInv /\ [Next]_vars => BackInv' /\ CleanInv'
  BY BackStep, CleanStep
<1>3. CleanInv => CleanAfter
  BY DEF CleanInv
<1> QED
  BY <1>1, <1>2, <1>3, Base, PTL DEF Spec
=============================================================================
