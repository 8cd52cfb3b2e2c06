----------------------- MODULE ManifestCommitProofs -----------------------
(***************************************************************************)
(* What commit_manifest guarantees for any number of processes, layers,    *)
(* versions and crashes, whoever commits when: nothing here assumes a      *)
(* lock.  CInv is inductive by itself; Apart adds what holds as long as no *)
(* two commits have overlapped.                                            *)
(***************************************************************************)
EXTENDS ManifestCommit, SequenceTheorems, TLAPS

Held(d) == {d.layers[k] : k \in 1 .. Len(d.layers)}

\* A lone commit really is alone.
AloneOnly ==
  \A p \in alone : pc[p] # "idle" /\ \A q \in Procs : q # p => pc[q] = "idle"

\* Only a process inside fs::write(&tmp) has a file open.
FdOpen == \A p \in Procs : fd[p] \in Inodes <=> pc[p] = "writing"

NamesApart == manifest # Absent => manifest # tmp

\* A file at which no two processes met: once it is manifest.json it is complete and
\* nobody can write to it any more; while it is the temporary file one process is at
\* it at most, and what that process renames is what it wrote.
Whole ==
  \A i \in Inodes \ met : i = manifest => content[i] \in Doc /\ \A p \in Procs : fd[p] # i

OwnTmp ==
  \A i \in Inodes \ met, p \in AtTmp : i = tmp =>
    /\ \A q \in AtTmp : q = p
    /\ pc[p] = "writing" => fd[p] = i /\ content[i] = Empty
    /\ pc[p] = "rename" => content[i] = doc[p]

\* A lone commit meets nobody.
LoneTmp == \A p \in alone : p \in AtTmp => tmp \in Inodes \ met

\* Documents that come after, and not before, what lone commits have published.
Later(d) == /\ acked \subseteq Held(d)
            /\ \A v \in Versions : published[v] # Absent => d.version > v
Last(d) == /\ acked \subseteq Held(d)
           /\ \A v \in Versions : published[v] # Absent => d.version >= v

\* What is published or acknowledged is in the current manifest, and everything that
\* may still replace it comes after.
Pending(i) == i = tmp \/ \E p \in Procs : fd[p] = i

GoesOn ==
  /\ manifest = Absent => acked = {} /\ \A v \in Versions : published[v] = Absent
  /\ Readable => Last(Current)
  /\ \A p \in Procs : pc[p] # "idle" => Later(doc[p])
  /\ \A i \in Inodes : Pending(i) /\ content[i] \in Doc => Later(content[i])

SnapsKept == \A v \in Versions : published[v] # Absent => snaps[v] = published[v]

\* Past its snapshot, a lone commit has left it under the name of its version.
SnapTaken ==
  \A p \in alone :
    /\ pc[p] = "snapping" => snaps[doc[p].version] = Empty
    /\ pc[p] \in {"tmp", "writing", "rename"} => snaps[doc[p].version] = doc[p]

CInv ==
  /\ TypeOK /\ AloneOnly /\ FdOpen /\ NamesApart
  /\ Whole /\ OwnTmp /\ LoneTmp /\ GoesOn /\ SnapsKept /\ SnapTaken

\* Before the first overlap every commit is alone, no two have met, every version is
\* of a lone commit, and a document under way is one registration or the first.
Planned(d) ==
  \/ manifest = Absent /\ d = FirstDoc
  \/ /\ Readable /\ Current.version < MaxVersion
     /\ \E l \in Layers : d = WithLayer(Current, l)

Apart ==
  before = Absent =>
    /\ met = {}
    /\ \A p \in Procs : pc[p] # "idle" => p \in alone /\ Planned(doc[p])
    /\ \A v \in 1 .. Shown.version : published[v] # Absent
    /\ Registry!EachOnce(Shown.layers)

KInv == CInv /\ Apart
-----------------------------------------------------------------------------
LEMMA DocFields ==
  ASSUME NEW d \in Doc
  PROVE  /\ d.version \in Versions /\ d.version \in Nat /\ d.version > 0
         /\ d.layers \in Seq(Layers) /\ Len(d.layers) \in Nat
         /\ d # Empty /\ d # Torn /\ d # Absent
<1>1. d.version \in Versions /\ d.layers \in Seq(Layers)
  BY DEF Doc, Versions
<1>2. Len(d.layers) \in Nat
  BY <1>1, LenProperties
<1>3. d.version \in Nat /\ d.version > 0
  BY <1>1, CommitAssumption DEF Versions
<1> QED
  BY <1>1, <1>2, <1>3, NotADocument

LEMMA FirstDocIsDoc == FirstDoc \in Doc /\ FirstDoc.version = 1 /\ Held(FirstDoc) = {}
<1>1. <<>> \in Seq(Layers) /\ Len(<<>>) = 0
  BY EmptySeq
<1>2. 1 \in 1 .. MaxVersion
  BY CommitAssumption
<1> QED
  BY <1>1, <1>2 DEF FirstDoc, Doc, Held

\* retain takes no name but l away.
LEMMA WithoutKeeps ==
  ASSUME NEW s \in Seq(Layers), NEW l
  PROVE  /\ Without(s, l) \in Seq(Layers)
         /\ \A k \in 1 .. Len(s) : s[k] # l =>
              \E j \in 1 .. Len(Without(s, l)) : Without(s, l)[j] = s[k]
<1>0. Len(s) \in Nat /\ \A k \in 1 .. Len(s) : s[k] \in Layers
  BY LenProperties, ElementOfSeq
<1>1. CASE \A k \in 1 .. Len(s) : s[k] # l
  BY <1>1 DEF Without
<1>2. CASE ~\A k \in 1 .. Len(s) : s[k] # l
  <2> DEFINE at == CHOOSE k \in 1 .. Len(s) : s[k] = l
             t == [k \in 1 .. Len(s) - 1 |-> IF k < at THEN s[k] ELSE s[k + 1]]
  <2>1. at \in 1 .. Len(s) /\ s[at] = l
    BY <1>2
  <2>2. Without(s, l) = t
    BY <1>2 DEF Without
  <2> HIDE DEF at
  <2>3. Len(s) - 1 \in Nat
    BY <1>0, <2>1
  <2>4. \A k \in 1 .. Len(s) - 1 : t[k] \in Layers
    BY <1>0, <2>1
  <2>5. t \in Seq(Layers) /\ Len(t) = Len(s) - 1
    <3>1. t \in [1 .. Len(s) - 1 -> Layers]
      BY <2>4
    <3> HIDE DEF t
    <3> QED
      BY <3>1, <2>3, SeqDef, LenProperties
  <2>6. \A k \in 1 .. Len(s) - 1 : t[k] = IF k < at THEN s[k] ELSE s[k + 1]
    OBVIOUS
  <2> HIDE DEF t
  <2>7. ASSUME NEW k \in 1 .. Len(s), s[k] # l
        PROVE  \E j \in 1 .. Len(t) : t[j] = s[k]
    <3>1. CASE k < at
      <4>1. k \in 1 .. Len(s) - 1
        BY <3>1, <2>1, <1>0
      <4> QED
        BY <4>1, <3>1, <2>5, <2>6
    <3>2. CASE k > at
      <4>1. k - 1 \in 1 .. Len(s) - 1 /\ ~(k - 1 < at) /\ k - 1 + 1 = k
        BY <3>2, <2>1, <1>0
      <4> QED
        BY <4>1, <2>5, <2>6
    <3>3. k # at
      BY <2>1, <2>7
    <3> QED
      BY <3>1, <3>2, <3>3, <2>1, <1>0
  <2> QED
    BY <2>2, <2>5, <2>7
<1> QED
  BY <1>1, <1>2

\* Putting a layer in keeps every layer there and bumps the version once.
LEMMA WithLayerKeeps ==
  ASSUME NEW d \in Doc, d.version < MaxVersion, NEW l \in Layers
  PROVE  /\ WithLayer(d, l) \in Doc
         /\ WithLayer(d, l).version = d.version + 1
         /\ Held(d) \subseteq Held(WithLayer(d, l))
<1> DEFINE s == Without(d.layers, l)
           t == Append(s, l)
<1>1. d.version \in Nat /\ d.layers \in Seq(Layers)
  BY DocFields
<1>2. s \in Seq(Layers)
  BY <1>1, WithoutKeeps
<1>3. d.version + 1 \in 1 .. MaxVersion
  BY <1>1, CommitAssumption
<1>4. WithLayer(d, l) = [version |-> d.version + 1, layers |-> t]
  BY DEF WithLayer
<1>5. /\ t \in Seq(Layers) /\ Len(t) = Len(s) + 1 /\ t[Len(s) + 1] = l
      /\ \A j \in 1 .. Len(s) : t[j] = s[j]
      /\ Len(s) \in Nat
  BY <1>2, AppendProperties, LenProperties
<1>6. ASSUME NEW x \in Held(d)  PROVE  \E j \in 1 .. Len(t) : t[j] = x
  <2>1. PICK k \in 1 .. Len(d.layers) : x = d.layers[k]
    BY <1>6 DEF Held
  <2>2. CASE x = l
    BY <2>2, <1>5
  <2>3. CASE x # l
    <3>1. PICK j \in 1 .. Len(s) : s[j] = x
      BY <2>1, <2>3, <1>1, WithoutKeeps
    <3> QED
      BY <3>1, <1>5
  <2> QED
    BY <2>2, <2>3
<1> HIDE DEF s, t
<1>7. WithLayer(d, l) \in Doc
  BY <1>3, <1>4, <1>5 DEF Doc
<1>8. WithLayer(d, l).version = d.version + 1 /\ WithLayer(d, l).layers = t
  BY <1>4
<1>9. Held(WithLayer(d, l)) = {t[j] : j \in 1 .. Len(t)}
  BY <1>8 DEF Held
<1> QED
  BY <1>6, <1>7, <1>8, <1>9
-----------------------------------------------------------------------------
\* What a document that is renamed into place carries.
LEMMA RegisteredHeld ==
  ASSUME NEW d \in Doc
  PROVE  Registered(d) \subseteq Held(d) /\ Registered(d) \subseteq Layers
<1>1. d.layers \in Seq(Layers) /\ Len(d.layers) \in Nat
  BY DocFields
<1>2. CASE d.layers = <<>>
  BY <1>2 DEF Registered
<1>3. CASE d.layers # <<>>
  <2>1. Len(d.layers) \in 1 .. Len(d.layers)
    BY <1>1, <1>3, EmptySeq
  <2>2. d.layers[Len(d.layers)] \in Layers
    BY <1>1, <2>1, ElementOfSeq
  <2> QED
    BY <1>3, <2>1, <2>2 DEF Registered, Held
<1> QED
  BY <1>2, <1>3

LEMMA LaterIsLast ==
  ASSUME NEW d \in Doc, Later(d)
  PROVE  Last(d)
<1>1. d.version \in Nat /\ \A v \in Versions : v \in Nat
  BY DocFields DEF Versions
<1> QED
  BY <1>1 DEF Later, Last

\* What is later depends on the two histories alone.
LEMMA LaterSame ==
  ASSUME UNCHANGED <<acked, published>>
  PROVE  \A d : (Later(d)' <=> Later(d)) /\ (Last(d)' <=> Last(d))
BY DEF Later, Last, Held

LEMMA InitCInv == ASSUME Init PROVE CInv
<1>1. TypeOK
  BY FirstDocIsDoc, CommitAssumption DEF Init, TypeOK, Steps
<1>2. AloneOnly /\ FdOpen /\ NamesApart /\ Whole /\ OwnTmp /\ LoneTmp
  BY CommitAssumption DEF Init, AloneOnly, FdOpen, NamesApart, Whole, OwnTmp, LoneTmp, AtTmp
<1>3. GoesOn
  BY CommitAssumption, NotADocument DEF Init, GoesOn, Readable, Pending
<1>4. SnapsKept /\ SnapTaken
  BY DEF Init, SnapsKept, SnapTaken
<1> QED
  BY <1>1, <1>2, <1>3, <1>4 DEF CInv

\* One process moves to step s; the others stay where they are.
LEMMA Moves ==
  ASSUME TypeOK, NEW p \in Procs, NEW s \in Steps, Goto(p, s)
  PROVE  /\ pc' \in [Procs -> Steps] /\ pc'[p] = s
         /\ \A q \in Procs : q # p => pc'[q] = pc[q]
BY DEF TypeOK, Goto

\* When a process is alone, the others are idle.
LEMMA OthersIdle ==
  ASSUME AloneOnly, NEW p \in alone, NEW q \in Procs, pc[q] # "idle"
  PROVE  q = p
BY DEF AloneOnly

\* Beginning a commit only sets doc[p], to a document later than all published.
LEMMA BeginCInv ==
  ASSUME CInv, NEW p \in Procs, NEW d \in Doc, Later(d), Begin(p, d)
  PROVE  CInv'
<1>1. /\ pc[p] = "idle" /\ Goto(p, "snap") /\ "snap" \in Steps
      /\ doc' = [doc EXCEPT ![p] = d] /\ doc \in [Procs -> Doc]
      /\ UNCHANGED <<manifest, tmp, content, snaps, fd, published, acked, met, crashes>>
  BY DEF Begin, disk, Steps, CInv, TypeOK
<1>2. /\ pc' \in [Procs -> Steps] /\ pc'[p] = "snap"
      /\ \A q \in Procs : q # p => pc'[q] = pc[q]
  BY <1>1, Moves DEF CInv
<1>3. doc'[p] = d /\ \A q \in Procs : q # p => doc'[q] = doc[q]
  BY <1>1
<1>4. \A q \in alone' : q = p /\ \A r \in Procs : pc[r] = "idle"
  BY DEF Begin
<1>5. before' \in Doc \cup {NoDoc, Absent}
  BY DEF Begin, Shown, Readable, CInv, TypeOK
<1>6. TypeOK'
  BY <1>1, <1>2, <1>4, <1>5 DEF CInv, TypeOK
<1>7. AloneOnly' /\ SnapTaken'
  BY <1>2, <1>4 DEF AloneOnly, SnapTaken
<1>8. FdOpen' /\ NamesApart' /\ Whole' /\ SnapsKept'
  BY <1>1, <1>2 DEF CInv, FdOpen, NamesApart, Whole, SnapsKept
<1>9. AtTmp' = AtTmp /\ p \notin AtTmp
  BY <1>1, <1>2 DEF AtTmp
<1>10. OwnTmp' /\ LoneTmp'
  <2>1. \A q \in AtTmp : q # p /\ q \in Procs
    BY <1>9 DEF AtTmp
  <2>2. LoneTmp'
    BY <1>4, <1>9, <2>1 DEF LoneTmp
  <2>3. OwnTmp'
    BY <1>1, <1>2, <1>3, <1>9, <2>1 DEF CInv, OwnTmp
  <2> QED
    BY <2>2, <2>3
<1>11. GoesOn'
  <2>1. \A e : (Later(e)' <=> Later(e)) /\ (Last(e)' <=> Last(e))
    BY <1>1, LaterSame
  <2>2. \A q \in Procs : pc'[q] # "idle" => Later(doc'[q])
    BY <1>2, <1>3 DEF CInv, GoesOn
  <2>3. Readable' = Readable /\ Current' = Current /\ \A i : Pending(i)' = Pending(i)
    BY <1>1 DEF Readable, Current, Pending
  <2> QED
    BY <1>1, <2>1, <2>2, <2>3 DEF CInv, GoesOn
<1> QED
  BY <1>6, <1>7, <1>8, <1>10, <1>11 DEF CInv

\* A write under versions/ is of a version later than all published.
LEMMA SnapshotLater ==
  ASSUME CInv, NEW p \in Procs, pc[p] # "idle", NEW x,
         snaps' = [snaps EXCEPT ![doc[p].version] = x], UNCHANGED published
  PROVE  SnapsKept' /\ snaps'[doc[p].version] = x
<1> DEFINE n == doc[p].version
<1>1. /\ doc[p] \in Doc /\ n \in Versions /\ n \in Nat
      /\ snaps \in [Versions -> Doc \cup {Empty, Torn, Absent}]
      /\ snaps' = [snaps EXCEPT ![n] = x]
  BY DocFields DEF CInv, TypeOK
<1>2. \A v \in Versions : published[v] # Absent => n > v
  BY DEF CInv, GoesOn, Later
<1>3. \A v \in Versions : published[v] # Absent => v # n
  BY <1>1, <1>2
<1> HIDE DEF n
<1>4. \A v \in Versions : v # n => snaps'[v] = snaps[v]
  BY <1>1
<1>5. snaps'[n] = x
  BY <1>1
<1> QED
  BY <1>3, <1>4, <1>5 DEF CInv, SnapsKept, n

LEMMA SnapCInv ==
  ASSUME CInv, NEW p \in Procs, OpenSnap(p) \/ WriteSnap(p)
  PROVE  CInv'
<1> DEFINE n == doc[p].version
<1>1. /\ pc[p] \in {"snap", "snapping"} /\ doc[p] \in Doc /\ n \in Versions
      /\ UNCHANGED <<manifest, tmp, content, doc, fd, alone, published, acked, met, before, crashes>>
  BY DocFields DEF OpenSnap, WriteSnap, CInv, TypeOK, hist
<1>2. PICK x \in Doc \cup {Empty, Torn}, s \in {"snapping", "tmp"} :
         /\ snaps' = [snaps EXCEPT ![n] = x] /\ Goto(p, s)
         /\ s = "snapping" => x = Empty
         /\ s = "tmp" => pc[p] = "snapping" /\ x \in Written(snaps[n], doc[p])
  <2>1. CASE OpenSnap(p)
    BY <2>1 DEF OpenSnap, SnapName
  <2>2. CASE WriteSnap(p)
    <3>1. PICK c \in Written(snaps[n], doc[p]) : snaps' = [snaps EXCEPT ![n] = c]
      BY <2>2 DEF WriteSnap, SnapName
    <3>2. c \in Doc \cup {Empty, Torn}
      BY <1>1, <3>1 DEF Written
    <3> QED
      BY <2>2, <3>1, <3>2 DEF WriteSnap
  <2> QED
    BY <2>1, <2>2
<1>3. s \in Steps
  BY DEF Steps
<1>4. /\ pc' \in [Procs -> Steps] /\ pc'[p] = s
      /\ \A q \in Procs : q # p => pc'[q] = pc[q]
  BY <1>2, <1>3, Moves DEF CInv
<1>5. TypeOK'
  BY <1>1, <1>2, <1>4 DEF CInv, TypeOK
<1>6. AloneOnly'
  BY <1>1, <1>4 DEF CInv, AloneOnly
<1>7. FdOpen' /\ NamesApart' /\ Whole'
  BY <1>1, <1>4 DEF CInv, FdOpen, NamesApart, Whole
<1>8. AtTmp' = AtTmp /\ p \notin AtTmp
  BY <1>1, <1>4 DEF AtTmp
<1>9. OwnTmp' /\ LoneTmp'
  <2>1. \A q \in AtTmp : pc'[q] = pc[q]
    BY <1>4, <1>8 DEF AtTmp
  <2> QED
    BY <1>1, <1>8, <2>1 DEF CInv, OwnTmp, LoneTmp
<1>10. GoesOn'
  <2>1. \A e : (Later(e)' <=> Later(e)) /\ (Last(e)' <=> Last(e))
    BY <1>1, LaterSame
  <2>2. \A q \in Procs : pc'[q] # "idle" => Later(doc'[q])
    BY <1>1, <1>4 DEF CInv, GoesOn
  <2>3. Readable' = Readable /\ Current' = Current /\ \A i : Pending(i)' = Pending(i)
    BY <1>1 DEF Readable, Current, Pending
  <2> QED
    BY <1>1, <2>1, <2>2, <2>3 DEF CInv, GoesOn
<1>11. SnapsKept' /\ snaps'[n] = x
  BY <1>1, <1>2, SnapshotLater
<1>12. SnapTaken'
  <2> SUFFICES ASSUME NEW q \in alone
               PROVE  /\ pc'[q] = "snapping" => snaps'[doc[q].version] = Empty
                      /\ pc'[q] \in {"tmp", "writing", "rename"} => snaps'[doc[q].version] = doc[q]
    BY <1>1 DEF SnapTaken
  <2>1. q = p
    BY <1>1, OthersIdle DEF CInv
  <2>2. s = "tmp" => x = doc[p]
    BY <1>2, <2>1 DEF CInv, SnapTaken, Written
  <2> QED
    BY <1>2, <1>4, <1>11, <2>1, <2>2
<1> QED
  BY <1>5, <1>6, <1>7, <1>9, <1>10, <1>11, <1>12 DEF CInv

\* The file opened is not manifest.json, and nobody else has it open unless two meet.
LEMMA OpenTmpCInv ==
  ASSUME CInv, NEW p \in Procs, OpenTmp(p)
  PROVE  CInv'
<1>1. /\ pc[p] = "tmp" /\ Goto(p, "writing") /\ "writing" \in Steps
      /\ content \in [Inodes -> Doc \cup {Empty, Torn}] /\ fd \in [Procs -> Inodes \cup {Absent}]
      /\ UNCHANGED <<manifest, snaps, doc, alone, published, acked, before, crashes>>
  BY DEF OpenTmp, CInv, TypeOK, Steps
<1>2. PICK i \in Inodes :
         /\ Opened(i) /\ tmp' = i /\ fd' = [fd EXCEPT ![p] = i]
         /\ content' = [content EXCEPT ![i] = Empty]
         /\ met' = IF AtTmp = {} THEN met \ {i} ELSE met \cup {i}
  BY DEF OpenTmp
<1>3. i # manifest /\ i # Absent
  BY <1>2, CommitAssumption DEF Opened, Unused, CInv, NamesApart
<1>4. /\ pc' \in [Procs -> Steps] /\ pc'[p] = "writing"
      /\ \A q \in Procs : q # p => pc'[q] = pc[q]
  BY <1>1, Moves DEF CInv
<1>5. /\ fd'[p] = i /\ \A q \in Procs : q # p => fd'[q] = fd[q]
      /\ content'[i] = Empty /\ \A j \in Inodes : j # i => content'[j] = content[j]
  BY <1>1, <1>2
<1>6. TypeOK'
  BY <1>1, <1>2, <1>4 DEF CInv, TypeOK
<1>7. AloneOnly' /\ SnapsKept' /\ SnapTaken'
  BY <1>1, <1>4 DEF CInv, AloneOnly, SnapsKept, SnapTaken
<1>8. FdOpen' /\ NamesApart'
  BY <1>1, <1>2, <1>3, <1>4, <1>5 DEF CInv, FdOpen, NamesApart
<1>9. Whole'
  <2>1. ASSUME NEW j \in Inodes, j \notin met', j = manifest
        PROVE  content'[j] \in Doc /\ \A q \in Procs : fd'[q] # j
    <3>1. j # i
      BY <1>3, <2>1
    <3>2. j \notin met
      BY <1>2, <2>1, <3>1
    <3> QED
      BY <1>5, <2>1, <3>1, <3>2 DEF CInv, Whole
  <2> QED
    BY <1>1, <2>1 DEF Whole
<1>10. AtTmp' = AtTmp \cup {p} /\ p \notin AtTmp
  BY <1>1, <1>4 DEF AtTmp
<1>11. OwnTmp'
  <2>1. ASSUME NEW j \in Inodes, j \notin met', j = i, NEW q \in AtTmp'
        PROVE  /\ \A r \in AtTmp' : r = q
               /\ pc'[q] = "writing" /\ fd'[q] = j /\ content'[j] = Empty
    <3>1. AtTmp = {}
      BY <1>2, <2>1
    <3>2. AtTmp' = {p}
      BY <1>10, <3>1
    <3> QED
      BY <1>4, <1>5, <2>1, <3>2
  <2>2. ASSUME NEW j \in Inodes \ met', NEW q \in AtTmp', j = tmp'
        PROVE  /\ \A r \in AtTmp' : r = q
               /\ pc'[q] = "writing" => fd'[q] = j /\ content'[j] = Empty
               /\ pc'[q] = "rename" => content'[j] = doc'[q]
    BY <1>2, <2>1, <2>2
  <2> QED
    BY <2>2 DEF OwnTmp
<1>12. LoneTmp'
  <2> SUFFICES ASSUME NEW q \in alone PROVE tmp' \in Inodes \ met'
    BY <1>1 DEF LoneTmp
  <2>1. \A r \in AtTmp : r \in Procs /\ pc[r] # "idle"
    BY DEF AtTmp
  <2>2. q = p /\ \A r \in AtTmp : r = q
    BY <1>1, <2>1, OthersIdle DEF CInv
  <2>3. AtTmp = {}
    BY <1>10, <2>2
  <2> QED
    BY <1>2, <2>3
<1>13. GoesOn'
  <2>1. \A e : (Later(e)' <=> Later(e)) /\ (Last(e)' <=> Last(e))
    BY <1>1, LaterSame
  <2>2. \A q \in Procs : pc'[q] # "idle" => Later(doc'[q])
    BY <1>1, <1>4 DEF CInv, GoesOn
  <2>3. Readable' => Last(Current')
    <3>1. manifest # Absent => manifest \in Inodes
      BY DEF CInv, TypeOK
    <3>2. manifest # Absent => Current' = Current
      BY <1>1, <1>3, <1>5, <3>1 DEF Current
    <3> QED
      BY <1>1, <3>2 DEF CInv, GoesOn, Readable
  <2>4. \A j \in Inodes : Pending(j)' /\ content'[j] \in Doc => Later(content'[j])
    <3> SUFFICES ASSUME NEW j \in Inodes, Pending(j)', content'[j] \in Doc
                 PROVE  Later(content'[j])
      OBVIOUS
    <3>1. j # i
      BY <1>5, NotADocument
    <3>2. Pending(j)
      BY <1>2, <1>5, <3>1 DEF Pending
    <3> QED
      BY <1>5, <3>1, <3>2 DEF CInv, GoesOn
  <2> QED
    BY <1>1, <2>1, <2>2, <2>3, <2>4 DEF CInv, GoesOn
<1> QED
  BY <1>6, <1>7, <1>8, <1>9, <1>11, <1>12, <1>13 DEF CInv

\* A process writes to the file it has open, wherever its name went.
LEMMA WriteTmpCInv ==
  ASSUME CInv, NEW p \in Procs, WriteTmp(p)
  PROVE  CInv'
<1> DEFINE i == fd[p]
<1>1. /\ pc[p] = "writing" /\ Goto(p, "rename") /\ "rename" \in Steps
      /\ content \in [Inodes -> Doc \cup {Empty, Torn}] /\ fd \in [Procs -> Inodes \cup {Absent}]
      /\ doc[p] \in Doc /\ i \in Inodes
      /\ UNCHANGED <<manifest, tmp, snaps, doc, alone, published, acked, met, before, crashes>>
  BY DEF WriteTmp, CInv, TypeOK, FdOpen, Steps, hist
<1>2. PICK c \in Written(content[i], doc[p]) :
         content' = [content EXCEPT ![i] = c] /\ fd' = [fd EXCEPT ![p] = Absent]
  BY DEF WriteTmp
<1>3. c \in {doc[p], Torn} /\ (content[i] = Empty => c = doc[p])
  BY <1>2 DEF Written
<1>4. /\ pc' \in [Procs -> Steps] /\ pc'[p] = "rename"
      /\ \A q \in Procs : q # p => pc'[q] = pc[q]
  BY <1>1, Moves DEF CInv
<1>5. /\ fd'[p] = Absent /\ \A q \in Procs : q # p => fd'[q] = fd[q]
      /\ content'[i] = c /\ \A j \in Inodes : j # i => content'[j] = content[j]
  BY <1>1, <1>2
<1>6. TypeOK'
  <2>1. content' \in [Inodes -> Doc \cup {Empty, Torn}] /\ fd' \in [Procs -> Inodes \cup {Absent}]
    BY <1>1, <1>2, <1>3
  <2> QED
    BY <1>1, <1>4, <2>1 DEF CInv, TypeOK
<1>7. AloneOnly' /\ SnapsKept' /\ SnapTaken'
  BY <1>1, <1>4 DEF CInv, AloneOnly, SnapsKept, SnapTaken
<1>8. FdOpen' /\ NamesApart'
  BY <1>1, <1>4, <1>5, CommitAssumption DEF CInv, FdOpen, NamesApart
<1>9. Whole'
  <2>1. ASSUME NEW j \in Inodes, j \notin met, j = manifest
        PROVE  content'[j] \in Doc /\ \A q \in Procs : fd'[q] # j
    <3>1. content[j] \in Doc /\ \A q \in Procs : fd[q] # j
      BY <2>1 DEF CInv, Whole
    <3> QED
      BY <1>5, <3>1, CommitAssumption
  <2> QED
    BY <1>1, <2>1 DEF Whole
<1>10. AtTmp' = AtTmp /\ p \in AtTmp
  BY <1>1, <1>4 DEF AtTmp
<1>11. OwnTmp'
  <2>1. ASSUME NEW j \in Inodes, j \notin met, j = tmp, NEW q \in AtTmp
        PROVE  /\ \A r \in AtTmp : r = q
               /\ pc'[q] = "rename" /\ content'[j] = doc[q]
    <3>1. q = p /\ fd[p] = j /\ content[j] = Empty /\ \A r \in AtTmp : r = q
      BY <1>1, <1>10, <2>1 DEF CInv, OwnTmp
    <3> QED
      BY <1>3, <1>4, <1>5, <3>1
  <2>2. ASSUME NEW j \in Inodes \ met', NEW q \in AtTmp', j = tmp'
        PROVE  /\ \A r \in AtTmp' : r = q
               /\ pc'[q] = "writing" => fd'[q] = j /\ content'[j] = Empty
               /\ pc'[q] = "rename" => content'[j] = doc'[q]
    BY <1>1, <1>10, <2>1, <2>2
  <2> QED
    BY <2>2 DEF OwnTmp
<1>12. LoneTmp'
  BY <1>1, <1>10 DEF CInv, LoneTmp
<1>13. GoesOn'
  <2>1. \A e : (Later(e)' <=> Later(e)) /\ (Last(e)' <=> Last(e))
    BY <1>1, LaterSame
  <2>2. \A q \in Procs : pc'[q] # "idle" => Later(doc'[q])
    BY <1>1, <1>4 DEF CInv, GoesOn
  <2>3. Later(doc[p]) /\ Last(doc[p])
    BY <1>1, LaterIsLast DEF CInv, GoesOn
  <2>4. Readable' => Last(Current')
    <3>1. manifest # Absent => manifest \in Inodes
      BY DEF CInv, TypeOK
    <3>2. CASE manifest = i
      BY <1>1, <1>3, <1>5, <2>3, <3>2, NotADocument DEF Readable, Current
    <3>3. CASE manifest # Absent /\ manifest # i
      <4>1. Current' = Current
        BY <1>1, <1>5, <3>1, <3>3 DEF Current
      <4> QED
        BY <1>1, <4>1 DEF CInv, GoesOn, Readable
    <3> QED
      BY <1>1, <3>2, <3>3 DEF Readable
  <2>5. \A j \in Inodes : Pending(j)' /\ content'[j] \in Doc => Later(content'[j])
    <3> SUFFICES ASSUME NEW j \in Inodes, Pending(j)', content'[j] \in Doc
                 PROVE  Later(content'[j])
      OBVIOUS
    <3>1. CASE j = i
      BY <1>3, <1>5, <2>3, <3>1, NotADocument
    <3>2. CASE j # i
      <4>1. Pending(j)
        BY <1>1, <1>5, CommitAssumption DEF Pending
      <4> QED
        BY <1>5, <3>2, <4>1 DEF CInv, GoesOn
    <3> QED
      BY <3>1, <3>2
  <2> QED
    BY <1>1, <2>1, <2>2, <2>4, <2>5 DEF CInv, GoesOn
<1> QED
  BY <1>6, <1>7, <1>8, <1>9, <1>11, <1>12, <1>13 DEF CInv

\* The rename publishes the file that has the name: if no two met at it, what the one
\* process wrote; in a lone commit, its own document.
LEMMA RenameCInv ==
  ASSUME CInv, NEW p \in Procs, Rename(p)
  PROVE  CInv'
<1> DEFINE n == doc[p].version
<1>1. /\ pc[p] = "rename" /\ Goto(p, "idle") /\ "idle" \in Steps
      /\ doc \in [Procs -> Doc] /\ doc[p] \in Doc /\ n \in Versions /\ n \in Nat
      /\ doc' = [doc EXCEPT ![p] = FirstDoc] /\ FirstDoc \in Doc /\ alone' = alone \ {p}
      /\ UNCHANGED <<content, snaps, fd, met, before, crashes>>
  BY DocFields, FirstDocIsDoc DEF Rename, CInv, TypeOK, Steps
<1>2. /\ pc' \in [Procs -> Steps] /\ pc'[p] = "idle"
      /\ \A q \in Procs : q # p => pc'[q] = pc[q] /\ doc'[q] = doc[q]
  BY <1>1, Moves DEF CInv
<1>3. p \in AtTmp /\ fd[p] \notin Inodes
  BY <1>1 DEF AtTmp, CInv, FdOpen
<1>4. AtTmp' = AtTmp \ {p}
  BY <1>1, <1>2 DEF AtTmp
<1>5. AloneOnly' /\ FdOpen'
  BY <1>1, <1>2 DEF CInv, AloneOnly, FdOpen
<1>6. SnapTaken'
  BY <1>1, <1>2 DEF CInv, SnapTaken, TypeOK
<1>7. CASE tmp = Absent
  <2>1. UNCHANGED <<manifest, tmp, published, acked>> /\ p \notin alone
    BY <1>3, <1>7, CommitAssumption DEF Rename, CInv, LoneTmp
  <2>2. TypeOK' /\ NamesApart' /\ Whole' /\ SnapsKept'
    BY <1>1, <1>2, <2>1 DEF CInv, TypeOK, NamesApart, Whole, SnapsKept
  <2>3. OwnTmp' /\ LoneTmp'
    BY <1>1, <1>2, <1>4, <1>7, <2>1, CommitAssumption DEF CInv, OwnTmp, LoneTmp
  <2>4. GoesOn'
    <3>1. \A e : (Later(e)' <=> Later(e)) /\ (Last(e)' <=> Last(e))
      BY <2>1, LaterSame
    <3>2. \A q \in Procs : pc'[q] # "idle" => Later(doc'[q])
      BY <1>2 DEF CInv, GoesOn
    <3>3. Readable' = Readable /\ Current' = Current /\ \A i : Pending(i)' = Pending(i)
      BY <1>1, <2>1 DEF Readable, Current, Pending
    <3> QED
      BY <1>1, <2>1, <3>1, <3>2, <3>3 DEF CInv, GoesOn
  <2> QED
    BY <1>5, <1>6, <2>2, <2>3, <2>4 DEF CInv
<1>8. CASE tmp # Absent
  <2>1. tmp \in Inodes /\ manifest' = tmp /\ tmp' = Absent
    BY <1>8 DEF Rename, CInv, TypeOK
  <2>2. tmp \notin met => content[tmp] = doc[p] /\ \A q \in Procs : fd[q] # tmp
    <3> SUFFICES ASSUME tmp \notin met
                 PROVE  content[tmp] = doc[p] /\ \A q \in Procs : fd[q] # tmp
      OBVIOUS
    <3>1. content[tmp] = doc[p] /\ \A q \in AtTmp : q = p
      BY <1>1, <1>3, <2>1 DEF CInv, OwnTmp
    <3>2. \A q \in Procs : fd[q] \in Inodes => q \in AtTmp
      BY DEF CInv, FdOpen, AtTmp
    <3> QED
      BY <1>3, <2>1, <3>1, <3>2
  <2>3. NamesApart' /\ Whole'
    BY <1>1, <2>1, <2>2, CommitAssumption DEF NamesApart, Whole
  <2>4. OwnTmp' /\ LoneTmp'
    <3>1. OwnTmp'
      BY <2>1, CommitAssumption DEF OwnTmp
    <3>2. LoneTmp'
      <4>1. \A q \in alone' : q = p
        <5>1. \A q \in alone : q \in Procs
          BY DEF CInv, TypeOK
        <5> QED
          BY <1>1, <5>1 DEF CInv, AloneOnly
      <4> QED
        BY <1>1, <4>1 DEF LoneTmp
    <3> QED
      BY <3>1, <3>2
  <2>5. CASE p \notin alone
    <3>1. UNCHANGED <<published, acked>>
      BY <1>8, <2>5 DEF Rename
    <3>2. TypeOK' /\ SnapsKept'
      BY <1>1, <1>2, <2>1, <3>1 DEF CInv, TypeOK, SnapsKept
    <3>3. GoesOn'
      <4>1. \A e : (Later(e)' <=> Later(e)) /\ (Last(e)' <=> Last(e))
        BY <3>1, LaterSame
      <4>2. \A q \in Procs : pc'[q] # "idle" => Later(doc'[q])
        BY <1>2 DEF CInv, GoesOn
      <4>3. Readable' => Last(Current')
        <5>1. Current' = content[tmp]
          BY <1>1, <2>1 DEF Current
        <5>2. content[tmp] \in Doc => Last(content[tmp])
          BY <2>1, LaterIsLast DEF CInv, GoesOn, Pending
        <5> QED
          BY <5>1, <5>2 DEF Readable
      <4>4. \A j \in Inodes : Pending(j)' => Pending(j)
        BY <1>1, <2>1, CommitAssumption DEF Pending
      <4>5. manifest' # Absent
        BY <2>1, CommitAssumption
      <4> QED
        BY <1>1, <4>1, <4>2, <4>3, <4>4, <4>5 DEF CInv, GoesOn
    <3> QED
      BY <1>5, <1>6, <2>3, <2>4, <3>2, <3>3 DEF CInv
  <2>6. CASE p \in alone
    <3>1. /\ content[tmp] = doc[p] /\ snaps[n] = doc[p]
          /\ published' = [published EXCEPT ![n] = doc[p]]
          /\ acked' = acked \cup Registered(doc[p])
      <4>1. tmp \notin met
        BY <1>3, <2>6 DEF CInv, LoneTmp
      <4>2. content[tmp] = doc[p]
        BY <2>2, <4>1
      <4>3. snaps[n] = doc[p]
        BY <1>1, <2>6 DEF CInv, SnapTaken
      <4> QED
        BY <1>8, <2>6, <4>2, <4>3 DEF Rename
    <3>2. Registered(doc[p]) \subseteq Held(doc[p]) /\ Registered(doc[p]) \subseteq Layers
      BY <1>1, RegisteredHeld
    <3>3. published \in [Versions -> Doc \cup {Absent}]
      BY DEF CInv, TypeOK
    <3>4. published'[n] = doc[p] /\ \A v \in Versions : v # n => published'[v] = published[v]
      <4> HIDE DEF n
      <4> QED
        BY <1>1, <3>1, <3>3
    <3>5. TypeOK'
      BY <1>1, <1>2, <2>1, <3>1, <3>2, <3>3 DEF CInv, TypeOK
    <3>6. SnapsKept'
      BY <1>1, <3>1, <3>4 DEF CInv, SnapsKept
    <3>7. Later(doc[p])
      BY <1>1 DEF CInv, GoesOn
    <3>8. Last(Current)'
      <4>1. Current' = doc[p]
        BY <1>1, <2>1, <3>1 DEF Current
      <4>2. acked' \subseteq Held(doc[p])
        BY <3>1, <3>2, <3>7 DEF Later
      <4>3. ASSUME NEW v \in Versions, published'[v] # Absent  PROVE  n >= v
        <5>1. v \in Nat
          BY DEF Versions
        <5>2. v # n => n > v
          BY <3>4, <3>7, <4>3 DEF Later
        <5> QED
          BY <1>1, <5>1, <5>2
      <4> QED
        BY <4>1, <4>2, <4>3 DEF Last, Held
    <3>9. \A q \in Procs : pc'[q] = "idle" /\ fd'[q] \notin Inodes
      BY <1>1, <1>2, <2>6, OthersIdle DEF CInv, FdOpen
    <3>10. GoesOn'
      <4>1. manifest' # Absent /\ \A j \in Inodes : ~Pending(j)'
        BY <2>1, <3>9, CommitAssumption DEF Pending
      <4> QED
        BY <3>8, <3>9, <4>1 DEF GoesOn
    <3> QED
      BY <1>5, <1>6, <2>3, <2>4, <3>5, <3>6, <3>10 DEF CInv
  <2> QED
    BY <2>5, <2>6
<1> QED
  BY <1>7, <1>8

\* A process that dies leaves its file behind, whole or not; if it was at a temporary
\* file where nobody met it, nobody is there now.
LEMMA CrashCInv ==
  ASSUME CInv, NEW p \in Procs, Crash(p)
  PROVE  CInv'
<1>1. /\ pc[p] # "idle" /\ Goto(p, "idle") /\ "idle" \in Steps
      /\ content \in [Inodes -> Doc \cup {Empty, Torn}] /\ fd \in [Procs -> Inodes \cup {Absent}]
      /\ snaps \in [Versions -> Doc \cup {Empty, Torn, Absent}]
      /\ doc \in [Procs -> Doc] /\ doc' = [doc EXCEPT ![p] = FirstDoc] /\ FirstDoc \in Doc
      /\ fd' = [fd EXCEPT ![p] = Absent] /\ alone' = alone \ {p} /\ crashes' \in Nat
      /\ UNCHANGED <<manifest, tmp, published, acked, met, before>>
  BY FirstDocIsDoc DEF Crash, CInv, TypeOK, Steps
<1>2. /\ pc' \in [Procs -> Steps] /\ pc'[p] = "idle"
      /\ \A q \in Procs : q # p => pc'[q] = pc[q] /\ doc'[q] = doc[q]
  BY <1>1, Moves DEF CInv
<1>3. fd'[p] = Absent /\ \A q \in Procs : q # p => fd'[q] = fd[q]
  BY <1>1
<1>4. /\ content' \in [Inodes -> Doc \cup {Empty, Torn}]
      /\ \A j \in Inodes : \/ content'[j] = content[j]
                           \/ pc[p] = "writing" /\ j = fd[p] /\ content'[j] = Torn
  <2>1. CASE UNCHANGED content
    BY <1>1, <2>1
  <2>2. CASE pc[p] = "writing" /\ content' = [content EXCEPT ![fd[p]] = Torn]
    <3>1. fd[p] \in Inodes
      BY <2>2 DEF CInv, FdOpen
    <3> QED
      BY <1>1, <2>2, <3>1
  <2> QED
    BY <2>1, <2>2 DEF Crash
<1>5. /\ snaps' \in [Versions -> Doc \cup {Empty, Torn, Absent}] /\ SnapsKept'
  <2>1. CASE UNCHANGED snaps
    BY <1>1, <2>1 DEF CInv, SnapsKept
  <2>2. CASE snaps' = [snaps EXCEPT ![SnapName(doc[p])] = Torn]
    <3>1. snaps' = [snaps EXCEPT ![doc[p].version] = Torn]
      BY <2>2 DEF SnapName
    <3> QED
      BY <1>1, <3>1, SnapshotLater
  <2> QED
    BY <2>1, <2>2 DEF Crash
<1>6. alone' = {}
  <2>1. \A q \in alone : q \in Procs
    BY DEF CInv, TypeOK
  <2> QED
    BY <1>1, <2>1, OthersIdle DEF CInv
<1>7. TypeOK'
  BY <1>1, <1>2, <1>4, <1>5, <1>6 DEF CInv, TypeOK
<1>8. AloneOnly' /\ LoneTmp' /\ SnapTaken'
  BY <1>6 DEF AloneOnly, LoneTmp, SnapTaken
<1>9. FdOpen' /\ NamesApart'
  BY <1>1, <1>2, <1>3, CommitAssumption DEF CInv, FdOpen, NamesApart
<1>10. Whole'
  <2>1. ASSUME NEW j \in Inodes, j \notin met, j = manifest
        PROVE  content'[j] \in Doc /\ \A q \in Procs : fd'[q] # j
    <3>1. content[j] \in Doc /\ \A q \in Procs : fd[q] # j
      BY <2>1 DEF CInv, Whole
    <3> QED
      BY <1>3, <1>4, <3>1, CommitAssumption
  <2> QED
    BY <1>1, <2>1 DEF Whole
<1>11. OwnTmp'
  <2>1. AtTmp' = AtTmp \ {p}
    BY <1>1, <1>2 DEF AtTmp
  <2>2. ASSUME NEW j \in Inodes, j \notin met, j = tmp, NEW q \in AtTmp, q # p
        PROVE  /\ \A r \in AtTmp : r = q
               /\ pc'[q] = "writing" => fd'[q] = j /\ content'[j] = Empty
               /\ pc'[q] = "rename" => content'[j] = doc'[q]
    <3>1. /\ \A r \in AtTmp : r = q
          /\ pc[q] = "writing" => fd[q] = j /\ content[j] = Empty
          /\ pc[q] = "rename" => content[j] = doc[q]
          /\ q \in Procs
      BY <2>2 DEF CInv, OwnTmp, AtTmp
    <3>2. p \notin AtTmp
      BY <2>2, <3>1
    <3>3. content'[j] = content[j]
      BY <1>4, <3>2 DEF AtTmp
    <3> QED
      BY <1>2, <1>3, <2>2, <3>1, <3>3
  <2>3. ASSUME NEW j \in Inodes \ met', NEW q \in AtTmp', j = tmp'
        PROVE  /\ \A r \in AtTmp' : r = q
               /\ pc'[q] = "writing" => fd'[q] = j /\ content'[j] = Empty
               /\ pc'[q] = "rename" => content'[j] = doc'[q]
    BY <1>1, <2>1, <2>2, <2>3
  <2> QED
    BY <2>3 DEF OwnTmp
<1>12. GoesOn'
  <2>1. \A e : (Later(e)' <=> Later(e)) /\ (Last(e)' <=> Last(e))
    BY <1>1, LaterSame
  <2>2. \A q \in Procs : pc'[q] # "idle" => Later(doc'[q])
    BY <1>2 DEF CInv, GoesOn
  <2>3. Readable' => Last(Current')
    <3>1. manifest # Absent => manifest \in Inodes
      BY DEF CInv, TypeOK
    <3>2. Readable' => Readable /\ Current' = Current
      BY <1>1, <1>4, <3>1, NotADocument DEF Readable, Current
    <3> QED
      BY <3>2 DEF CInv, GoesOn
  <2>4. \A j \in Inodes : Pending(j)' /\ content'[j] \in Doc => Later(content'[j])
    <3> SUFFICES ASSUME NEW j \in Inodes, Pending(j)', content'[j] \in Doc
                 PROVE  Later(content'[j])
      OBVIOUS
    <3>1. Pending(j)
      BY <1>1, <1>3, CommitAssumption DEF Pending
    <3>2. content'[j] = content[j]
      BY <1>4, NotADocument
    <3> QED
      BY <3>1, <3>2 DEF CInv, GoesOn
  <2> QED
    BY <1>1, <2>1, <2>2, <2>3, <2>4 DEF CInv, GoesOn
<1> QED
  BY <1>5, <1>7, <1>8, <1>9, <1>10, <1>11, <1>12 DEF CInv
-----------------------------------------------------------------------------
\* What a caller loads, or starts from, comes after all that was published.
LEMMA BeginLater ==
  ASSUME CInv, NEW p \in Procs, NEW d, Begin(p, d),
         \/ manifest = Absent /\ d = FirstDoc
         \/ Readable /\ Current.version < MaxVersion /\ \E l \in Layers : d = WithLayer(Current, l)
  PROVE  d \in Doc /\ Later(d) /\ d.version = Shown.version + 1
<1>1. CASE manifest = Absent /\ d = FirstDoc
  BY <1>1, FirstDocIsDoc DEF CInv, GoesOn, Later, Shown, Readable, NoDoc
<1>2. CASE Readable /\ Current.version < MaxVersion /\ \E l \in Layers : d = WithLayer(Current, l)
  <2>1. Current \in Doc /\ Last(Current) /\ Shown = Current
    BY <1>2 DEF Readable, CInv, GoesOn, Shown
  <2>2. /\ d \in Doc /\ d.version = Current.version + 1 /\ Held(Current) \subseteq Held(d)
    BY <1>2, <2>1, WithLayerKeeps
  <2>3. Current.version \in Nat /\ \A v \in Versions : v \in Nat
    BY <2>1, DocFields DEF Versions
  <2>4. Later(d)
    BY <2>1, <2>2, <2>3 DEF Last, Later
  <2> QED
    BY <2>1, <2>2, <2>4
<1> QED
  BY <1>1, <1>2

LEMMA StepCInv ==
  ASSUME CInv, [Next]_vars
  PROVE  CInv'
<1>1. CASE UNCHANGED vars
  BY <1>1 DEF CInv, vars, TypeOK, AloneOnly, FdOpen, NamesApart, Whole, OwnTmp, LoneTmp, GoesOn,
              SnapsKept, SnapTaken, AtTmp, Readable, Current, Pending, Later, Last, Held
<1>2. ASSUME NEW p \in Procs, BeginCreate(p)  PROVE  CInv'
  BY <1>2, BeginLater, BeginCInv DEF BeginCreate
<1>3. ASSUME NEW p \in Procs, NEW l \in Layers, BeginRegister(p, l)  PROVE  CInv'
  <2>1. /\ Readable /\ Current.version < MaxVersion /\ Begin(p, WithLayer(Current, l))
    BY <1>3 DEF BeginRegister
  <2>2. WithLayer(Current, l) \in Doc /\ Later(WithLayer(Current, l))
    BY <2>1, BeginLater
  <2> QED
    BY <2>1, <2>2, BeginCInv
<1>4. ASSUME NEW p \in Procs, OpenSnap(p) \/ WriteSnap(p)  PROVE  CInv'
  BY <1>4, SnapCInv
<1>5. ASSUME NEW p \in Procs, OpenTmp(p)  PROVE  CInv'
  BY <1>5, OpenTmpCInv
<1>6. ASSUME NEW p \in Procs, WriteTmp(p)  PROVE  CInv'
  BY <1>6, WriteTmpCInv
<1>7. ASSUME NEW p \in Procs, Rename(p)  PROVE  CInv'
  BY <1>7, RenameCInv
<1>8. ASSUME NEW p \in Procs, Crash(p)  PROVE  CInv'
  BY <1>8, CrashCInv
<1> QED
  BY <1>1, <1>2, <1>3, <1>4, <1>5, <1>6, <1>7, <1>8 DEF Next, Quiet

-----------------------------------------------------------------------------
\* retain keeps the other names, each once, in their order.
LEMMA WithoutFacts ==
  ASSUME NEW s \in Seq(Layers), NEW l, Registry!EachOnce(s)
  PROVE  LET t == Without(s, l)
         IN  /\ Registry!Names(t) = Registry!Names(s) \ {l} /\ Registry!EachOnce(t)
             /\ \A m, n \in Registry!Names(s) \ {l} :
                  Registry!Before(s, m, n) => Registry!Before(t, m, n)
<1> USE DEF Registry!Names, Registry!EachOnce, Registry!Before
<1>0. Len(s) \in Nat
  BY LenProperties
<1>1. CASE \A k \in 1 .. Len(s) : s[k] # l
  BY <1>1 DEF Without
<1>2. CASE ~\A k \in 1 .. Len(s) : s[k] # l
  <2>1. PICK at : /\ at \in 1 .. Len(s) /\ s[at] = l
                  /\ Without(s, l) = [k \in 1 .. Len(s) - 1 |-> IF k < at THEN s[k] ELSE s[k + 1]]
    BY <1>2 DEF Without
  <2>2. PICK t : t = Without(s, l)
    OBVIOUS
  <2>3. /\ Len(s) - 1 \in Nat /\ Len(t) = Len(s) - 1
        /\ \A k \in 1 .. Len(s) - 1 : t[k] = s[IF k < at THEN k ELSE k + 1]
    <3>1. Len(s) - 1 \in Nat
      BY <1>0, <2>1
    <3>2. t \in Seq(Layers)
      BY <2>2, WithoutKeeps
    <3>3. DOMAIN t = 1 .. Len(s) - 1
      BY <2>1, <2>2
    <3>4. Len(t) = Len(s) - 1
      BY <3>1, <3>2, <3>3, LenProperties
    <3> QED
      BY <2>1, <2>2, <3>1, <3>4
  <2> DEFINE there(k) == IF k < at THEN k ELSE k + 1
             back(i) == IF i < at THEN i ELSE i - 1
  <2>4. \A k \in 1 .. Len(s) - 1 : there(k) \in 1 .. Len(s) /\ there(k) # at /\ t[k] = s[there(k)]
    BY <1>0, <2>1, <2>3
  <2>5. \A i \in 1 .. Len(s) : i # at => back(i) \in 1 .. Len(s) - 1 /\ there(back(i)) = i
    BY <1>0, <2>1
  <2>6. \A i, j \in 1 .. Len(s) : i < j /\ i # at /\ j # at => back(i) < back(j)
    BY <1>0, <2>1
  <2>7. \A i, j \in 1 .. Len(s) - 1 : there(i) = there(j) => i = j
    BY <1>0, <2>1
  <2> HIDE DEF there, back
  <2>8. \A i \in 1 .. Len(s) : s[i] = l => i = at
    BY <2>1
  <2>9. {t[k] : k \in 1 .. Len(t)} = {s[k] : k \in 1 .. Len(s)} \ {l}
    <3>1. ASSUME NEW i \in 1 .. Len(s), s[i] # l PROVE \E k \in 1 .. Len(t) : t[k] = s[i]
      BY <2>1, <2>3, <2>4, <2>5, <3>1
    <3>2. ASSUME NEW k \in 1 .. Len(t) PROVE \E i \in 1 .. Len(s) : t[k] = s[i] /\ s[i] # l
      BY <2>3, <2>4, <2>8, <3>2
    <3> QED
      BY <3>1, <3>2
  <2>10. \A i, j \in 1 .. Len(t) : t[i] = t[j] => i = j
    BY <2>3, <2>4, <2>7
  <2>11. ASSUME NEW m, NEW n, m # l, n # l, NEW i \in 1 .. Len(s), NEW j \in 1 .. Len(s),
                i < j, s[i] = m, s[j] = n
         PROVE  \E a, b \in 1 .. Len(t) : a < b /\ t[a] = m /\ t[b] = n
    <3>1. i # at /\ j # at
      BY <2>1, <2>11
    <3>2. /\ back(i) \in 1 .. Len(t) /\ back(j) \in 1 .. Len(t) /\ back(i) < back(j)
          /\ t[back(i)] = m /\ t[back(j)] = n
      BY <2>3, <2>4, <2>5, <2>6, <2>11, <3>1
    <3> QED BY <3>2
  <2>12. Registry!Names(t) = Registry!Names(s) \ {l} /\ Registry!EachOnce(t)
    BY <2>9, <2>10
  <2>13. ASSUME NEW m, NEW n, m # l, n # l, Registry!Before(s, m, n) PROVE Registry!Before(t, m, n)
    BY <2>11, <2>13
  <2>14. ASSUME NEW m \in Registry!Names(s) \ {l}, NEW n \in Registry!Names(s) \ {l}, Registry!Before(s, m, n)
         PROVE  Registry!Before(t, m, n)
    BY <2>13, <2>14
  <2> HIDE DEF Registry!Names, Registry!EachOnce, Registry!Before
  <2> QED
    BY <2>2, <2>12, <2>14
<1> QED BY <1>1, <1>2

\* A registration, as the registry has it.
LEMMA WithLayerFacts ==
  ASSUME NEW d \in Doc, Registry!EachOnce(d.layers), NEW l \in Layers
  PROVE  LET e == WithLayer(d, l)
         IN  /\ e.version = d.version + 1
             /\ Registry!Names(e.layers) = Registry!Names(d.layers) \cup {l}
             /\ Registry!EachOnce(e.layers) /\ e.layers[Len(e.layers)] = l
             /\ \A m, n \in Registry!Names(d.layers) \ {l} :
                  Registry!Before(d.layers, m, n) => Registry!Before(e.layers, m, n)
<1>1. PICK s : s = Without(d.layers, l)
  OBVIOUS
<1>2. PICK t : t = Append(s, l)
  OBVIOUS
<1>3. d.layers \in Seq(Layers)
  BY DocFields
<1>4. s \in Seq(Layers)
  BY <1>1, <1>3, WithoutKeeps
<1>5. /\ Registry!Names(s) = Registry!Names(d.layers) \ {l} /\ Registry!EachOnce(s)
      /\ \A m, n \in Registry!Names(d.layers) \ {l} :
           Registry!Before(d.layers, m, n) => Registry!Before(s, m, n)
  BY <1>1, <1>3, WithoutFacts
<1>6. /\ Len(s) \in Nat /\ Len(t) = Len(s) + 1 /\ t[Len(s) + 1] = l
      /\ \A j \in 1 .. Len(s) : t[j] = s[j]
  BY <1>2, <1>4, AppendProperties, LenProperties
<1>7. 1 .. Len(t) = (1 .. Len(s)) \cup {Len(s) + 1}
  BY <1>6
<1>8. Registry!Names(t) = Registry!Names(s) \cup {l}
  <2>1. {t[j] : j \in 1 .. Len(s)} = {s[j] : j \in 1 .. Len(s)}
    BY <1>6
  <2> QED
    BY <1>6, <1>7, <2>1 DEF Registry!Names
<1>9. Registry!EachOnce(t)
  <2>1. \A j \in 1 .. Len(s) : t[j] # l
    BY <1>5, <1>6 DEF Registry!Names
  <2> QED
    BY <1>5, <1>6, <1>7, <2>1 DEF Registry!EachOnce
<1>10. \A m, n : Registry!Before(s, m, n) => Registry!Before(t, m, n)
  BY <1>6, <1>7 DEF Registry!Before
<1>11. WithLayer(d, l).layers = t /\ WithLayer(d, l).version = d.version + 1
  BY <1>1, <1>2 DEF WithLayer
<1>12. Registry!Names(t) = Registry!Names(d.layers) \cup {l}
  BY <1>5, <1>8
<1> QED
  BY <1>5, <1>6, <1>9, <1>10, <1>11, <1>12
-----------------------------------------------------------------------------
(* Until two commits overlap.                                                *)

\* A manifest nobody met at can be loaded; what no step but a rename changes.
LEMMA Loads ==
  ASSUME CInv, met = {}, manifest # Absent
  PROVE  Readable /\ Current \in Doc /\ Shown = Current /\ manifest \in Inodes
BY DEF CInv, TypeOK, Whole, Readable, Current, Shown

LEMMA SameManifest ==
  ASSUME CInv, met = {}, NEW p \in Procs,
         \/ \E d : Begin(p, d)
         \/ OpenSnap(p) \/ WriteSnap(p) \/ OpenTmp(p) \/ WriteTmp(p) \/ Crash(p)
  PROVE  /\ manifest' = manifest /\ Readable' = Readable /\ Shown' = Shown
         /\ manifest # Absent => Current' = Current
<1>1. manifest' = manifest
  BY DEF Begin, OpenSnap, WriteSnap, OpenTmp, WriteTmp, Crash, disk
<1>2. ASSUME manifest # Absent  PROVE  content'[manifest] = content[manifest]
  <2>1. manifest \in Inodes /\ manifest # tmp /\ \A q \in Procs : fd[q] # manifest
    BY <1>2 DEF CInv, TypeOK, NamesApart, Whole
  <2>2. CASE OpenTmp(p)
    <3>1. PICK i \in Inodes : Opened(i) /\ content' = [content EXCEPT ![i] = Empty]
      BY <2>2 DEF OpenTmp
    <3>2. i # manifest
      BY <2>1, <3>1 DEF Opened, Unused
    <3> QED
      BY <2>1, <3>1, <3>2 DEF CInv, TypeOK
  <2>3. CASE WriteTmp(p)
    BY <2>1, <2>3 DEF WriteTmp, CInv, TypeOK
  <2>4. CASE Crash(p)
    BY <2>1, <2>4 DEF Crash, CInv, TypeOK
  <2>5. CASE ~(OpenTmp(p) \/ WriteTmp(p) \/ Crash(p))
    BY <2>5 DEF Begin, OpenSnap, WriteSnap, disk
  <2> QED
    BY <2>2, <2>3, <2>4, <2>5
<1>3. manifest # Absent => Current' = Current
  BY <1>1, <1>2 DEF Current
<1> QED
  BY <1>1, <1>3 DEF Readable, Shown

\* A caller's commit begins with what BeginLater speaks of.
LEMMA BeginPlanned ==
  ASSUME NEW p \in Procs, BeginCreate(p) \/ \E l \in Layers : BeginRegister(p, l)
  PROVE  \E d : Begin(p, d) /\ Planned(d)
BY DEF BeginCreate, BeginRegister, Planned

LEMMA BeginApart ==
  ASSUME CInv, Apart, NEW p \in Procs, NEW d, Begin(p, d), Planned(d)
  PROVE  Apart' /\ UNCHANGED Seen
<1>1. Shown # Absent /\ Shown \in Doc \cup {NoDoc}
  BY NotADocument DEF Shown, Readable
<1>2. CASE before' # Absent
  <2>1. Seen' = Seen
    BY <1>1, <1>2 DEF Begin, Seen
  <2> QED
    BY <1>2, <2>1 DEF Apart
<1>3. CASE before' = Absent
  <2>1. before = Absent /\ alone' = {p} /\ \A q \in Procs : pc[q] = "idle"
    BY <1>1, <1>3 DEF Begin
  <2>2. met = {} /\ met' = met /\ published' = published
    BY <2>1 DEF Apart, Begin
  <2>3. /\ manifest' = manifest /\ Readable' = Readable /\ Shown' = Shown
        /\ manifest # Absent => Current' = Current
    BY <2>2, SameManifest
  <2>4. doc'[p] = d /\ \A q \in Procs : q # p => pc'[q] = "idle"
    BY <2>1 DEF Begin, Goto, CInv, TypeOK
  <2>5. Planned(d)'
    BY <2>3 DEF Planned, Readable
  <2>6. \A q \in Procs : pc'[q] # "idle" => q \in alone' /\ Planned(doc[q])'
    BY <2>1, <2>4, <2>5 DEF Planned
  <2>7. Apart'
    BY <2>1, <2>2, <2>3, <2>6 DEF Apart
  <2>8. Seen' = Seen
    BY <1>3, <2>1, <2>3 DEF Seen
  <2> QED
    BY <2>7, <2>8
<1> QED
  BY <1>2, <1>3

LEMMA StepApart ==
  ASSUME CInv, Apart, NEW p \in Procs,
         OpenSnap(p) \/ WriteSnap(p) \/ OpenTmp(p) \/ WriteTmp(p) \/ Crash(p)
  PROVE  Apart' /\ UNCHANGED Seen
<1>1. before' = before /\ published' = published /\ pc[p] # "idle"
  BY DEF OpenSnap, WriteSnap, OpenTmp, WriteTmp, Crash, hist
<1>2. CASE before # Absent
  BY <1>1, <1>2 DEF Apart, Seen
<1>3. CASE before = Absent
  <2>1. /\ met = {} /\ p \in alone
        /\ \A q \in Procs : pc[q] # "idle" => q = p /\ Planned(doc[q])
    BY <1>1, <1>3, OthersIdle DEF Apart, CInv
  <2>2. /\ manifest' = manifest /\ Readable' = Readable /\ Shown' = Shown
        /\ manifest # Absent => Current' = Current
    BY <2>1, SameManifest
  <2>3. met' = {}
    <3>1. CASE OpenTmp(p)
      <4>1. AtTmp = {}
        BY <2>1, <3>1 DEF AtTmp, OpenTmp
      <4> QED
        BY <2>1, <3>1, <4>1 DEF OpenTmp
    <3> QED
      BY <2>1, <3>1 DEF OpenSnap, WriteSnap, WriteTmp, Crash, hist
  <2>4. \A q \in Procs : q # p => pc'[q] = "idle"
    BY <2>1 DEF OpenSnap, WriteSnap, OpenTmp, WriteTmp, Crash, Goto, CInv, TypeOK
  <2>5. pc'[p] # "idle" => p \in alone' /\ doc' = doc
    BY <2>1 DEF OpenSnap, WriteSnap, OpenTmp, WriteTmp, Crash, Goto, CInv, TypeOK, hist
  <2>6. doc' = doc => (Planned(doc[p])' <=> Planned(doc[p]))
    BY <2>2 DEF Planned, Readable
  <2>7. \A q \in Procs : pc'[q] # "idle" => q \in alone' /\ Planned(doc[q])'
    BY <1>1, <2>1, <2>4, <2>5, <2>6
  <2>8. Apart'
    BY <1>1, <1>3, <2>2, <2>3, <2>7 DEF Apart
  <2> QED
    BY <1>1, <2>2, <2>8 DEF Seen
<1> QED
  BY <1>2, <1>3

\* The rename is the registry's step.
LEMMA RenameApart ==
  ASSUME CInv, Apart, NEW p \in Procs, Rename(p)
  PROVE  Apart' /\ [Registry!Next]_(Registry!vars)
<1>1. before' = before /\ pc[p] = "rename"
  BY DEF Rename
<1>2. CASE before # Absent
  BY <1>1, <1>2 DEF Apart, Seen, Registry!vars
<1>3. CASE before = Absent
  <2> DEFINE n == doc[p].version
  <2>1. /\ met = {} /\ p \in alone /\ Planned(doc[p])
        /\ \A q \in Procs : pc[q] # "idle" => q = p
    BY <1>1, <1>3, OthersIdle DEF Apart, CInv
  <2>2. /\ doc[p] \in Doc /\ tmp \in Inodes /\ tmp # Absent /\ content[tmp] = doc[p]
        /\ n \in Versions /\ n \in Nat
    BY <1>1, <2>1, DocFields, CommitAssumption DEF CInv, TypeOK, LoneTmp, OwnTmp, AtTmp
  <2>3. /\ manifest' = tmp /\ content' = content /\ met' = {}
        /\ published' = [published EXCEPT ![n] = doc[p]]
    BY <2>1, <2>2 DEF Rename
  <2>4. Readable' /\ Shown' = doc[p]
    BY <2>2, <2>3 DEF Readable, Shown, Current
  <2>5. \A q \in Procs : pc'[q] = "idle"
    BY <1>1, <2>1 DEF Rename, Goto, CInv, TypeOK
  <2>6. /\ n = Shown.version + 1 /\ Shown.version \in Nat
        /\ Registry!EachOnce(doc[p].layers)
        /\ Registry!Create \/ \E l \in Layers : Registry!Register(l)
    <3>1. Seen = Shown /\ Seen' = doc[p] /\ Registry!EachOnce(Shown.layers)
      BY <1>1, <1>3, <2>4 DEF Seen, Apart
    <3>2. CASE manifest = Absent /\ doc[p] = FirstDoc
      <4>1. Shown.version = 0 /\ Shown.layers = <<>> /\ n = 1 /\ doc[p].layers = <<>>
        BY <3>2 DEF Shown, Readable, NoDoc, FirstDoc
      <4>2. Registry!EachOnce(doc[p].layers)
        BY <3>1, <4>1
      <4>3. Registry!Create
        BY <3>1, <4>1 DEF Registry!Create
      <4> QED
        BY <4>1, <4>2, <4>3
    <3>3. CASE Readable /\ \E l \in Layers : doc[p] = WithLayer(Current, l)
      <4>1. Current \in Doc /\ Shown = Current
        BY <3>3 DEF Readable, Shown
      <4>2. PICK l \in Layers : doc[p] = WithLayer(Current, l)
        BY <3>3
      <4>3. /\ n = Current.version + 1
            /\ Registry!Names(doc[p].layers) = Registry!Names(Current.layers) \cup {l}
            /\ Registry!EachOnce(doc[p].layers) /\ doc[p].layers[Len(doc[p].layers)] = l
            /\ \A a, b \in Registry!Names(Current.layers) \ {l} :
                 Registry!Before(Current.layers, a, b) => Registry!Before(doc[p].layers, a, b)
        <5>1. PICK c \in Doc : c = Current /\ Registry!EachOnce(c.layers)
          BY <3>1, <4>1
        <5>2. /\ WithLayer(c, l).version = c.version + 1
              /\ Registry!Names(WithLayer(c, l).layers) = Registry!Names(c.layers) \cup {l}
              /\ Registry!EachOnce(WithLayer(c, l).layers)
              /\ WithLayer(c, l).layers[Len(WithLayer(c, l).layers)] = l
              /\ \A a, b \in Registry!Names(c.layers) \ {l} :
                   Registry!Before(c.layers, a, b) => Registry!Before(WithLayer(c, l).layers, a, b)
          BY <5>1, WithLayerFacts
        <5>3. doc[p] = WithLayer(c, l)
          BY <4>2, <5>1
        <5> QED
          BY <5>1, <5>2, <5>3
      <4>4. Current.version > 0 /\ Current.version \in Nat
        BY <4>1, DocFields
      <4>5. Registry!Register(l)
        BY <3>1, <4>1, <4>3, <4>4 DEF Registry!Register
      <4> QED
        BY <4>1, <4>3, <4>4, <4>5
    <3> QED
      BY <2>1, <3>2, <3>3 DEF Planned
  <2>7. ASSUME NEW v \in 1 .. n  PROVE  published'[v] # Absent
    <3>1. v \in Versions /\ published \in [Versions -> Doc \cup {Absent}]
      BY <2>2, CommitAssumption DEF Versions, CInv, TypeOK
    <3>2. v # n => published[v] # Absent
      BY <1>3, <2>2, <2>6 DEF Apart
    <3>3. doc[p] # Absent
      BY <2>2, DocFields
    <3> HIDE DEF n
    <3> QED
      BY <2>3, <3>1, <3>2, <3>3
  <2>8. Apart'
    BY <2>3, <2>4, <2>5, <2>6, <2>7 DEF Apart
  <2> QED
    BY <2>6, <2>8 DEF Registry!Next
<1> QED
  BY <1>2, <1>3
-----------------------------------------------------------------------------
LEMMA InitKInv == ASSUME Init PROVE KInv /\ Registry!Init
<1>1. Shown = NoDoc /\ Seen = NoDoc
  BY DEF Init, Shown, Readable, Seen
<1>2. NoDoc.version = 0 /\ NoDoc.layers = <<>> /\ Len(<<>>) = 0
  BY DEF NoDoc
<1>3. Registry!EachOnce(Shown.layers) /\ Registry!Init
  BY <1>1, <1>2 DEF Registry!EachOnce, Registry!Init
<1>4. Apart
  BY <1>1, <1>2, <1>3 DEF Init, Apart
<1> QED
  BY <1>3, <1>4, InitCInv DEF KInv

LEMMA StepKInv ==
  ASSUME KInv, [Next]_vars
  PROVE  KInv' /\ [Registry!Next]_(Registry!vars)
<1>1. CInv'
  BY StepCInv DEF KInv
<1>2. Apart' /\ [Registry!Next]_(Registry!vars)
  <2>1. CASE UNCHANGED vars
    BY <2>1 DEF vars, KInv, Apart, Planned, Shown, Seen, Readable, Current, Registry!vars
  <2>2. ASSUME NEW p \in Procs, BeginCreate(p) \/ \E l \in Layers : BeginRegister(p, l)
        PROVE  Apart' /\ UNCHANGED Seen
    BY <2>2, BeginPlanned, BeginApart DEF KInv
  <2>3. ASSUME NEW p \in Procs,
               OpenSnap(p) \/ WriteSnap(p) \/ OpenTmp(p) \/ WriteTmp(p) \/ Crash(p)
        PROVE  Apart' /\ UNCHANGED Seen
    BY <2>3, StepApart DEF KInv
  <2>4. ASSUME NEW p \in Procs, Rename(p)
        PROVE  Apart' /\ [Registry!Next]_(Registry!vars)
    BY <2>4, RenameApart DEF KInv
  <2>5. UNCHANGED Seen => UNCHANGED Registry!vars
    BY DEF Registry!vars
  <2> QED
    BY <2>1, <2>2, <2>3, <2>4, <2>5 DEF Next, Quiet
<1> QED
  BY <1>1, <1>2 DEF KInv

LEMMA CommitInductive == Spec => []KInv
<1>1. Init => KInv
  BY InitKInv
<1>2. KInv /\ [Next]_vars => KInv'
  BY StepKInv
<1> QED
  BY <1>1, <1>2, PTL DEF Spec

\* commit_manifest keeps its state well typed, however commits overlap: every version
\* is within the bound and every file a document, empty or torn.
THEOREM CommitTypeCorrect == Spec => []TypeOK
<1>1. KInv => TypeOK
  BY DEF KInv, CInv
<1> QED
  BY <1>1, CommitInductive, PTL

\* Whichever process died where, and whichever commits overlap, manifest.json is a
\* complete document, unless the very file it names was opened while another process
\* was between its own opening of .manifest.json.tmp and its rename.
THEOREM ManifestNeverTorn == Spec => []NeverTorn
<1>1. KInv => NeverTorn
  BY DEF KInv, CInv, TypeOK, Whole, NeverTorn, Current
<1> QED
  BY <1>1, CommitInductive, PTL

\* A layer whose registration returned Ok, and met no other commit, is in every later
\* manifest, also in those of commits that overlap.
THEOREM AckedLayersKept == Spec => []AckedKept
<1>1. KInv => AckedKept
  BY DEF KInv, CInv, GoesOn, Last, AckedKept, Held
<1> QED
  BY <1>1, CommitInductive, PTL

\* What a lone commit published is in versions/ under its version for ever, also after
\* commits that overlap; no version is missing before the first overlap.
THEOREM SnapshotsRecordHistory == Spec => []SnapshotsAreHistory
<1>1. KInv => SnapshotsAreHistory
  BY DEF KInv, CInv, SnapsKept, Apart, SnapshotsAreHistory
<1> QED
  BY <1>1, CommitInductive, PTL

\* Until two commits overlap, what readers of manifest.json see is the registry: it is
\* created once, and from then on changes by whole registrations, one version each,
\* whoever dies at whichever step.
THEOREM CommitRefinesRegistry == Spec => RefinesRegistry
<1>1. Init => KInv /\ Registry!Init
  BY InitKInv
<1>2. KInv /\ [Next]_vars => KInv' /\ [Registry!Next]_(Registry!vars)
  BY StepKInv
<1> QED
  BY <1>1, <1>2, PTL DEF Spec, RefinesRegistry, Registry!Spec
=============================================================================
