--------------------------- MODULE ManifestCommit ---------------------------
(***************************************************************************)
(* commit_manifest and its callers: DatasetWriter::close publishes version *)
(* 1, LayerWriter::register and LayerWriter::commit load the manifest, put *)
(* one layer in it, bump the version and commit.  The commit is a snapshot *)
(* versions/v<N>.json, then .manifest.json.tmp, then a rename.             *)
(*                                                                         *)
(* fs::write is two steps, open-with-truncate and write, and a process may *)
(* die between any two or part way through a write.  No lock is taken:     *)
(* processes commit whenever they like.  The temporary file has one fixed  *)
(* name, so the model keeps inodes apart from names: a file opened before  *)
(* a rename is still the file its holder writes to.  What a power failure  *)
(* may reorder (no step calls fsync) is outside the model.                 *)
(*                                                                         *)
(* The history variables alone, met and before say which commits overlap.  *)
(* No guard and no file depends on them.                                   *)
(***************************************************************************)
EXTENDS Naturals, Sequences

CONSTANTS
  Procs,        \* processes that commit to the dataset
  Layers,       \* layer names
  Inodes,       \* bound: files named .manifest.json.tmp ever created
  MaxVersion,   \* bound: versions published
  MaxCrashes,   \* bound: processes that die inside a commit
  Empty,        \* the content of a file just created or truncated
  Torn,         \* the content of a file that holds part of a document, or of two
  Absent        \* no such file

ASSUME CommitAssumption ==
  /\ MaxVersion \in Nat \ {0} /\ MaxCrashes \in Nat
  /\ Absent \notin Inodes
  /\ Empty # Torn /\ Empty # Absent /\ Torn # Absent

\* What the properties tell apart in a manifest.
Doc == [version : 1 .. MaxVersion, layers : Seq(Layers)]
NoDoc == [version |-> 0, layers |-> <<>>]   \* what there is before the first

ASSUME NotADocument == Empty \notin Doc /\ Torn \notin Doc /\ Absent \notin Doc \cup {NoDoc}

VARIABLES
  manifest,   \* inode of manifest.json, or Absent
  tmp,        \* inode of .manifest.json.tmp, or Absent
  content,    \* inode -> what the file holds
  snaps,      \* versions/v<N>.json
  pc,         \* per process, where it is in commit_manifest
  doc,        \* per process, the manifest it is committing; FirstDoc when it is not
  fd,         \* per process, the inode fs::write(&tmp) has open
  alone,      \* history: the processes whose commit no other has overlapped yet
  published,  \* history: version -> the manifest a lone commit made it, or Absent
  acked,      \* history: the layers whose registration returned Ok, alone
  met,        \* history: inodes opened while another process was at the temporary file
  before,     \* history: what readers saw when two commits first overlapped, or Absent
  crashes     \* history, bounded by MaxCrashes

disk == <<manifest, tmp, content, snaps>>
hist == <<alone, published, acked, met, before, crashes>>
vars == <<manifest, tmp, content, snaps, pc, doc, fd,
          alone, published, acked, met, before, crashes>>

Versions == 1 .. MaxVersion
Steps == {"idle", "snap", "snapping", "tmp", "writing", "rename"}

FirstDocFromZero == [version |-> 0, layers |-> <<>>]   \* slip: versions count from 0

FirstDoc == [version |-> 1, layers |-> <<>>]

Init ==
  /\ manifest = Absent /\ tmp = Absent
  /\ content = [i \in Inodes |-> Empty]
  /\ snaps = [v \in Versions |-> Absent]
  /\ pc = [p \in Procs |-> "idle"]
  /\ doc = [p \in Procs |-> FirstDoc]
  /\ fd = [p \in Procs |-> Absent]
  /\ published = [v \in Versions |-> Absent]
  /\ alone = {} /\ acked = {} /\ met = {} /\ before = Absent /\ crashes = 0

Goto(p, s) == pc' = [pc EXCEPT ![p] = s]

Current == content[manifest]
Readable == manifest # Absent /\ Current \in Doc   \* Manifest::load succeeds
Shown == IF Readable THEN Current ELSE NoDoc

\* A commit of d gets under way; one that meets another is not alone, nor is the other.
Begin(p, d) ==
  /\ pc[p] = "idle"
  /\ doc' = [doc EXCEPT ![p] = d]
  /\ Goto(p, "snap")
  /\ IF \A q \in Procs : pc[q] = "idle"
     THEN alone' = {p} /\ before' = before
     ELSE alone' = {} /\ before' = IF before = Absent THEN Shown ELSE before
  /\ UNCHANGED <<disk, fd, published, acked, met, crashes>>
-----------------------------------------------------------------------------
(* Callers.                                                                  *)

\* retain(name != l): WithLayer keeps every name in the list at most once.
Without(s, l) ==
  IF \A k \in 1 .. Len(s) : s[k] # l THEN s
  ELSE LET at == CHOOSE k \in 1 .. Len(s) : s[k] = l
       IN [k \in 1 .. Len(s) - 1 |-> IF k < at THEN s[k] ELSE s[k + 1]]

WithLayerAlone(d, l) ==   \* slip: the loaded manifest's other layers are dropped
  [version |-> d.version + 1, layers |-> <<l>>]

WithLayerSameVersion(d, l) ==   \* slip: version += 1 forgotten
  [d EXCEPT !.layers = Append(Without(@, l), l)]

\* manifest.layers.retain(name != l); push(l); version += 1
WithLayer(d, l) ==
  [version |-> d.version + 1,
   layers |-> Append(Without(d.layers, l), l)]

\* DatasetWriter::close on a root that has no manifest yet.
BeginCreate(p) ==
  /\ manifest = Absent
  /\ Begin(p, FirstDoc)

\* Manifest::load, then the layer is put in.  A torn manifest is a parse error:
\* the caller gets Err and nothing changes.
BeginRegister(p, l) ==
  /\ Readable
  /\ Current.version < MaxVersion
  /\ Begin(p, WithLayer(Current, l))
-----------------------------------------------------------------------------
(* commit_manifest.                                                          *)

SnapNameBehind(d) ==   \* slip: the snapshot is named after the loaded version
  IF d.version = 1 THEN 1 ELSE d.version - 1

SnapName(d) == d.version

\* What a write of d leaves in a file that holds c: over what another process wrote
\* meanwhile, the tail of something longer stays.
Written(c, d) == IF c = Empty THEN {d} ELSE {d, Torn}

OpenSnap(p) ==
  /\ pc[p] = "snap"
  /\ snaps' = [snaps EXCEPT ![SnapName(doc[p])] = Empty]
  /\ Goto(p, "snapping")
  /\ UNCHANGED <<manifest, tmp, content, doc, fd, hist>>

WriteSnap(p) ==
  /\ pc[p] = "snapping"
  /\ \E c \in Written(snaps[SnapName(doc[p])], doc[p]) :
       snaps' = [snaps EXCEPT ![SnapName(doc[p])] = c]
  /\ Goto(p, "tmp")
  /\ UNCHANGED <<manifest, tmp, content, doc, fd, hist>>

\* an inode no name and no process refers to
Unused(i) == i # manifest /\ i # tmp /\ \A q \in Procs : fd[q] # i

OpenedInPlace(i) ==   \* slip: manifest.json is written directly
  IF manifest # Absent THEN i = manifest ELSE Unused(i)

\* the file that fs::write(&tmp) opens: the one left there, or a new one
Opened(i) == IF tmp # Absent THEN i = tmp ELSE Unused(i)

\* The processes between the opening of the temporary file and the rename.
AtTmp == {q \in Procs : pc[q] \in {"writing", "rename"}}

OpenTmp(p) ==
  /\ pc[p] = "tmp"
  /\ \E i \in Inodes :
       /\ Opened(i)
       /\ tmp' = i
       /\ fd' = [fd EXCEPT ![p] = i]
       /\ content' = [content EXCEPT ![i] = Empty]
       /\ met' = IF AtTmp = {} THEN met \ {i} ELSE met \cup {i}
  /\ Goto(p, "writing")
  /\ UNCHANGED <<manifest, snaps, doc, alone, published, acked, before, crashes>>

WriteTmp(p) ==
  /\ pc[p] = "writing"
  /\ \E c \in Written(content[fd[p]], doc[p]) : content' = [content EXCEPT ![fd[p]] = c]
  /\ fd' = [fd EXCEPT ![p] = Absent]
  /\ Goto(p, "rename")
  /\ UNCHANGED <<manifest, tmp, snaps, doc, hist>>

Registered(d) == IF d.layers = <<>> THEN {} ELSE {d.layers[Len(d.layers)]}

\* The rename publishes whatever file has the name; ENOENT, an Err, if another
\* process renamed it away.
Rename(p) ==
  /\ pc[p] = "rename"
  /\ IF tmp = Absent THEN UNCHANGED <<manifest, tmp, published, acked>>
     ELSE /\ manifest' = tmp /\ tmp' = Absent
          /\ IF p \in alone
             THEN /\ published' = [published EXCEPT ![doc[p].version] = content[tmp]]
                  /\ acked' = acked \cup Registered(doc[p])
             ELSE UNCHANGED <<published, acked>>
  /\ alone' = alone \ {p}
  /\ doc' = [doc EXCEPT ![p] = FirstDoc]
  /\ Goto(p, "idle")
  /\ UNCHANGED <<content, snaps, fd, met, before, crashes>>

\* The process dies, perhaps part way through a write.
Crash(p) ==
  /\ pc[p] # "idle"
  /\ crashes < MaxCrashes
  /\ crashes' = crashes + 1
  /\ \/ UNCHANGED <<content, snaps>>
     \/ pc[p] = "snapping" /\ snaps' = [snaps EXCEPT ![SnapName(doc[p])] = Torn] /\ UNCHANGED content
     \/ pc[p] = "writing" /\ content' = [content EXCEPT ![fd[p]] = Torn] /\ UNCHANGED snaps
  /\ fd' = [fd EXCEPT ![p] = Absent]
  /\ alone' = alone \ {p}
  /\ doc' = [doc EXCEPT ![p] = FirstDoc]
  /\ Goto(p, "idle")
  /\ UNCHANGED <<manifest, tmp, published, acked, met, before>>

\* Nobody is committing, and nobody need ever again.
Quiet == /\ \A p \in Procs : pc[p] = "idle"
         /\ UNCHANGED vars

Next ==
  \/ Quiet
  \/ \E p \in Procs :
       \/ BeginCreate(p) \/ \E l \in Layers : BeginRegister(p, l)
       \/ OpenSnap(p) \/ WriteSnap(p) \/ OpenTmp(p) \/ WriteTmp(p)
       \/ Rename(p) \/ Crash(p)

Spec == Init /\ [][Next]_vars
-----------------------------------------------------------------------------
TypeOK ==
  /\ manifest \in Inodes \cup {Absent}
  /\ tmp \in Inodes \cup {Absent}
  /\ content \in [Inodes -> Doc \cup {Empty, Torn}]
  /\ snaps \in [Versions -> Doc \cup {Empty, Torn, Absent}]
  /\ pc \in [Procs -> Steps]
  /\ doc \in [Procs -> Doc]
  /\ fd \in [Procs -> Inodes \cup {Absent}]
  /\ alone \subseteq Procs
  /\ published \in [Versions -> Doc \cup {Absent}]
  /\ acked \subseteq Layers
  /\ met \subseteq Inodes
  /\ before \in Doc \cup {NoDoc, Absent}
  /\ crashes \in Nat

\* commit_manifest's promise: whenever a reader opens manifest.json, whichever
\* process died where, it is a complete document.  Commits may overlap; only a file
\* that was opened while another process was between its own opening of the
\* temporary file and its rename may be published torn.
NeverTorn == manifest # Absent /\ manifest \notin met => Current \in Doc

\* A layer whose registration returned Ok, and met no other commit, is in the manifest
\* from then on, however later commits overlap and die.
AckedKept ==
  Readable => \A l \in acked : \E k \in 1 .. Len(Current.layers) : Current.layers[k] = l

\* versions/ is the history of manifest.json: the snapshot of a version that a lone
\* commit published is that manifest for ever, whichever commits overlap or die
\* between their snapshot and their rename afterwards; and no version is missing
\* before the first overlap.
SnapshotsAreHistory ==
  /\ \A v \in Versions : published[v] # Absent => snaps[v] = published[v]
  /\ before = Absent => \A v \in 1 .. Shown.version : published[v] # Absent

\* Until two commits overlap the manifest implements the abstract registry; from
\* then on the mapping stands still.
Seen == IF before = Absent THEN Shown ELSE before
Registry == INSTANCE ManifestRegistry WITH version <- Seen.version, layers <- Seen.layers
RefinesRegistry == Registry!Spec
=============================================================================
