\* Processes commit whenever they like and may die at every step.
SPECIFICATION Spec
CONSTANTS
  p1 = p1  p2 = p2
  emb = emb  tag = tag
  i1 = i1  i2 = i2  i3 = i3
  Empty = Empty
  Torn = Torn
  Absent = Absent
  Procs <- MCProcs
  Layers <- MCLayers
  Inodes <- MCInodes
  MaxVersion = 3
  MaxCrashes = 2
INVARIANTS
  TypeOK NeverTorn AckedKept SnapshotsAreHistory
SYMMETRY MCSymmetry
PROPERTY RefinesRegistry
