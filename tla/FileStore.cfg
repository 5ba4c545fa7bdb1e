SPECIFICATION Spec
CONSTANTS
  Nodes = {"n1", "n2"}
  Us = "n1"
  Cwd <- MCCwd
  Files <- MCFiles
  Folders <- MCFolders
  s1 = s1
  s2 = s2
  Slots = {s1, s2}
  Owners <- MCOwners
  Bytes = {1}
  WriteCap = 1
  ReadCap = 2
  MaxLen <- MCMaxLen
SYMMETRY MCSymmetry
INVARIANTS WrittenIsStored ReadsWhatIsStored
PROPERTIES WalkSeesAll KeepsFlash
