SPECIFICATION Spec
CONSTANTS
  Users = {u1, u2}
  Runs = {b1, b2}
  FirstRun = b1
  KeepDaily = 1
  MaxDay = 1
  MaxFaults = 1
  None = none
  NoRow = noRow
  Deploys = {d1, d2}
  Ups = {p1, p2}
  MaxRev = 3
  ShippedRev = 2
  matnA = matnA matnB = matnB matnC = matnC matnD = matnD
  Texts = {matnA, matnB, matnC, matnD}
  Editions <- MCEditions
  Translated = {matnB}
  ArchiveRows = {1, 2, 3}
  Archives <- MCArchives
  FoldOf <- MCFoldOf
  Alike <- MCAlike
  Near <- MCNear
  BatchSize = 1
  ChunkSize = 1
  MaxPasses = 2
  MaxPilots = 2
  MaxStops = 1
SYMMETRY HostSymmetry
CHECK_DEADLOCK FALSE
INVARIANTS HostTypeOK ProofIsBacked RestoreIsFaithful TreeIsMigrated BookIsSearchable NarrationsStayApart RerunConverges
PROPERTIES OnlyProvenTrees OnlyRefusedChainsGo
