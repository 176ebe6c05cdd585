SPECIFICATION FairSpec
CONSTANTS
  d1 = d1
  d2 = d2
  d3 = d3
  Attachments <- MCAttachments
  Disks = {d1, d2, d3}
  n1 = n1
  n2 = n2
  Names <- MCNames
  Unpartitioned = {d3}
  CommandLines <- MCCommandLines
  MaxMoves = 3
  MaxFaults = 1
  NoDisk = NoDisk
INVARIANTS
    ParametersDecided
    DisksApart
    RunIsPrepared
PROPERTIES
    DiskIsTaken
