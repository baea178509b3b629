SPECIFICATION USpec
CONSTANTS
  Layouts <- MCLayouts
  Numbers <- MCNumbers
INVARIANTS
  TypeOK
  VolumesReadAtTheirBoot
  SelectedVolumesRead
  PanicsAreExplained
  BlocksAreRuns
  OneVolumeIsCollected
PROPERTY Termination
