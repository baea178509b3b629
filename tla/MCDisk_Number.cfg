SPECIFICATION USpec
CONSTANTS
  Layouts <- TwoVolumes
  Numbers <- FirstNumber
INVARIANT NumberSelectsPartition
