SPECIFICATION USpec
CONSTANTS
  Layouts <- OneVolume
  Numbers <- MCNumbers
INVARIANT UnallocatedCollected
