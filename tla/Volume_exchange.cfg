SPECIFICATION VolumeSpec
CONSTANTS
  Cards <- MCCards
  EntriesPerBlock = 2
  Fat12End = 3
  Fat16End = 6
  MaxShift = 3
  MaxRefused = 0
PROPERTIES
  FreshBeginSucceeds
