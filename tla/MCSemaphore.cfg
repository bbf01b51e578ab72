SPECIFICATION Spec
CONSTANTS
  t1 = t1
  t2 = t2
  t3 = t3
  Threads <- MCThreads
  EntryCount = 1
  MaxLeaves = 4
INVARIANTS
  NoIdleEntry
  WaitersAreQueued
  EntriesConserved
PROPERTIES
  FirstComeFirstServed
  HandedEntryIsTaken
  ImplementsCounting
CHECK_DEADLOCK FALSE
