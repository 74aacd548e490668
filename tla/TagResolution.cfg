SPECIFICATION FairSpec
CONSTANTS
  Parts = {"a", "b", "k"}
  Empty = ""
  Categories = {"a", "k"}
  Names <- SlashNames
  Entries <- AllEntries
  MaxTags = 2
  MaxIDs = 2
  MaxChanges = 2
  MaxFaults = 1
INVARIANTS
  TypeOK
  OnlyAsked
  EachAttached
  AllOrNone
  Unambiguous
PROPERTY
  EventuallyAttached
