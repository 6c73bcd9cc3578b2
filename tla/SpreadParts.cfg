SPECIFICATION Spec
CONSTANTS
  Parts = {"session", "client", "flush", "events", "memory", "carr", "hash", "skl", "arr", "dll"}
  ClientProfiles <- MCProfiles
  PutFreely = FALSE
  Junk = junk
INVARIANTS
  
  
  FlushSound
  EventsSound
  MemorySound
  
  
  SequencesExact
CHECK_DEADLOCK FALSE
