\* Two uploads of three documents (one without text, one no parser takes), the first of
\* which may be deleted and uploaded again: two requests at once, retries, failures.
CONSTANTS
  User = {u1}
  Doc = {d1, d2, d3}
  Session = {s1, s2}
  Chunk = {c1}
  Blank = {d2}
  Unparsable = {d3}
  Deletable = {d1}
  MaxRows = 2
  MaxTasks = 2
  MaxFaults = 1
  None = None
SPECIFICATION FairSpec
INVARIANTS CompletedIsSearchable ProcessingHasTask Inv
 
