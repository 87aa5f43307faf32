\* Three events, forwarded or shown; room for two results, two events, one in a stream.
SPECIFICATION Spec
CONSTANTS
  page = page
  MaxEvents = 3
  ResultsCap = 2
  Sessions <- MCSessions
  Posts <- MCPosts
  Pages = {page}
  Capacity = 2
  StreamCap = 1
  MaxFetches = 2
INVARIANTS
  TypeOK
  ResultsInOrder
  PagesMissNothing
PROPERTIES
  ResultsArePrinted
  LoopComesBack
CHECK_DEADLOCK FALSE
