SPECIFICATION Spec
CONSTANTS
  None = None
  Session = {s1, s2}
  Document <- MCDocument
  Feeds <- MCFeeds
  Similarity <- MCSimilarity
  Customers <- MCRecords
  Tickets <- MCRecords
  Incidents <- MCRecords
  Request <- MCRequest
  SearchTopK = 2
  ContextTopK = 2
SYMMETRY MCSymmetry
INVARIANTS
  StoreInv
  OnlyTailsAreStale
  SearchFindsDocuments
  AnswersStayInTenant
PROPERTIES
  ImplementsVectorStore
CHECK_DEADLOCK FALSE
