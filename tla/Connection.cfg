SPECIFICATION FairSpec
CONSTANTS
    Endpoint = {"C", "S"}
    MaxPosts <- Posts
    MaxCalls <- Calls
    Ops <- Trouble
INVARIANTS TypeOK DispatchedInOrder AnswerIsToThisCall
  
CHECK_DEADLOCK FALSE
