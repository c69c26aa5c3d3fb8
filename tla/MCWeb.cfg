CONSTANTS
  Benches = {"http", "edge", "pages", "documents"}
  get = get
  post = post
  Tasks <- MCTasks
  Idempotent <- MCIdempotent
  MaxAttempts = 2
  MaxDelay = 1
  Timeout = 1
  Buffer = 2
  Lifetimes <- MCLifetimes
  MaxTime = 6
  Requests = {"r1", "r2"}
  Kids = {"k1", "k2"}
  Claims = {"ok", "odd"}
  RouteErrors = {"Forbidden", "ExpiredCursorError", "HTTPException"}
  Mapped <- MCMapped
  MaxRotations = 1
  Times = {0, 1, 2}
  Ids = {1, 2, 3, 4}
  PageSize = 2
  CursorLife = 1
  MaxSeconds = 2
  MaxWrites = 1
  Chars = {"~", "/", "1"}
  MaxPart = 2
  MaxItems = 2
SPECIFICATION MCSpec
CHECK_DEADLOCK FALSE
INVARIANT WebTypeOK
INVARIANT FirstAttemptAuthorized
INVARIANT ExecutedOnce
INVARIANT RefusalNeedsTwoFailures
INVARIANT StatusFitsError
INVARIANT WalksReachAll
 
 
PROPERTY LinksKeepTheirWord
