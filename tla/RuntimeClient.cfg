SPECIFICATION Spec
CONSTANTS
  Parts = {"gate", "conversations", "ask", "listen", "home", "intents", "origin"}
  Calls = {c1, c2}
  NoCall = NoCall
  Ids = {a, b, c, Blank}
  Blank = Blank
  Carried = {x, y}
  MaxRemembered = 2
  MaxAliases = 2
  MaxTurns = 5
  Asks = {a1, a2}
  Queries = {q}
  Sends = {s}
  NoId = NoId
  ReplyCapacity = 2
  MaxReplies = 3
  MaxMade = 2
  StreamCapacity = 1
  MaxWanted = 2
  MaxHeard = 3
  HomeRequestIds = {h}
  NoTag = NoTag
  DescribeBatch = 2
  MaxCopies = 2
  Connects = {o1, o2}
  Cooldown = 2
  MaxTime = 3
CHECK_DEADLOCK FALSE
INVARIANTS TypeOK ClientTruth NeverWorse
PROPERTIES BlamedForTheirOwn RemembersConversations AskHeardRight HomeAnswersStand
