\* The market, the group chat and the video notifications, each over a few commands
SPECIFICATION MCA1Spec
CONSTANTS
  s1 = s1
  s2 = s2
  b1 = b1
  b2 = b2
  b3 = b3
  g1 = g1
  g2 = g2
  c1 = c1
  c2 = c2
  u1 = u1
  y1 = y1
  y2 = y2
  Seller <- SellerSet
  Buyer <- BuyerSet
  Group <- GroupSet
  Member <- MemberSet
  User <- UserSet
  Youtuber <- YoutuberSet
  NoOne = NoOne
  NoAnswer = NoAnswer
  MAX_WORKERS = 2
  SECONDS = 3
  MaxVideos = 2
\* The commands of a scenario come to an end.
CHECK_DEADLOCK FALSE
INVARIANTS
  MarketTypeOK
  OneOfAName
  NeverOversold
  NoStockAtOldPrice
  WishersCalled
  RatingDrift
  ChatTypeOK
  SeenInOrder
  FollowsAsAsked
PROPERTIES
  NothingMissed
  CallsEnd
  RequestsAnswered
  FollowersSee
