--------------------------- MODULE MCAssignment1 ---------------------------
(***************************************************************************)
(* The three programs of assignment-1 for TLC, one at a time: a scenario   *)
(* says which commands each client of one of them gives, and how often     *)
(* what no command asks for may happen.                                    *)
(***************************************************************************)
EXTENDS Market, GroupChat, VideoNotify, TLC

CONSTANTS s1, s2, b1, b2, b3, g1, g2, c1, c2, u1, y1, y2

SellerSet   == {s1, s2}
BuyerSet    == {b1, b2, b3}
GroupSet    == {g1, g2}
MemberSet   == {c1, c2}
UserSet     == {u1}
YoutuberSet == {y1, y2}

VARIABLES
  plan,    \* [Shopper \cup Member -> Seq(set of commands)]
  events   \* how often each event may still happen (bounds)

mcvars == <<marketvars, chatvars, videovars, plan, events>>

-----------------------------------------------------------------------------
Idle == [c \in Shopper \cup Member |-> <<>>]
Quiet == [restart |-> 0, end |-> 0, hang |-> 0, group |-> 0, death |-> 0, tick |-> 0,
          start |-> 0, login |-> 0, logout |-> 0, crash |-> 0, video |-> 0]

Sell(n) == SellReq({n}, {"a"}, {2})
Update == UpdateReq({1}, {1})
Well(reqs) == {r \in reqs : ~r.badPrice}
In(g, ops) == [to: {g}, op: ops]

Scenarios == {
  \* Two buyers want what there is while the seller updates it.
  [plan |-> s1 :> <<Well(Sell("x")), Well(Update)>> @@ b1 :> <<BuyReq({1}, {1, 2})>>
              @@ b2 :> <<BuyReq({1}, {0, 2})>> @@ Idle,
   events |-> [Quiet EXCEPT !.end = 1]],
  \* Listings while items come, change and go
  [plan |-> s1 :> <<Well(Sell("x")), Well(Update) \cup DeleteReq({1})>>
              @@ s2 :> <<Well(Sell("x")), DisplayReq>> @@ b1 :> <<SearchReq({"x"}, {"a"})>> @@ Idle,
   events |-> Quiet],
  \* Wish lists, with a client that hangs, or is gone and comes back
  [plan |-> s1 :> <<Well(Sell("x")), Update \cup DeleteReq({1}), Well(Update)>>
              @@ b1 :> <<WishReq({0, 1})>> @@ b2 :> <<WishReq({1}), WishReq({1})>> @@ Idle,
   events |-> [Quiet EXCEPT !.restart = 1, !.end = 1, !.hang = 1]],
  \* Three ratings of one item, one of them wrong
  [plan |-> s1 :> <<Well(Sell("x"))>> @@ b1 :> <<RateReq({1}, {1, 2, 5}), RateReq({1}, {4})>>
              @@ b2 :> <<RateReq({1}, {1, 2, 5})>> @@ b3 :> <<RateReq({1}, {0, 1, 4})>> @@ Idle,
   events |-> Quiet],
  \* Two names, offered twice, and a seller that starts again
  [plan |-> s1 :> <<Sell("x"), Well(Sell("y")), Well(Sell("x")), DisplayReq \cup Well(Update)>>
              @@ s2 :> <<DeleteReq({1})>> @@ Idle,
   events |-> [Quiet EXCEPT !.restart = 1, !.end = 1]],
  \* Two members of a group, over midnight
  [plan |-> c1 :> <<{[to |-> "server"]}, In(g1, {"join"}), In(g1, {"send"}), In(g1, {"send"})>>
              @@ c2 :> <<In(g1, {"join"}) \cup In(g2, {"join"}), In(g1, {"get"}),
                         In(g1, {"send", "leave"}), In(g1, {"get"}) \cup In(g2, {"get"})>>
              @@ Idle,
   events |-> [Quiet EXCEPT !.group = 2, !.death = 1, !.tick = 3]],
  \* Followers of two youtubers, with a server that goes down
  [plan |-> Idle,
   events |-> [Quiet EXCEPT !.start = 2, !.login = 1, !.logout = 2, !.crash = 1, !.video = 2]]}

-----------------------------------------------------------------------------
Happens(e) == events[e] > 0 /\ events' = [events EXCEPT ![e] = @ - 1] /\ UNCHANGED plan
Goes_on == UNCHANGED <<plan, events>>

\* c gives its next command, r.
Gives(c, r) ==
  /\ plan[c] # <<>> /\ r \in Head(plan[c])
  /\ plan' = [plan EXCEPT ![c] = Tail(@)]
  /\ UNCHANGED events

MCMarketNext ==
  \/ Goes_on /\ MarketServes
  \/ \E c \in Shopper : plan[c] # <<>> /\ \E r \in Head(plan[c]) : Gives(c, r) /\ Command(c, r)
  \/ \E c \in Seller : plan[c] # <<>> /\ uuid[c] = 0 /\ Goes_on /\ StartSeller(c)
  \/ \E c \in Seller : uuid[c] > 0 /\ Happens("restart") /\ StartSeller(c)
  \/ \E c \in Buyer : Happens("restart") /\ StartBuyer(c)
  \/ \E c \in Shopper : Happens("end") /\ Goes(c)
  \/ \E c \in Shopper : Happens("hang") /\ Hangs(c)
  \/ Goes_on /\ \E c \in Shopper : Resumes(c)

Does(c, r) ==
  \/ r.to = "server" /\ GetList(c)
  \/ r.to # "server" /\ \/ r.op = "join" /\ JoinGroup(c, r.to)
                        \/ r.op = "leave" /\ LeaveGroup(c, r.to)
                        \/ r.op = "send" /\ SendMessage(c, r.to)
                        \/ r.op = "get" /\ GetMessages(c, r.to)

MCChatNext ==
  \/ Goes_on /\ ChatServes
  \/ \E c \in Member : plan[c] # <<>> /\ \E r \in Head(plan[c]) : Gives(c, r) /\ Does(c, r)
  \/ Happens("group") /\ \E g \in Group : StartGroup(g)
  \/ Happens("death") /\ \E g \in Group : GroupDies(g)
  \/ Happens("tick") /\ Tick

MCVideoNext ==
  \/ Goes_on /\ VideoDelivers
  \/ Goes_on /\ \E u \in User : session[u] = "starting" /\ LogIn(u)
  \/ Happens("login") /\ \E u \in User : session[u] = "out" /\ LogIn(u)
  \/ Happens("logout") /\ \E u \in User : LogOut(u)
  \/ Happens("start") /\ \E u \in User, y \in Youtuber, s \in BOOLEAN : StartUser(u, y, s)
  \/ Happens("video") /\ \E y \in Youtuber : PublishVideo(y)
  \/ Happens("crash") /\ ServerDies
  \/ Goes_on /\ ServerStarts

MCA1Init ==
  /\ MarketInit /\ ChatInit /\ VideoInit
  /\ \E s \in Scenarios : plan = s.plan /\ events = s.events

MCA1Next ==
  \/ MCMarketNext /\ UNCHANGED <<chatvars, videovars>>
  \/ MCChatNext /\ UNCHANGED <<marketvars, videovars>>
  \/ MCVideoNext /\ UNCHANGED <<marketvars, chatvars>>

MCA1Spec == MCA1Init /\ [][MCA1Next]_mcvars /\ MarketFairness /\ ChatFairness /\ VideoFairness
=============================================================================
