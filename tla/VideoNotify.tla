----------------------------- MODULE VideoNotify -----------------------------
(***************************************************************************)
(* assignment-1/part-3: youtubeser.py, user.py and youtuber.py around a    *)
(* message broker.                                                         *)
(*                                                                         *)
(* Each queue of the broker is first in, first out; a message to a queue   *)
(* that was never declared is dropped.  Consumers acknowledge on delivery: *)
(* when one ends, what was delivered to it and not yet handled, any number *)
(* of messages from the front of its queue, is gone.  The subscriptions    *)
(* are in the memory of the server alone.                                  *)
(***************************************************************************)
EXTENDS Integers, Sequences, FiniteSets, SequencesExt

CONSTANTS
  User, Youtuber,
  MaxVideos    \* bound: videos published

ASSUME VideoAssumption == MaxVideos \in Nat

VARIABLES
  subscriptions,      \* YouTubeServer: [User -> SUBSET Youtuber]
  server,             \* "up" or "down"
  user_requests, youtuber_requests,   \* the queues of the server
  mailbox,            \* [User -> Seq(video)]: the queue of a user
  declared,           \* the users whose queue exists
  session,            \* [User -> {"out", "starting", "in"}]: the process user.py
  videos,             \* history: [1.. -> Youtuber]: whose the videos published are
  asked,              \* history: [User -> [Youtuber -> BOOLEAN]]: the last request
  seen,               \* history: [User -> Seq(video)]: the notifications printed
  restarted           \* history: the server went down once

broker == <<user_requests, youtuber_requests, mailbox, declared>>
videovars == <<subscriptions, server, broker, session, videos, asked, seen, restarted>>

VideoInit ==
  /\ subscriptions = [u \in User |-> {}]
  /\ server = "up" /\ restarted = FALSE
  /\ user_requests = <<>> /\ youtuber_requests = <<>>
  /\ mailbox = [u \in User |-> <<>>] /\ declared = {}
  /\ session = [u \in User |-> "out"]
  /\ videos = <<>>
  /\ asked = [u \in User |-> [y \in Youtuber |-> FALSE]]
  /\ seen = [u \in User |-> <<>>]

-----------------------------------------------------------------------------
(***************************************************************************)
(* user.py and youtuber.py                                                 *)
(***************************************************************************)
\* update_subscription: the request is published before the user's own queue is declared.
StartUser(u, y, subscribe) ==
  /\ session[u] = "out"
  /\ session' = [session EXCEPT ![u] = "starting"]
  /\ user_requests' = Append(user_requests, [user |-> u, youtuber |-> y, subscribe |-> subscribe])
  /\ asked' = [asked EXCEPT ![u][y] = subscribe]
  /\ UNCHANGED <<subscriptions, server, youtuber_requests, mailbox, declared, videos, seen, restarted>>

\* start_receiving_notifications, at once when the user has no request
LogIn(u) ==
  /\ session[u] \in {"out", "starting"}
  /\ session' = [session EXCEPT ![u] = "in"]
  /\ declared' = declared \cup {u}
  /\ UNCHANGED <<subscriptions, server, user_requests, youtuber_requests, mailbox, videos, asked,
                 seen, restarted>>

ReceiveNotification(u) ==
  /\ session[u] = "in" /\ mailbox[u] # <<>>
  /\ seen' = [seen EXCEPT ![u] = Append(@, Head(mailbox[u]))]
  /\ mailbox' = [mailbox EXCEPT ![u] = Tail(@)]
  /\ UNCHANGED <<subscriptions, server, user_requests, youtuber_requests, declared, session, videos,
                 asked, restarted>>

\* What is left of a queue when its consumer ends
Leftover(queue) == {SubSeq(queue, n, Len(queue)) : n \in 1..Len(queue) + 1}

LogOut(u) ==
  /\ session[u] = "in"
  /\ session' = [session EXCEPT ![u] = "out"]
  /\ \E rest \in Leftover(mailbox[u]) : mailbox' = [mailbox EXCEPT ![u] = rest]
  /\ UNCHANGED <<subscriptions, server, user_requests, youtuber_requests, declared, videos, asked,
                 seen, restarted>>

\* publish_video
PublishVideo(y) ==
  /\ Len(videos) < MaxVideos
  /\ videos' = Append(videos, y)
  /\ youtuber_requests' = Append(youtuber_requests, [youtuber |-> y, nr |-> Len(videos')])
  /\ UNCHANGED <<subscriptions, server, user_requests, mailbox, declared, session, asked, seen,
                 restarted>>

-----------------------------------------------------------------------------
(***************************************************************************)
(* youtubeser.py: one callback at a time; the two queues in any order      *)
(***************************************************************************)
\* Mistaken variant: an unsubscription forgets everything the user follows.
Subscribed_Dropped(following, m) ==
  IF m.subscribe THEN following \cup {m.youtuber} ELSE {}

Subscribed(following, m) ==
  IF m.subscribe THEN following \cup {m.youtuber} ELSE following \ {m.youtuber}

ConsumeUserRequest ==
  /\ server = "up" /\ user_requests # <<>>
  /\ LET m == Head(user_requests)
     IN  subscriptions' = [subscriptions EXCEPT ![m.user] = Subscribed(@, m)]
  /\ user_requests' = Tail(user_requests)
  /\ UNCHANGED <<server, youtuber_requests, mailbox, declared, session, videos, asked, seen, restarted>>

\* Mistaken variant: the newest notification is the first to be delivered.
Delivered_First(queue, video) == <<video>> \o queue

\* Mistaken variant: a user has one notification waiting, no more.
Delivered_One(queue, video) == IF queue = <<>> THEN <<video>> ELSE queue

Delivered(queue, video) == Append(queue, video)

ConsumeYoutuberRequest ==
  /\ server = "up" /\ youtuber_requests # <<>>
  /\ LET video == Head(youtuber_requests)
     IN  mailbox' = [u \in User |->
           IF video.youtuber \in subscriptions[u] /\ u \in declared
           THEN Delivered(mailbox[u], video) ELSE mailbox[u]]
  /\ youtuber_requests' = Tail(youtuber_requests)
  /\ UNCHANGED <<subscriptions, server, user_requests, declared, session, videos, asked, seen,
                 restarted>>

ServerDies ==
  /\ server = "up"
  /\ server' = "down"
  /\ restarted' = TRUE
  /\ subscriptions' = [u \in User |-> {}]
  /\ user_requests' \in Leftover(user_requests)
  /\ youtuber_requests' \in Leftover(youtuber_requests)
  /\ UNCHANGED <<mailbox, declared, session, videos, asked, seen>>

ServerStarts ==
  /\ server = "down"
  /\ server' = "up"
  /\ UNCHANGED <<subscriptions, broker, session, videos, asked, seen, restarted>>

VideoDelivers ==
  ConsumeUserRequest \/ ConsumeYoutuberRequest \/ \E u \in User : ReceiveNotification(u)

\* Anyone does anything the programs allow, any number of times.
VideoNext ==
  \/ VideoDelivers \/ ServerDies \/ ServerStarts
  \/ \E u \in User : LogIn(u) \/ LogOut(u)
  \/ \E u \in User, y \in Youtuber, subscribe \in BOOLEAN : StartUser(u, y, subscribe)
  \/ \E y \in Youtuber : PublishVideo(y)

VideoSpec == VideoInit /\ [][VideoNext]_videovars

\* What is delivered is handled: by a server that is up, by a user that is logged in.
VideoFairness == WF_videovars(VideoDelivers)

-----------------------------------------------------------------------------
(***************************************************************************)
(* Properties                                                              *)
(***************************************************************************)
\* A user sees the videos in the order they were published, each once, whatever restarts
\* in between.
SeenInOrder ==
  \A u \in User :
    LET shownOrWaiting == seen[u] \o mailbox[u]
    IN  \A i, j \in DOMAIN shownOrWaiting : i < j => shownOrWaiting[i].nr < shownOrWaiting[j].nr

\* When no request waits, and the server did not go down, a user follows whom it last
\* asked to follow.
FollowsAsAsked ==
  ~restarted /\ user_requests = <<>> =>
    \A u \in User : subscriptions[u] = {y \in Youtuber : asked[u][y]}

\* While u is logged in and follows the youtuber of video n
Settled(u, n) ==
  server = "up" /\ session[u] = "in" /\ n \in DOMAIN videos /\ videos[n] \in subscriptions[u]

Waits(n) == \E m \in Range(youtuber_requests) : m.nr = n
Saw(u, n) == \E m \in Range(seen[u]) : m.nr = n

\* A video published while a user is logged in and follows its youtuber is seen by that
\* user, unless it logs out or unsubscribes, or the server goes down.
FollowersSee ==
  \A u \in User, n \in 1..MaxVideos :
    (Waits(n) /\ Settled(u, n)) ~> (Saw(u, n) \/ ~Settled(u, n))
=============================================================================
