------------------------------- MODULE MCTab --------------------------------
(* The parts of a tab that have modules of their own and share no state:   *)
(* the page with its list, the activity feed, the wallet session with its  *)
(* notifications.  In a behaviour one of them goes on and the others rest, *)
(* for their interleavings tell nothing new.                               *)
EXTENDS Pages, Feed, Session

VARIABLE part

tabVars == <<part, pagesVars, feedVars, sessionVars>>

MCTabInit ==
    /\ PagesInit /\ FeedInit /\ SessionInit
    /\ part \in {"pages", "feed", "session"}
    /\ part # "pages" => family = "payment" /\ role \in [Ids -> {"owner"}]
    /\ part # "session" => account = "GALICE" /\ network = AppNetwork

MCTabNext ==
    /\ UNCHANGED part
    /\ \/ part = "pages" /\ PagesNext /\ UNCHANGED <<feedVars, sessionVars>>
       \/ part = "feed" /\ FeedNext /\ UNCHANGED <<pagesVars, sessionVars>>
       \/ part = "session" /\ SessionNext /\ UNCHANGED <<pagesVars, feedVars>>

\* The fairness of FeedSpec and of SessionSpec, for the part that goes on.
MCTabFairness ==
    /\ WF_feedVars(part = "feed" /\ Mount) /\ WF_feedVars(part = "feed" /\ OnOpen)
    /\ WF_feedVars(part = "feed" /\ OnFrame) /\ WF_feedVars(part = "feed" /\ Reconnect)
    /\ WF_feedVars(part = "feed" /\ Accept) /\ WF_feedVars(part = "feed" /\ ReadReplay)
    /\ WF_feedVars(part = "feed" /\ WriteReplay) /\ WF_feedVars(part = "feed" /\ ReadHistory)
    /\ WF_feedVars(part = "feed" /\ ShowHistory)
    /\ \A id \in 1..(2 * MaxAttempts) : WF_sessionVars(part = "session" /\ Timer(id))

MCTabSpec == MCTabInit /\ [][MCTabNext]_tabVars /\ MCTabFairness
=============================================================================
