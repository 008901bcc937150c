------------------------------ MODULE SamMacLink ------------------------------
(***************************************************************************)
(* How the network comes up: the IP task in prvProcessNetworkDownEvent and *)
(* xSAMx5xMAC_Initialize, the maintenance task of the PHY (phy_generic.c   *)
(* or ksz9893.c), and xSAMx5xMAC_LinkStatusChanged, which carries the news *)
(* from one to the other.                                                  *)
(*                                                                         *)
(* The receiver's enable bit is in NCR, which the IP task writes too when  *)
(* it sends: GMAC->NCR.bit.X = v is a load and a store of the whole        *)
(* register, and a task that stores what it had loaded undoes what another *)
(* did in between.  The other bits of NCR have no part in this module.     *)
(*                                                                         *)
(* What the PHY answers is any value: a failed read leaves the variable    *)
(* as it was, or never set, and the answer is used all the same.           *)
(***************************************************************************)
EXTENDS Integers

CONSTANT MaxNotifications   \* bound: the count of notifications ends here

ASSUME LinkAssumption == MaxNotifications \in Nat \ {0}

VARIABLES
  phy,              \* which maintenance task the configuration names
  phyTask,          \* the maintenance task exists
  isInit,
  ippc,             \* where the IP task stands
  notified,         \* its notification count
  phypc,            \* where the maintenance task stands
  isUp, wasUp,      \* per port, as read and as last dealt with: phy_generic.c
                    \*   knows one port, ksz9893.c two
  negotiated,       \* history: its last round found the negotiation at its end
  compatible,       \* history: the last answer of setInterfaceSpeed
  news,             \* the argument of linkStatusChange
  ipNCR,            \* RXEN in the copy of NCR the IP task has loaded
  RXEN, LinkIsUp,
  undone            \* history: the last store of RXEN was of an old copy

linkVars == <<phy, phyTask, isInit, ippc, notified, phypc, isUp, wasUp, negotiated,
              compatible, news, ipNCR, RXEN, LinkIsUp, undone>>

ipVars == <<ippc, isInit, phyTask, ipNCR>>
portVars == <<phy, isUp, wasUp, negotiated, compatible>>

Ports == {1, 2}

LinkTypeOK ==
  /\ phy \in {"generic", "ksz9893"}
  /\ phyTask \in BOOLEAN /\ isInit \in BOOLEAN
  /\ ippc \in {"initialize", "created", "take", "test", "retry", "up", "output"}
  /\ notified \in 0 .. MaxNotifications
  /\ phypc \in {"rest", "port1", "port2", "store", "flag", "give"}
  /\ isUp \in [Ports -> BOOLEAN] /\ wasUp \in [Ports -> BOOLEAN]
  /\ negotiated \in BOOLEAN /\ compatible \in BOOLEAN
  /\ news \in [status : BOOLEAN, next : {"rest", "port2"}]
  /\ ipNCR \in BOOLEAN
  /\ RXEN \in BOOLEAN /\ LinkIsUp \in BOOLEAN /\ undone \in BOOLEAN

NoNews == [status |-> FALSE, next |-> "rest"]

LinkInit ==
  /\ phy \in {"generic", "ksz9893"}
  /\ phyTask = FALSE /\ isInit = FALSE
  /\ ippc = "initialize"
  /\ notified = 0
  /\ phypc = "rest"
  /\ isUp = [p \in Ports |-> FALSE] /\ wasUp = [p \in Ports |-> FALSE]
  /\ negotiated = FALSE /\ compatible = FALSE
  /\ news = NoNews
  /\ ipNCR = FALSE
  /\ RXEN = FALSE /\ LinkIsUp = FALSE /\ undone = FALSE

-----------------------------------------------------------------------------
(* The IP task                                                             *)

\* The first call creates the tasks, and either may not be had.  Nobody finds
\* out: a failure is -1, and 1 & -1 leaves xReturn what it was, pdPASS.  Without
\* the maintenance task the IP task waits for ever.
CreateTasks ==
  /\ ippc = "initialize" /\ ~isInit
  /\ phyTask' \in BOOLEAN
  /\ ippc' = "created"
  /\ UNCHANGED <<portVars, isInit, notified, phypc, news, ipNCR, RXEN, LinkIsUp, undone>>

TasksCreated ==
  /\ ippc = "created"
  /\ isInit' = TRUE
  /\ ippc' = "take"
  /\ UNCHANGED <<portVars, phyTask, notified, phypc, news, ipNCR, RXEN, LinkIsUp, undone>>

InitializeAgain ==
  /\ ippc = "initialize" /\ isInit
  /\ ippc' = "take"
  /\ UNCHANGED <<portVars, phyTask, isInit, notified, phypc, news, ipNCR, RXEN, LinkIsUp, undone>>

\* Mutant: the call returns at once when nothing has come.
TakeNotification_DoesNotWait ==
  /\ ippc = "take"
  /\ notified' = notified - 1
  /\ ippc' = "test"
  /\ UNCHANGED <<portVars, phyTask, isInit, phypc, news,
                 ipNCR, RXEN, LinkIsUp, undone>>

\* ulTaskNotifyTake with no limit: one notification is used up.
TakeNotification ==
  /\ ippc = "take" /\ notified > 0
  /\ notified' = notified - 1
  /\ ippc' = "test"
  /\ UNCHANGED <<portVars, phyTask, isInit, phypc, news, ipNCR, RXEN, LinkIsUp, undone>>

TestLink ==
  /\ ippc = "test"
  /\ ippc' = IF LinkIsUp THEN "up" ELSE "retry"
  /\ UNCHANGED <<portVars, phyTask, isInit, notified, phypc, news,
                 ipNCR, RXEN, LinkIsUp, undone>>

\* prvProcessNetworkDownEvent waits and sends itself the event again.
Retry ==
  /\ ippc = "retry"
  /\ ippc' = "initialize"
  /\ UNCHANGED <<portVars, phyTask, isInit, notified, phypc, news,
                 ipNCR, RXEN, LinkIsUp, undone>>

\* xSAMx5xMAC_OutputFrame sets THALT, TXEN and TSTART, each in this way.
OutputLoadsNCR ==
  /\ ippc = "up"
  /\ ipNCR' = RXEN
  /\ ippc' = "output"
  /\ UNCHANGED <<portVars, phyTask, isInit, notified, phypc, news,
                 RXEN, LinkIsUp, undone>>

OutputStoresNCR ==
  /\ ippc = "output"
  /\ RXEN' = ipNCR
  /\ undone' = (undone \/ ipNCR # RXEN)
  /\ ippc' = "up"
  /\ UNCHANGED <<portVars, phyTask, isInit, notified, phypc, news,
                 ipNCR, LinkIsUp>>

InitializeStep ==
  \/ CreateTasks \/ TasksCreated \/ InitializeAgain
  \/ TakeNotification \/ TestLink \/ Retry

-----------------------------------------------------------------------------
(* The maintenance tasks                                                   *)

\* Mutant: the status is noted in every round, and reported in the complete ones.
GenericStatus_NotesEarly(status, complete, agree) ==
  /\ phy = "generic" /\ phyTask /\ phypc = "rest"
  /\ isUp' = [isUp EXCEPT ![1] = status]
  /\ negotiated' = complete
  /\ wasUp' = [wasUp EXCEPT ![1] = status]
  /\ \/ /\ complete /\ status # wasUp[1]
        /\ compatible' = agree
        /\ news' = [status |-> status /\ agree, next |-> "rest"]
        /\ phypc' = "store"
     \/ /\ ~complete \/ status = wasUp[1]
        /\ UNCHANGED <<compatible, news, phypc>>
  /\ UNCHANGED <<phy, ipVars, notified, RXEN, LinkIsUp, undone>>

\* A round of vPHYGenericMaintenanceTask.  It reads the status first, and leaves
\* the round there unless the negotiation is complete, the partner has
\* acknowledged and the reads in between succeed: whatever the status is, it
\* is not dealt with.  For a new one it asks whether the two can talk.
GenericStatus(status, complete, agree) ==
  /\ phy = "generic" /\ phyTask /\ phypc = "rest"
  /\ isUp' = [isUp EXCEPT ![1] = status]
  /\ negotiated' = complete
  /\ \/ /\ complete /\ status # wasUp[1]
        /\ wasUp' = [wasUp EXCEPT ![1] = status]
        /\ compatible' = agree
        /\ news' = [status |-> status /\ agree, next |-> "rest"]
        /\ phypc' = "store"
     \/ /\ ~complete \/ status = wasUp[1]
        /\ UNCHANGED <<wasUp, compatible, news, phypc>>
  /\ UNCHANGED <<phy, ipVars, notified, RXEN, LinkIsUp, undone>>

\* vKSZ9893MaintenanceTask reads both ports, and then looks at one after the
\* other.
KSZ9893Read(status1, status2) ==
  /\ phy = "ksz9893" /\ phyTask /\ phypc = "rest"
  /\ isUp' = [p \in Ports |-> IF p = 1 THEN status1 ELSE status2]
  /\ phypc' = "port1"
  /\ UNCHANGED <<phy, wasUp, negotiated, compatible, ipVars, notified, news, RXEN, LinkIsUp, undone>>

After(p) == IF p = 1 THEN "port2" ELSE "rest"

At(p) == IF p = 1 THEN "port1" ELSE "port2"

\* Mutant: each port reports for itself.
KSZ9893Port_Alone(p) ==
  /\ phypc = At(p)
  /\ wasUp' = [wasUp EXCEPT ![p] = isUp[p]]
  /\ IF isUp[p] # wasUp[p]
       THEN /\ news' = [status |-> isUp[p], next |-> After(p)]
            /\ phypc' = "store"
       ELSE /\ phypc' = After(p)
            /\ UNCHANGED news
  /\ UNCHANGED <<phy, isUp, negotiated, compatible, ipVars, notified, RXEN, LinkIsUp, undone>>

\* A port that comes up is news; one that goes down only without the other.
KSZ9893Port(p) ==
  /\ phypc = At(p)
  /\ wasUp' = [wasUp EXCEPT ![p] = isUp[p]]
  /\ \/ /\ isUp[p] # wasUp[p]
        /\ isUp[p] \/ ~isUp[3 - p]
        /\ news' = [status |-> isUp[p], next |-> After(p)]
        /\ phypc' = "store"
     \/ /\ isUp[p] = wasUp[p] \/ (~isUp[p] /\ isUp[3 - p])
        /\ phypc' = After(p)
        /\ UNCHANGED news
  /\ UNCHANGED <<phy, isUp, negotiated, compatible, ipVars, notified, RXEN, LinkIsUp, undone>>

-----------------------------------------------------------------------------
(* xSAMx5xMAC_LinkStatusChanged.  Its last block, which would tell the IP  *)
(* task that the network is down, never runs: LinkIsUp was cleared just    *)
(* before it is tested.                                                    *)

\* Mutant: the receiver is left on when the link goes down.
LinkStoresRXEN_OnlyUp ==
  /\ phypc = "store"
  /\ RXEN' = (RXEN \/ news.status)
  /\ undone' = FALSE
  /\ phypc' = "flag"
  /\ UNCHANGED <<portVars, ipVars, notified, news, LinkIsUp>>

LinkStoresRXEN ==
  /\ phypc = "store"
  /\ RXEN' = news.status
  /\ undone' = FALSE
  /\ phypc' = "flag"
  /\ UNCHANGED <<portVars, ipVars, notified, news, LinkIsUp>>

SetLinkIsUp ==
  /\ phypc = "flag"
  /\ LinkIsUp' = news.status
  /\ \/ news.status /\ phypc' = "give" /\ UNCHANGED news
     \/ ~news.status /\ phypc' = news.next /\ news' = NoNews
  /\ UNCHANGED <<portVars, ipVars, notified, RXEN, undone>>

\* Mutant: the IP task is woken up if it waits, and nothing is kept.
GiveNotification_OnlyWakes ==
  /\ phypc = "give"
  /\ notified' = IF ippc = "take" THEN 1 ELSE notified
  /\ phypc' = news.next
  /\ news' = NoNews
  /\ UNCHANGED <<portVars, ipVars, RXEN, LinkIsUp, undone>>

GiveNotification ==
  /\ phypc = "give"
  /\ notified' = IF notified < MaxNotifications THEN notified + 1 ELSE notified
  /\ phypc' = news.next
  /\ news' = NoNews
  /\ UNCHANGED <<portVars, ipVars, RXEN, LinkIsUp, undone>>

LinkStatusChanged == LinkStoresRXEN \/ SetLinkIsUp \/ GiveNotification

LinkNext ==
  \/ InitializeStep
  \/ OutputLoadsNCR \/ OutputStoresNCR
  \/ \E status, complete, agree \in BOOLEAN : GenericStatus(status, complete, agree)
  \/ \E status1, status2 \in BOOLEAN : KSZ9893Read(status1, status2)
  \/ \E p \in Ports : KSZ9893Port(p)
  \/ LinkStatusChanged

LinkSpec == LinkInit /\ [][LinkNext]_linkVars

LinkFairSpec ==
  /\ LinkSpec
  /\ WF_linkVars(InitializeStep)
  /\ WF_linkVars(LinkStatusChanged)

-----------------------------------------------------------------------------
(* Properties                                                              *)

\* Between two rounds of the maintenance task the driver's view of the link is
\* that of the ports as they were read last, whatever combination of ports
\* changed in one round (ksz9893.c:107-137); with phy_generic.c so it is after a
\* round that found the negotiation complete, and only after such a round: a
\* cable that is unplugged while lines 72 and 85 are not passed again stays up.
LinkFollowsPorts ==
  phypc = "rest" =>
    /\ phy = "ksz9893" => LinkIsUp = (isUp[1] \/ isUp[2])
    /\ phy = "generic" /\ negotiated => LinkIsUp = (isUp[1] /\ compatible)

\* The receiver is on exactly while the link is up, unless the IP task stored
\* a copy of NCR from before the last change (samx5xmac.c:446): that is the
\* only way to a driver that believes in a link and hears nothing.
DeafOnlyAfterStaleStore == phypc = "rest" /\ ~undone => RXEN = LinkIsUp

\* A link that stays up ends the wait of xSAMx5xMAC_Initialize with success,
\* whatever ups and downs came before, and whether or not an earlier attempt
\* took the notification: none is lost between the two tasks (lines 205, 403).
NetworkComesUp == LinkIsUp ~> (ippc \in {"up", "output"} \/ ~LinkIsUp)
=============================================================================
