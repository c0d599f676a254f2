--------------------------- MODULE ProcessProofs ---------------------------
(***************************************************************************)
(* What holds of the supervisor's process for every value of the           *)
(* constants: of the endpoint of its metrics page, of the loop the systemd *)
(* watchdog looks at, and of who owns a member; of the lease its           *)
(* measurements hold; and of what `status` and the metrics page say of the *)
(* member.                                                                 *)
(***************************************************************************)
EXTENDS MetricsServer, MainLoop, Instance, Lease, StatusReport, FiniteSetTheorems, TLAPS

-----------------------------------------------------------------------------
(* The endpoint.  Besides types and the property itself, the argument      *)
(* needs that no connection was accepted on a page still to come.          *)

SinceThen == \A c \in Inflight : conns[c].since <= published

ServerInv == ServerTypeOK /\ EndpointOpen /\ SinceThen

\* The connections in flight are finite in number, and are the accepted ones.
LEMMA InflightFinite ==
    ASSUME ServerTypeOK
    PROVE  /\ IsFiniteSet(Inflight) /\ Cardinality(Inflight) \in Nat
           /\ \A c \in Peers : c \in Inflight <=> conns[c] \in Accepted
  <1>1. Inflight \in SUBSET Peers
    BY DEF Inflight
  <1>2. IsFiniteSet(Inflight)
    BY <1>1, FS_Subset, MetricsServerAssumption
  <1>3. \A c \in Peers : c \in Inflight <=> conns[c] \in Accepted
    BY DEF ServerTypeOK, Inflight, Outside, Accepted
  <1> QED BY <1>2, <1>3, FS_CardinalityType

\* The end of connections in flight gives back as many permits and opens nothing.
LEMMA FinishedKeeps ==
    ASSUME ServerInv, NEW ended \in SUBSET Inflight, UNCHANGED <<accepting, published>>,
           NEW next \in [Peers -> Outside \cup Accepted],
           \A c \in Inflight \ ended : /\ next[c] \in Accepted /\ next[c].since = conns[c].since
                                       /\ next[c].got = conns[c].got,
           \A c \in Peers \ Inflight : next[c] = conns[c],
           conns' = [c \in Peers |-> IF c \in ended THEN NoConn ELSE next[c]],
           permits' = permits + Cardinality(ended)
    PROVE  ServerInv'
  <1>1. IsFiniteSet(Inflight) /\ \A c \in Peers : c \in Inflight <=> conns[c] \in Accepted
    BY InflightFinite DEF ServerInv
  <1>2. NoConn \in Outside
    BY DEF NoConn, Outside
  <1>3. conns' \in [Peers -> Outside \cup Accepted]
    BY <1>2
  <1>4. Inflight' = Inflight \ ended
    BY <1>1, <1>2, <1>3 DEF Inflight, Outside, Accepted, NoConn
  <1>5. \A c \in Inflight' : /\ conns'[c] \in Accepted /\ conns'[c].since = conns[c].since
                             /\ conns'[c].got = conns[c].got
    BY <1>4 DEF Inflight
  <1>6. /\ IsFiniteSet(ended) /\ IsFiniteSet(Inflight \ ended)
        /\ Cardinality(Inflight \ ended) = Cardinality(Inflight) - Cardinality(ended)
    <2>1. IsFiniteSet(ended)
      BY <1>1, FS_Subset
    <2>2. /\ IsFiniteSet(Inflight \ ended)
          /\ Cardinality(Inflight \ ended) = Cardinality(Inflight) - Cardinality(Inflight \cap ended)
      BY <1>1, FS_Difference
    <2>3. Inflight \cap ended = ended
      OBVIOUS
    <2> QED BY <2>1, <2>2, <2>3
  <1>7. Cardinality(ended) \in Nat /\ Cardinality(Inflight \ ended) \in Nat /\ Cardinality(Inflight) \in Nat
    BY <1>1, <1>6, FS_CardinalityType
  <1>8. permits' + Cardinality(Inflight') = MaxInflight /\ permits' \in 0..MaxInflight
    BY <1>4, <1>6, <1>7, MetricsServerAssumption DEF ServerInv, ServerTypeOK, EndpointOpen
  <1>9. ServerTypeOK'
    BY <1>3, <1>8 DEF ServerInv, ServerTypeOK
  <1>10. \A c \in Inflight' : conns'[c].age <= ConnDeadline
    BY <1>5, MetricsServerAssumption DEF Accepted
  <1>11. \A c \in Inflight' : /\ c \in Inflight /\ \A n \in conns'[c].got : n >= conns'[c].since
                              /\ conns'[c].since <= published'
    BY <1>4, <1>5 DEF ServerInv, EndpointOpen, SinceThen
  <1> QED BY <1>8, <1>9, <1>10, <1>11 DEF ServerInv, EndpointOpen, SinceThen

\* No connection.
LEMMA ServerInitHolds == ServerInit => ServerInv
  <1> SUFFICES ASSUME ServerInit PROVE ServerInv
    OBVIOUS
  <1>1. Inflight = {}
    BY DEF ServerInit, Inflight, NoConn
  <1>2. Cardinality(Inflight) = 0
    BY <1>1, FS_EmptySet
  <1>3. ServerTypeOK
    BY MetricsServerAssumption DEF ServerInit, ServerTypeOK, NoConn, Outside
  <1> QED BY <1>1, <1>2, <1>3, MetricsServerAssumption DEF ServerInit, ServerInv, EndpointOpen, SinceThen

\* A connection takes a slot that is free.
LEMMA AcceptKeeps ==
    ASSUME ServerInv, NEW c \in Peers, AcceptConn(c)
    PROVE  ServerInv'
  <1> DEFINE fresh == [at |-> "reading", age |-> 0, since |-> published, got |-> {}]
  <1>1. IsFiniteSet(Inflight) /\ Cardinality(Inflight) \in Nat
    BY InflightFinite DEF ServerInv
  <1>2. c \notin Inflight
    BY DEF AcceptConn, Inflight
  <1>3. fresh \in Accepted /\ NoConn \in Outside
    BY MetricsServerAssumption DEF Accepted, Outside, NoConn, ServerInv, ServerTypeOK
  <1>4. CASE permits > 0
    <2>1. permits' = permits - 1 /\ conns' = [conns EXCEPT ![c] = fresh]
          /\ UNCHANGED <<accepting, published>>
      BY <1>4 DEF AcceptConn
    <2>2. conns' \in [Peers -> Outside \cup Accepted]
      BY <2>1, <1>3 DEF ServerInv, ServerTypeOK
    <2>3. Inflight' = Inflight \cup {c}
      BY <2>1, <2>2 DEF Inflight, ServerInv, ServerTypeOK
    <2>4. Cardinality(Inflight') = Cardinality(Inflight) + 1
      BY <2>3, <1>1, <1>2, FS_AddElement
    <2>5. permits' + Cardinality(Inflight') = MaxInflight /\ permits' \in 0..MaxInflight
      BY <2>1, <2>4, <1>1, <1>4, MetricsServerAssumption DEF ServerInv, ServerTypeOK, EndpointOpen
    <2>6. ServerTypeOK'
      BY <2>1, <2>2, <2>5 DEF ServerInv, ServerTypeOK
    <2>7. conns'[c] = fresh /\ \A d \in Inflight : conns'[d] = conns[d]
      BY <2>1, <1>2 DEF Inflight, ServerInv, ServerTypeOK
    <2> QED BY <2>1, <2>3, <2>5, <2>6, <2>7, MetricsServerAssumption
            DEF ServerInv, ServerTypeOK, EndpointOpen, SinceThen
  <1>5. CASE ~(permits > 0)
    <2>1. permits' = permits /\ conns' = [conns EXCEPT ![c] = NoConn]
          /\ UNCHANGED <<accepting, published>>
      BY <1>5 DEF AcceptConn
    <2>2. Inflight' = Inflight /\ \A d \in Inflight : conns'[d] = conns[d]
      BY <2>1, <1>2 DEF Inflight, NoConn, ServerInv, ServerTypeOK
    <2>3. ServerTypeOK'
      BY <2>1, <1>3 DEF ServerInv, ServerTypeOK
    <2> QED BY <2>1, <2>2, <2>3 DEF ServerInv, EndpointOpen, SinceThen
  <1> QED BY <1>4, <1>5

\* A peer that speaks is given the page of that moment.
LEMMA ConverseKeeps ==
    ASSUME ServerInv, NEW c \in Peers, NEW request \in Requests, Converse(c, request)
    PROVE  ServerInv'
  <1>1. c \in Inflight /\ conns[c] \in Accepted
    BY InflightFinite DEF ServerInv, Converse, Inflight
  <1>2. CASE Respond(request) = "Close"
    <2>1. Finished({c}) /\ UNCHANGED <<accepting, published>>
      BY <1>2 DEF Converse
    <2>2. conns \in [Peers -> Outside \cup Accepted] /\ \A d \in Inflight : conns[d] \in Accepted
      BY InflightFinite DEF ServerInv, ServerTypeOK, Inflight
    <2> QED BY <2>1, <2>2, <1>1, FinishedKeeps DEF Finished
  <1>3. CASE Respond(request) # "Close"
    <2> DEFINE body == IF Respond(request) = "Metrics" THEN {published} ELSE {}
    <2>1. /\ conns' = [conns EXCEPT ![c] = [@ EXCEPT !.at = "writing", !.got = body]]
          /\ UNCHANGED <<permits, accepting, published>>
      BY <1>3 DEF Converse
    <2>2. body \in SUBSET {published} /\ published \in 0..MaxPages
      BY DEF ServerInv, ServerTypeOK
    <2>3. /\ conns'[c] \in Accepted /\ conns'[c].since = conns[c].since /\ conns'[c].got = body
          /\ \A d \in Peers \ {c} : conns'[d] = conns[d]
      BY <2>1, <2>2, <1>1 DEF ServerInv, ServerTypeOK, Accepted
    <2>4. conns' \in [Peers -> Outside \cup Accepted]
      BY <2>1, <2>3 DEF ServerInv, ServerTypeOK
    <2>5. Inflight' = Inflight
      BY <2>3, <1>1 DEF Inflight, Accepted
    <2>6. ServerTypeOK'
      BY <2>1, <2>4 DEF ServerInv, ServerTypeOK
    <2>7. \A d \in Inflight' : conns'[d].age <= ConnDeadline
      BY <2>3, <2>5, MetricsServerAssumption DEF ServerInv, EndpointOpen, Accepted, Inflight
    <2>8. \A d \in Inflight' : /\ conns'[d].since <= published'
                               /\ \A n \in conns'[d].got : n >= conns'[d].since
      <3> SUFFICES ASSUME NEW d \in Inflight'
                   PROVE  /\ conns'[d].since <= published'
                          /\ \A n \in conns'[d].got : n >= conns'[d].since
        OBVIOUS
      <3>1. CASE d = c
        BY <3>1, <2>1, <2>2, <2>3, <1>1, MetricsServerAssumption DEF ServerInv, SinceThen, Accepted
      <3>2. CASE d # c
        BY <3>2, <2>1, <2>3, <2>5 DEF ServerInv, SinceThen, EndpointOpen, Inflight
      <3> QED BY <3>1, <3>2
    <2> QED BY <2>1, <2>5, <2>6, <2>7, <2>8 DEF ServerInv, EndpointOpen, SinceThen
  <1> QED BY <1>2, <1>3

\* Every step of the endpoint and its peers keeps ServerInv.
LEMMA ServerStepKeeps ==
    ASSUME ServerInv, [ServerNext]_serverVars
    PROVE  ServerInv'
  <1>1. conns \in [Peers -> Outside \cup Accepted] /\ \A d \in Inflight : conns[d] \in Accepted
    BY InflightFinite DEF ServerInv, ServerTypeOK, Inflight
  <1>2. CASE UNCHANGED serverVars
    BY <1>2 DEF ServerInv, ServerTypeOK, EndpointOpen, SinceThen, Inflight, serverVars
  <1>3. CASE AcceptFails
    BY <1>3 DEF AcceptFails, ServerInv, ServerTypeOK, EndpointOpen, SinceThen, Inflight
  <1>4. CASE ServerClock
    <2> DEFINE next == [c \in Peers |-> IF c \in Inflight \ Overdue THEN [conns[c] EXCEPT !.age = @ + 1]
                                                                  ELSE conns[c]]
    <2>1. Overdue \in SUBSET Inflight /\ Inflight \in SUBSET Peers
      BY DEF Overdue, Inflight
    <2>2. \A c \in Inflight \ Overdue : /\ next[c] \in Accepted /\ next[c].since = conns[c].since
                                        /\ next[c].got = conns[c].got
      BY <1>1, <2>1, MetricsServerAssumption DEF Overdue, Accepted
    <2>3. next \in [Peers -> Outside \cup Accepted]
      BY <1>1, <2>2
    <2>4. conns' = [c \in Peers |-> IF c \in Overdue THEN NoConn ELSE next[c]]
      BY <1>4, <2>1 DEF ServerClock
    <2>5. permits' = permits + Cardinality(Overdue) /\ UNCHANGED <<accepting, published>>
      BY <1>4 DEF ServerClock
    <2>6. \A c \in Peers \ Inflight : next[c] = conns[c]
      OBVIOUS
    <2> HIDE DEF next
    <2> QED BY <2>1, <2>2, <2>3, <2>4, <2>5, <2>6, FinishedKeeps
  <1>5. CASE PagePublished
    <2>1. published' = published + 1 /\ UNCHANGED <<conns, permits, accepting>> /\ published' \in 0..MaxPages
      BY <1>5, MetricsServerAssumption DEF PagePublished, ServerInv, ServerTypeOK
    <2> QED BY <2>1, <1>1, MetricsServerAssumption
            DEF ServerInv, ServerTypeOK, EndpointOpen, SinceThen, Inflight, Accepted
  <1>6. ASSUME NEW c \in Peers, Connects(c) PROVE ServerInv'
    <2>1. conns' = [conns EXCEPT ![c] = [at |-> "backlog"]] /\ UNCHANGED <<permits, accepting, published>>
          /\ conns[c] = NoConn
      BY <1>6 DEF Connects
    <2>2. Inflight' = Inflight /\ \A d \in Inflight : conns'[d] = conns[d]
      BY <2>1, <1>1 DEF Inflight, NoConn
    <2>3. conns' \in [Peers -> Outside \cup Accepted]
      BY <2>1, <1>1 DEF Outside
    <2> QED BY <2>1, <2>2, <2>3 DEF ServerInv, ServerTypeOK, EndpointOpen, SinceThen
  <1>7. ASSUME NEW c \in Peers, WriteResponse(c) \/ PeerGone(c) PROVE ServerInv'
    <2>1. Finished({c}) /\ UNCHANGED <<accepting, published>> /\ c \in Inflight
      BY <1>7 DEF WriteResponse, PeerGone, Inflight
    <2> QED BY <2>1, <1>1, FinishedKeeps DEF Finished
  <1>8. QED
    BY <1>2, <1>3, <1>4, <1>5, <1>6, <1>7, AcceptKeeps, ConverseKeeps DEF ServerNext

\* Connections, permits and pages are well typed in every reachable state.
THEOREM ServerTypes == ServerSpec => []ServerTypeOK
  <1>1. ServerInv => ServerTypeOK
    BY DEF ServerInv
  <1> QED BY <1>1, ServerInitHolds, ServerStepKeeps, PTL DEF ServerSpec

\* serve_on and serve_one leak no permit and let no peer keep one beyond the deadline,
\* however many peers, permits and ticks there are; and a page that was replaced before a
\* connection was accepted is never served on it.
THEOREM EndpointStaysOpen == ServerSpec => []EndpointOpen
  <1>1. ServerInv => EndpointOpen
    BY DEF ServerInv
  <1> QED BY <1>1, ServerInitHolds, ServerStepKeeps, PTL DEF ServerSpec
-----------------------------------------------------------------------------
(* The loop systemd looks at.  Time since the last feed is inside apply::run, *)
(* in reads, or the loop's own; of the last there is never more than the feed *)
(* arm has run down, except where the loop cannot come back to that arm: in   *)
(* its own read, and while it waits for a child it has just fed for.  And an  *)
(* engine taken for running is deaf no longer than systemd has been waiting,  *)
(* except after the feed that ends an apply.                                  *)

OwnTime ==
    lastFeed = "given" =>
       /\ loopAt \in ChildStops => inApply = 0 /\ inReads = 0 /\ unfed <= waits
       /\ loopAt = "feed-read"  => unfed <= inApply + inReads + FeedPeriod
       /\ loopAt \in {"select", "apply", "ready-read", "gather-read"}
             => unfed + feedIn <= inApply + inReads + FeedPeriod

DeafTime ==
    /\ deaf > 0 => child = "running" /\ engine = "silent"
    /\ loopAt = "stop-engine" => deaf <= WatchdogSec + waits
    /\ loopAt = "killed" => deaf <= WatchdogSec + StopGrace
    /\ loopAt \notin {"stop-engine", "killed"} => deaf <= unfed

WaitBounded ==
    /\ loopAt \in ChildStops => waits <= StopGrace
    /\ loopAt = "stop-shape" => child = "starting"

LoopInv == LoopTypeOK /\ WaitBounded /\ OwnTime /\ DeafTime

\* The loop has just fed the watchdog.
LEMMA LoopInitHolds == LoopInit => LoopInv
  BY LoopAssumption DEF LoopInit, LoopInv, LoopTypeOK, WaitBounded, OwnTime, DeafTime, Reads, ChildStops

\* Every arm of the loop and every passing of time keeps LoopInv.
LEMMA LoopStepKeeps ==
    ASSUME LoopInv, [LoopNext]_loopVars
    PROVE  LoopInv'
  <1> USE LoopAssumption DEF LoopInv, LoopTypeOK, WaitBounded, OwnTime, DeafTime, Reads, ChildStops,
                             GoOn, Idle
  <1>1. CASE UNCHANGED loopVars
    BY <1>1 DEF loopVars
  <1>2. CASE FeedArm
    BY <1>2 DEF FeedArm, ShouldFeed, Feed, Withhold, NotYet
  <1>3. CASE ReadyArm
    BY <1>3 DEF ReadyArm
  <1>4. CASE MetricsArm
    BY <1>4 DEF MetricsArm
  <1>5. CASE ReadEnds
    BY <1>5 DEF ReadEnds, ShouldFeed, Feed, Withhold, NotYet
  <1>6. CASE RetryBind \/ PortLeft
    BY <1>6 DEF RetryBind, PortLeft
  <1>7. CASE ReapplyArm \/ ReapplyFails
    BY <1>7 DEF ReapplyArm, ReapplyFails
  <1>8. CASE ApplyReturns
    BY <1>8 DEF ApplyReturns, FeedDuringReapply, ShouldFeed, Feed, Withhold
  <1>9. CASE EngineRestarted
    BY <1>9 DEF EngineRestarted, FeedDuringReapply, ShouldFeed, Feed, Withhold
  <1>10. CASE ShapeRestarted
    BY <1>10 DEF ShapeRestarted, FeedDuringReapply, ShouldFeed, Feed, Withhold
  <1>11. CASE EngineAnswers
    BY <1>11 DEF EngineAnswers
  <1>12. CASE EngineHangs
    BY <1>12 DEF EngineHangs
  <1>13. CASE EngineExits \/ Respawned
    BY <1>13 DEF EngineExits, Respawned
  <1>14. CASE Tick
    BY <1>14 DEF Tick, Starved, MayLast, Less
  <1>15. CASE WatchdogKill
    BY <1>15 DEF WatchdogKill, Starved
  <1>16. CASE Restart
    BY <1>16 DEF Restart, Feed
  <1> QED BY <1>1, <1>2, <1>3, <1>4, <1>5, <1>6, <1>7, <1>8, <1>9, <1>10, <1>11, <1>12, <1>13,
             <1>14, <1>15, <1>16 DEF LoopNext

\* Clocks, waits and states of the loop are well typed in every reachable state; systemd
\* never waits longer than WatchdogSec.
THEOREM LoopTypes == LoopSpec => []LoopTypeOK
  <1>1. LoopInv => LoopTypeOK
    BY DEF LoopInv
  <1> QED BY <1>1, LoopInitHolds, LoopStepKeeps, PTL DEF LoopSpec

\* The watchdog kills only when a feed was withheld or the supervisor was stuck in an apply
\* or in reads, and an engine that does not answer is replaced in time: for every period,
\* grace and bound with a grace below WatchdogSec, and any number of faults.
THEOREM WatchdogTellsTruth == LoopSpec => []WatchdogTrue
  <1>1. LoopInv => WatchdogTrue
    BY LoopAssumption DEF LoopInv, LoopTypeOK, WaitBounded, OwnTime, DeafTime, WatchdogTrue,
                          Starved, Reads, ChildStops
  <1> QED BY <1>1, LoopInitHolds, LoopStepKeeps, PTL DEF LoopSpec
-----------------------------------------------------------------------------
(* Who owns a member.  Two facts hold whatever crosses: a run holds a lock    *)
(* exactly from its TakeLock to its exit, and a run without company is alone, *)
(* with its directory and its free socket path.  While nothing has crossed,   *)
(* one run at a time holds a lock, it is that of the directory there is, no   *)
(* `cfab down` is under way beside it, and every engine holds the lock of     *)
(* that directory too: a teardown that has found it free will find no engine. *)

HolderStage == \A r \in Runs : lockDir[r] # 0 <=> stage[r] \notin {"gone", "lock"}

StarterStage == \A r \in Runs : engineAt[r] = "starting" => stage[r] \in {"ready", "serve", "stop"}

Solitude ==
    \A r \in Runs : stage[r] # "gone" /\ r \notin beside =>
        /\ downAt = "gone" /\ \A q \in Runs : q # r => stage[q] = "gone"
        /\ stage[r] = "lock" => runDir # 0
        /\ stage[r] = "bind" => sockOf = NoRun

Excused == \A r \in Runs : exit[r] \in {"held", "internal", "panic"} => r \in beside

\* What holds whatever crosses.
SoloInv == HolderStage /\ StarterStage /\ Solitude /\ Excused

OneHolder == \A p, q \in Runs : lockDir[p] # 0 /\ lockDir[q] # 0 => p = q

DownAlone == downAt # "gone" => \A r \in Runs : lockDir[r] = 0

HolderDir == \A r \in Runs : lockDir[r] # 0 /\ stage[r] # "netdevs" => lockDir[r] = runDir

Owned == {"launch", "ready", "serve", "stop", "check", "rmdir"}

HolderOwns ==
    \A r \in Runs : /\ stage[r] \in {"copy", "apply"} \cup Owned => sockOf = r
                    /\ stage[r] \in {"apply"} \cup Owned => copyOf = r \/ r \in unread
                    /\ stage[r] \in Owned => netdevs = r

EngineDir == \A r \in Runs : engineAt[r] = "holds" => engDir[r] = runDir /\ runDir # 0

RemovesNone ==
    downAt = "rmdir" \/ (\E q \in Runs : stage[q] = "rmdir") =>
        \A p \in Runs : engineAt[p] # "holds"

\* What holds while nothing has crossed.
ApartInv ==
    /\ OneHolder /\ DownAlone /\ HolderDir /\ HolderOwns
    /\ EngineDir /\ OneEngineAtATime /\ RemovesNone

InstInv == InstTypeOK /\ SoloInv /\ (crossed = {} => ApartInv)

\* Nobody owns anything.
LEMMA InstInitHolds == InstInit => InstInv
  BY InstanceAssumption DEF InstInit, InstInv, InstTypeOK, Stages, SoloInv, HolderStage, StarterStage,
     Solitude, Excused, ApartInv, OneHolder, DownAlone, HolderDir, HolderOwns, Owned, EngineDir,
     OneEngineAtATime, RemovesNone

\* Every stage of a start, a stop or a kill keeps InstInv.
LEMMA InstStepKeeps ==
    ASSUME InstInv, [InstNext]_instVars
    PROVE  InstInv'
  <1> USE InstanceAssumption
          DEF InstInv, InstTypeOK, SoloInv, HolderStage, StarterStage, Solitude, Excused
  <1>1. ASSUME NEW r \in Runs, Start(r) PROVE InstInv'
    <2>1. InstTypeOK'
      BY <1>1 DEF Start, MkDir, Company, Alone, Alive, GoTo, Stages
    <2>2. SoloInv'
      BY <1>1 DEF Start, MkDir, Company, Alone, Alive, GoTo
    <2>3. ASSUME crossed' = {} PROVE ApartInv'
      BY <1>1, <2>3 DEF Start, MkDir, Company, Alone, Alive, GoTo,
             ApartInv, OneHolder, DownAlone, HolderDir, HolderOwns, Owned, EngineDir,
             OneEngineAtATime, RemovesNone
    <2> QED BY <2>1, <2>2, <2>3
  <1>2. ASSUME NEW r \in Runs, TakeLock(r) PROVE InstInv'
    <2>1. InstTypeOK'
      BY <1>2 DEF TakeLock, Leave, GoTo, LockHeld, Hidden, Stages
    <2>2. SoloInv'
      BY <1>2 DEF TakeLock, Leave, GoTo, LockHeld, Hidden
    <2>3. ASSUME crossed' = {} PROVE ApartInv'
      BY <1>2, <2>3 DEF TakeLock, Leave, GoTo, LockHeld, Hidden,
             ApartInv, OneHolder, DownAlone, HolderDir, HolderOwns, Owned, EngineDir,
             OneEngineAtATime, RemovesNone
    <2> QED BY <2>1, <2>2, <2>3
  <1>3. ASSUME NEW r \in Runs, Probe(r) PROVE InstInv'
    <2>1. InstTypeOK'
      BY <1>3 DEF Probe, Leave, GoTo, Answered, Serves, Alive, Stages
    <2>2. SoloInv'
      BY <1>3 DEF Probe, Leave, GoTo, Answered, Serves, Alive
    <2>3. ASSUME crossed' = {} PROVE ApartInv'
      BY <1>3, <2>3 DEF Probe, Leave, GoTo, Answered, Serves, Alive,
             ApartInv, OneHolder, DownAlone, HolderDir, HolderOwns, Owned, EngineDir,
             OneEngineAtATime, RemovesNone
    <2> QED BY <2>1, <2>2, <2>3
  <1>4. ASSUME NEW r \in Runs, BindSock(r) PROVE InstInv'
    <2>1. InstTypeOK'
      BY <1>4 DEF BindSock, MkDir, Leave, GoTo, Stages
    <2>2. SoloInv'
      BY <1>4 DEF BindSock, MkDir, Leave, GoTo
    <2>3. ASSUME crossed' = {} PROVE ApartInv'
      BY <1>4, <2>3 DEF BindSock, MkDir, Leave, GoTo,
             ApartInv, OneHolder, DownAlone, HolderDir, HolderOwns, Owned, EngineDir,
             OneEngineAtATime, RemovesNone
    <2> QED BY <2>1, <2>2, <2>3
  <1>5. ASSUME NEW r \in Runs, WriteCopy(r) PROVE InstInv'
    <2>1. InstTypeOK'
      BY <1>5 DEF WriteCopy, GoTo, Stages
    <2>2. SoloInv'
      BY <1>5 DEF WriteCopy, GoTo
    <2>3. ASSUME crossed' = {} PROVE ApartInv'
      BY <1>5, <2>3 DEF WriteCopy, GoTo,
             ApartInv, OneHolder, DownAlone, HolderDir, HolderOwns, Owned, EngineDir,
             OneEngineAtATime, RemovesNone
    <2> QED BY <2>1, <2>2, <2>3
  <1>6. ASSUME NEW r \in Runs, FirstApply(r) PROVE InstInv'
    <2>1. InstTypeOK'
      BY <1>6 DEF FirstApply, MkDir, Leave, GoTo, Stages
    <2>2. SoloInv'
      BY <1>6 DEF FirstApply, MkDir, Leave, GoTo
    <2>3. ASSUME crossed' = {} PROVE ApartInv'
      BY <1>6, <2>3 DEF FirstApply, MkDir, Leave, GoTo,
             ApartInv, OneHolder, DownAlone, HolderDir, HolderOwns, Owned, EngineDir,
             OneEngineAtATime, RemovesNone
    <2> QED BY <2>1, <2>2, <2>3
  <1>7. ASSUME NEW r \in Runs, Launch(r) PROVE InstInv'
    <2>1. InstTypeOK'
      BY <1>7 DEF Launch, SpawnEngine, GoTo, Stages
    <2>2. SoloInv'
      BY <1>7 DEF Launch, SpawnEngine, GoTo
    <2>3. ASSUME crossed' = {} PROVE ApartInv'
      BY <1>7, <2>3 DEF Launch, SpawnEngine, GoTo,
             ApartInv, OneHolder, DownAlone, HolderDir, HolderOwns, Owned, EngineDir,
             OneEngineAtATime, RemovesNone
    <2> QED BY <2>1, <2>2, <2>3
  <1>8. ASSUME NEW r \in Runs, Ready(r) PROVE InstInv'
    <2>1. InstTypeOK'
      BY <1>8 DEF Ready, Leave, GoTo, Stages
    <2>2. SoloInv'
      BY <1>8 DEF Ready, Leave, GoTo
    <2>3. ASSUME crossed' = {} PROVE ApartInv'
      BY <1>8, <2>3 DEF Ready, Leave, GoTo,
             ApartInv, OneHolder, DownAlone, HolderDir, HolderOwns, Owned, EngineDir,
             OneEngineAtATime, RemovesNone
    <2> QED BY <2>1, <2>2, <2>3
  <1>9. ASSUME NEW r \in Runs, EngineLocks(r) PROVE InstInv'
    <2>1. InstTypeOK'
      BY <1>9 DEF EngineLocks, MkDir, EngineHeld, Stages
    <2>2. SoloInv'
      BY <1>9 DEF EngineLocks, MkDir, EngineHeld
    <2>3. ASSUME crossed' = {} PROVE ApartInv'
      BY <1>9, <2>3 DEF EngineLocks, MkDir, EngineHeld,
             ApartInv, OneHolder, DownAlone, HolderDir, HolderOwns, Owned, EngineDir,
             OneEngineAtATime, RemovesNone
    <2> QED BY <2>1, <2>2, <2>3
  <1>10. ASSUME NEW r \in Runs, EngineDies(r) PROVE InstInv'
    <2>1. InstTypeOK'
      BY <1>10 DEF EngineDies, Stages
    <2>2. SoloInv'
      BY <1>10 DEF EngineDies
    <2>3. ASSUME crossed' = {} PROVE ApartInv'
      BY <1>10, <2>3 DEF EngineDies,
             ApartInv, OneHolder, DownAlone, HolderDir, HolderOwns, Owned, EngineDir,
             OneEngineAtATime, RemovesNone
    <2> QED BY <2>1, <2>2, <2>3
  <1>11. ASSUME NEW r \in Runs, Respawn(r) PROVE InstInv'
    <2>1. InstTypeOK'
      BY <1>11 DEF Respawn, SpawnEngine, Stages
    <2>2. SoloInv'
      BY <1>11 DEF Respawn, SpawnEngine
    <2>3. ASSUME crossed' = {} PROVE ApartInv'
      BY <1>11, <2>3 DEF Respawn, SpawnEngine,
             ApartInv, OneHolder, DownAlone, HolderDir, HolderOwns, Owned, EngineDir,
             OneEngineAtATime, RemovesNone
    <2> QED BY <2>1, <2>2, <2>3
  <1>12. ASSUME NEW r \in Runs, Stop(r) PROVE InstInv'
    <2>1. InstTypeOK'
      BY <1>12 DEF Stop, GoTo, Stages
    <2>2. SoloInv'
      BY <1>12 DEF Stop, GoTo
    <2>3. ASSUME crossed' = {} PROVE ApartInv'
      BY <1>12, <2>3 DEF Stop, GoTo,
             ApartInv, OneHolder, DownAlone, HolderDir, HolderOwns, Owned, EngineDir,
             OneEngineAtATime, RemovesNone
    <2> QED BY <2>1, <2>2, <2>3
  <1>13. ASSUME NEW r \in Runs, GraceEnds(r) PROVE InstInv'
    <2>1. InstTypeOK'
      BY <1>13 DEF GraceEnds, GoTo, Stages
    <2>2. SoloInv'
      BY <1>13 DEF GraceEnds, GoTo
    <2>3. ASSUME crossed' = {} PROVE ApartInv'
      BY <1>13, <2>3 DEF GraceEnds, GoTo,
             ApartInv, OneHolder, DownAlone, HolderDir, HolderOwns, Owned, EngineDir,
             OneEngineAtATime, RemovesNone
    <2> QED BY <2>1, <2>2, <2>3
  <1>14. ASSUME NEW r \in Runs, StopCheck(r) PROVE InstInv'
    <2>1. InstTypeOK'
      BY <1>14 DEF StopCheck, TeardownAllowed, EngineHeld, Leave, GoTo, Stages
    <2>2. SoloInv'
      BY <1>14 DEF StopCheck, TeardownAllowed, EngineHeld, Leave, GoTo
    <2>3. ASSUME crossed' = {} PROVE ApartInv'
      BY <1>14, <2>3 DEF StopCheck, TeardownAllowed, EngineHeld, Leave, GoTo,
             ApartInv, OneHolder, DownAlone, HolderDir, HolderOwns, Owned, EngineDir,
             OneEngineAtATime, RemovesNone
    <2> QED BY <2>1, <2>2, <2>3
  <1>15. ASSUME NEW r \in Runs, StopRmDir(r) PROVE InstInv'
    <2>1. InstTypeOK'
      BY <1>15 DEF StopRmDir, RmDir, GoTo, Stages
    <2>2. SoloInv'
      BY <1>15 DEF StopRmDir, RmDir, GoTo
    <2>3. ASSUME crossed' = {} PROVE ApartInv'
      BY <1>15, <2>3 DEF StopRmDir, RmDir, GoTo,
             ApartInv, OneHolder, DownAlone, HolderDir, HolderOwns, Owned, EngineDir,
             OneEngineAtATime, RemovesNone
    <2> QED BY <2>1, <2>2, <2>3
  <1>16. ASSUME NEW r \in Runs, StopNetdevs(r) PROVE InstInv'
    <2>1. InstTypeOK'
      BY <1>16 DEF StopNetdevs, Leave, Stages
    <2>2. SoloInv'
      BY <1>16 DEF StopNetdevs, Leave
    <2>3. ASSUME crossed' = {} PROVE ApartInv'
      BY <1>16, <2>3 DEF StopNetdevs, Leave,
             ApartInv, OneHolder, DownAlone, HolderDir, HolderOwns, Owned, EngineDir,
             OneEngineAtATime, RemovesNone
    <2> QED BY <2>1, <2>2, <2>3
  <1>17. ASSUME NEW r \in Runs, KillRun(r) PROVE InstInv'
    <2>1. InstTypeOK'
      BY <1>17 DEF KillRun, Leave, Alive, Stages
    <2>2. SoloInv'
      BY <1>17 DEF KillRun, Leave, Alive
    <2>3. ASSUME crossed' = {} PROVE ApartInv'
      BY <1>17, <2>3 DEF KillRun, Leave, Alive,
             ApartInv, OneHolder, DownAlone, HolderDir, HolderOwns, Owned, EngineDir,
             OneEngineAtATime, RemovesNone
    <2> QED BY <2>1, <2>2, <2>3
  <1>18. CASE DownProbe
    <2>1. InstTypeOK'
      BY <1>18 DEF DownProbe, Alive, NotListening, Unseen, Stages
    <2>2. SoloInv'
      BY <1>18 DEF DownProbe, Alive, NotListening, Unseen
    <2>3. ASSUME crossed' = {} PROVE ApartInv'
      BY <1>18, <2>3 DEF DownProbe, Alive, NotListening, Unseen,
             ApartInv, OneHolder, DownAlone, HolderDir, HolderOwns, Owned, EngineDir,
             OneEngineAtATime, RemovesNone
    <2> QED BY <2>1, <2>2, <2>3
  <1>19. CASE DownCheck
    <2>1. InstTypeOK'
      BY <1>19 DEF DownCheck, TeardownAllowed, EngineHeld, Stages
    <2>2. SoloInv'
      BY <1>19 DEF DownCheck, TeardownAllowed, EngineHeld
    <2>3. ASSUME crossed' = {} PROVE ApartInv'
      BY <1>19, <2>3 DEF DownCheck, TeardownAllowed, EngineHeld,
             ApartInv, OneHolder, DownAlone, HolderDir, HolderOwns, Owned, EngineDir,
             OneEngineAtATime, RemovesNone
    <2> QED BY <2>1, <2>2, <2>3
  <1>20. CASE DownRmDir
    <2>1. InstTypeOK'
      BY <1>20 DEF DownRmDir, RmDir, Stages
    <2>2. SoloInv'
      BY <1>20 DEF DownRmDir, RmDir
    <2>3. ASSUME crossed' = {} PROVE ApartInv'
      BY <1>20, <2>3 DEF DownRmDir, RmDir,
             ApartInv, OneHolder, DownAlone, HolderDir, HolderOwns, Owned, EngineDir,
             OneEngineAtATime, RemovesNone
    <2> QED BY <2>1, <2>2, <2>3
  <1>21. CASE DownNetdevs
    <2>1. InstTypeOK'
      BY <1>21 DEF DownNetdevs, Stages
    <2>2. SoloInv'
      BY <1>21 DEF DownNetdevs
    <2>3. ASSUME crossed' = {} PROVE ApartInv'
      BY <1>21, <2>3 DEF DownNetdevs,
             ApartInv, OneHolder, DownAlone, HolderDir, HolderOwns, Owned, EngineDir,
             OneEngineAtATime, RemovesNone
    <2> QED BY <2>1, <2>2, <2>3
  <1>22. CASE KillDown
    <2>1. InstTypeOK'
      BY <1>22 DEF KillDown, Stages
    <2>2. SoloInv'
      BY <1>22 DEF KillDown
    <2>3. ASSUME crossed' = {} PROVE ApartInv'
      BY <1>22, <2>3 DEF KillDown,
             ApartInv, OneHolder, DownAlone, HolderDir, HolderOwns, Owned, EngineDir,
             OneEngineAtATime, RemovesNone
    <2> QED BY <2>1, <2>2, <2>3
  <1>23. CASE Quiet
    <2>1. InstTypeOK'
      BY <1>23 DEF Quiet, Alive, Stages
    <2>2. SoloInv'
      BY <1>23 DEF Quiet, Alive
    <2>3. ASSUME crossed' = {} PROVE ApartInv'
      BY <1>23, <2>3 DEF Quiet, Alive,
             ApartInv, OneHolder, DownAlone, HolderDir, HolderOwns, Owned, EngineDir,
             OneEngineAtATime, RemovesNone
    <2> QED BY <2>1, <2>2, <2>3
  <1>24. CASE UNCHANGED instVars
    BY <1>24 DEF instVars, ApartInv, OneHolder, DownAlone, HolderDir, HolderOwns, Owned, EngineDir,
                 OneEngineAtATime, RemovesNone
  <1> QED
    BY <1>24, <1>1, <1>2, <1>3, <1>4, <1>5, <1>6, <1>7, <1>8, <1>9,
       <1>10, <1>11, <1>12, <1>13, <1>14, <1>15, <1>16, <1>17, <1>18, <1>19, <1>20,
       <1>21, <1>22, <1>23 DEF InstNext

\* Processes, locks, paths and ghosts are well typed in every reachable state.
THEOREM InstTypes == InstSpec => []InstTypeOK
  <1>1. InstInv => InstTypeOK
    BY DEF InstInv
  <1> QED BY <1>1, InstInitHolds, InstStepKeeps, PTL DEF InstSpec

\* A member has one owner and one engine however many runs, teardowns and SIGKILLs there
\* are, and what a run leaves behind refuses no successor.
THEOREM OneOwner == InstSpec => []SoleOwner
  <1>1. InstInv => SoleOwner
    <2> SUFFICES ASSUME InstInv PROVE SoleOwner
      OBVIOUS
    <2>1. ASSUME crossed = {}, NEW r \in Runs, stage[r] = "serve" PROVE OwnsMember(r)
      <3>1. lockDir[r] # 0 /\ lockDir[r] = runDir
        BY <2>1 DEF InstInv, SoloInv, HolderStage, ApartInv, HolderDir
      <3>2. sockOf = r /\ netdevs = r /\ (copyOf = r \/ r \in unread)
        BY <2>1 DEF InstInv, ApartInv, HolderOwns, Owned
      <3>3. downAt = "gone"
        BY <2>1, <3>1 DEF InstInv, ApartInv, DownAlone
      <3>4. \A q \in Runs \ {r} : stage[q] \in {"gone", "lock"}
        BY <2>1, <3>1 DEF InstInv, SoloInv, HolderStage, ApartInv, OneHolder
      <3> QED BY <3>1, <3>2, <3>3, <3>4 DEF OwnsMember, Described
    <2> QED BY <2>1 DEF InstInv, SoloInv, Excused, ApartInv, SoleOwner
  <1> QED BY <1>1, InstInitHolds, InstStepKeeps, PTL DEF InstSpec

-----------------------------------------------------------------------------
(* The lease of the measurements admits one flood at a time, for any       *)
(* number of measurers, any number of attempts, and any expiry no flood    *)
(* outlasts.  OneFlood is not inductive: that a stale lock is nobody's     *)
(* needs FloodHeld, a flood's lease is as old as the flood and so never    *)
(* stale, and that there is an attempt left to spend needs FloodTries.     *)

LeasePlaces == {"idle", "mkdir", "look", "touch", "pause", "flood"}

\* A flood's lease is as old as the flood.
FloodHeld(m) == flood[m].at = "flood" =>
               flood[m].left \in 0..FloodLen /\ lockAge = FloodLen - flood[m].left

\* A measurer that asks for the lock has an attempt left.
FloodTries(m) == flood[m].at \in {"mkdir", "look"} => flood[m].left > 0

LeaseInv ==
    /\ LeaseTypeOK /\ OneFlood
    /\ \A m \in Measurers : FloodHeld(m) /\ FloodTries(m)

-----------------------------------------------------------------------------
(* Placing a measurer.                                                     *)

\* What At does to a well-typed flood.
LEMMA AtMoves ==
    ASSUME LeaseTypeOK, NEW m \in Measurers, NEW p \in LeasePlaces, NEW n \in Nat, At(m, p, n)
    PROVE  /\ flood' \in [Measurers -> [at : LeasePlaces, left : Nat]]
           /\ flood'[m].at = p /\ flood'[m].left = n
           /\ \A o \in Measurers : o # m => flood'[o] = flood[o]
  BY DEF LeaseTypeOK, At, LeasePlaces

\* A measurer that stays out of the flood, or leaves it, disturbs nobody while
\* the lock stays as it is.
LEMMA OutKeeps ==
    ASSUME LeaseInv, NEW m \in Measurers, NEW p \in LeasePlaces \ {"flood"}, NEW n \in Nat,
           p \in {"mkdir", "look"} => n > 0,
           At(m, p, n), lockAge' = lockAge, losses' \in 0..MaxLeaseFaults
    PROVE  LeaseInv'
  <1>1. /\ flood' \in [Measurers -> [at : LeasePlaces, left : Nat]]
        /\ flood'[m].at = p /\ flood'[m].left = n
        /\ \A o \in Measurers : o # m => flood'[o] = flood[o]
    BY AtMoves DEF LeaseInv
  <1>2. LeaseTypeOK'
    BY <1>1 DEF LeaseInv, LeaseTypeOK, LeasePlaces
  <1>3. OneFlood'
    BY <1>1 DEF LeaseInv, OneFlood
  <1>4. \A o \in Measurers : FloodHeld(o)' /\ FloodTries(o)'
    BY <1>1 DEF LeaseInv, FloodHeld, FloodTries
  <1> QED BY <1>2, <1>3, <1>4 DEF LeaseInv

\* A lock somebody floods under is neither absent nor stale.
LEMMA FloodsFresh ==
    ASSUME LeaseInv, NEW m \in Measurers, flood[m].at = "flood"
    PROVE  lockAge \in 0..LockExpiry /\ (flood[m].left > 0 => lockAge < LockExpiry)
  <1>1. flood[m].left \in 0..FloodLen /\ lockAge = FloodLen - flood[m].left
    BY DEF LeaseInv, FloodHeld
  <1> QED BY <1>1, LeaseAssumption

\* A bounded count stays bounded.
LEMMA LossesBounded ==
    ASSUME LeaseInv, Loss \/ NoLoss
    PROVE  losses' \in 0..MaxLeaseFaults
  BY LeaseAssumption DEF LeaseInv, LeaseTypeOK, Loss, NoLoss

-----------------------------------------------------------------------------
(* The steps.                                                              *)

\* mkdir takes a lock that nobody floods under, or finds one.
LEMMA MkdirKeeps ==
    ASSUME LeaseInv, NEW m \in Measurers, LockMkdir(m)
    PROVE  LeaseInv'
  <1>1. flood[m].at = "mkdir" /\ flood[m].left \in Nat /\ flood[m].left > 0
    BY DEF LockMkdir, LeaseInv, LeaseTypeOK, FloodTries
  <1>2. losses' \in 0..MaxLeaseFaults
    BY LossesBounded DEF LockMkdir
  <1>3. CASE lockAge # NoLock
    <2>1. At(m, "look", flood[m].left) /\ lockAge' = lockAge
      BY <1>3 DEF LockMkdir
    <2> QED BY <2>1, <1>1, <1>2, OutKeeps DEF LeasePlaces
  <1>4. CASE lockAge = NoLock
    <2>1. At(m, "flood", FloodLen) /\ lockAge' = 0
      BY <1>4 DEF LockMkdir
    <2>2. FloodLen \in Nat
      BY LeaseAssumption
    <2>3. \A o \in Measurers : flood[o].at # "flood"
      BY <1>4, FloodsFresh DEF NoLock
    <2>4. /\ flood' \in [Measurers -> [at : LeasePlaces, left : Nat]]
          /\ flood'[m].at = "flood" /\ flood'[m].left = FloodLen
          /\ \A o \in Measurers : o # m => flood'[o] = flood[o]
      BY <2>1, <2>2, AtMoves DEF LeaseInv, LeasePlaces
    <2>5. LeaseTypeOK'
      BY <2>1, <2>4, <1>2, LeaseAssumption DEF LeaseTypeOK, LeasePlaces, NoLock
    <2>6. OneFlood'
      BY <2>3, <2>4 DEF OneFlood
    <2>7. \A o \in Measurers : FloodHeld(o)' /\ FloodTries(o)'
      BY <2>1, <2>2, <2>3, <2>4 DEF LeaseInv, FloodHeld, FloodTries
    <2> QED BY <2>5, <2>6, <2>7 DEF LeaseInv
  <1> QED BY <1>3, <1>4

\* The request to unlock spares a lock somebody floods under.
LEMMA TouchKeeps ==
    ASSUME LeaseInv, NEW m \in Measurers, LockTouch(m)
    PROVE  LeaseInv'
  <1>1. At(m, "pause", flood[m].left) /\ lockAge' = Unlocked(lockAge) /\ flood[m].left \in Nat
    BY DEF LockTouch, LeaseInv, LeaseTypeOK
  <1>2. losses' \in 0..MaxLeaseFaults
    BY LossesBounded DEF LockTouch
  <1>3. CASE lockAge' = lockAge
    BY <1>1, <1>2, <1>3, OutKeeps DEF LeasePlaces
  <1>4. CASE lockAge' # lockAge
    <2>1. lockAge > LockExpiry /\ lockAge' = NoLock
      BY <1>1, <1>4 DEF Unlocked
    <2>2. \A o \in Measurers : flood[o].at # "flood"
      BY <2>1, FloodsFresh, LeaseAssumption
    <2>3. /\ flood' \in [Measurers -> [at : LeasePlaces, left : Nat]]
          /\ flood'[m].at = "pause"
          /\ \A o \in Measurers : o # m => flood'[o] = flood[o]
      BY <1>1, AtMoves DEF LeaseInv, LeasePlaces
    <2>4. LeaseTypeOK'
      BY <2>1, <2>3, <1>2, LeaseAssumption DEF LeaseTypeOK, LeasePlaces, NoLock
    <2>5. OneFlood'
      BY <2>2, <2>3 DEF OneFlood
    <2>6. \A o \in Measurers : FloodHeld(o)' /\ FloodTries(o)'
      BY <2>2, <2>3 DEF LeaseInv, FloodHeld, FloodTries
    <2> QED BY <2>4, <2>5, <2>6 DEF LeaseInv
  <1> QED BY <1>3, <1>4

\* A release removes the lock of the only flood there is.
LEMMA ReleaseKeeps ==
    ASSUME LeaseInv, NEW m \in Measurers, NEW ok \in BOOLEAN, LockRelease(m, ok)
    PROVE  LeaseInv'
  <1>1. flood[m].at = "flood" /\ At(m, "idle", 0) /\ lockAge' \in {NoLock, lockAge}
    BY DEF LockRelease
  <1>2. losses' \in 0..MaxLeaseFaults
    BY LossesBounded DEF LockRelease
  <1>3. \A o \in Measurers : o # m => flood[o].at # "flood"
    BY <1>1 DEF LeaseInv, OneFlood
  <1>4. /\ flood' \in [Measurers -> [at : LeasePlaces, left : Nat]]
        /\ flood'[m].at = "idle"
        /\ \A o \in Measurers : o # m => flood'[o] = flood[o]
    BY <1>1, AtMoves DEF LeaseInv, LeasePlaces
  <1>5. LeaseTypeOK'
    BY <1>1, <1>2, <1>4, LeaseAssumption DEF LeaseInv, LeaseTypeOK, LeasePlaces, NoLock
  <1>6. OneFlood'
    BY <1>3, <1>4 DEF OneFlood
  <1>7. \A o \in Measurers : FloodHeld(o)' /\ FloodTries(o)'
    BY <1>3, <1>4 DEF LeaseInv, FloodHeld, FloodTries
  <1> QED BY <1>5, <1>6, <1>7 DEF LeaseInv

\* Time ages the flood and its lock alike.
LEMMA ElapseKeeps ==
    ASSUME LeaseInv, LeaseElapse
    PROVE  LeaseInv'
  <1>1. losses' \in 0..MaxLeaseFaults
    BY LossesBounded DEF LeaseElapse
  <1>2. lockAge' = IF lockAge \in {NoLock, LockExpiry + 1} THEN lockAge ELSE lockAge + 1
    BY DEF LeaseElapse
  <1>3. lockAge' \in NoLock..(LockExpiry + 1)
    BY <1>2, LeaseAssumption DEF LeaseInv, LeaseTypeOK, NoLock
  <1>4. ASSUME NEW m \in Measurers
        PROVE  /\ flood'[m] \in [at : LeasePlaces, left : Nat]
               /\ flood'[m].at = "flood" <=> flood[m].at = "flood"
               /\ FloodHeld(m)' /\ FloodTries(m)'
    <2>1. flood[m] \in [at : LeasePlaces, left : Nat] /\ FloodHeld(m) /\ FloodTries(m)
      BY DEF LeaseInv, LeaseTypeOK, LeasePlaces
    <2>2. CASE flood[m].at = "pause"
      <3>1. flood[m].left > 0 /\ flood'[m] = [flood[m] EXCEPT !.at = "mkdir"]
        BY <2>2 DEF LeaseElapse
      <3> QED BY <2>1, <2>2, <3>1 DEF FloodHeld, FloodTries, LeasePlaces
    <2>3. CASE flood[m].at = "flood"
      <3>1. flood[m].left > 0 /\ flood'[m] = [flood[m] EXCEPT !.left = @ - 1]
        BY <2>3 DEF LeaseElapse
      <3>2. lockAge \in 0..LockExpiry /\ lockAge < LockExpiry
        BY <2>3, <3>1, FloodsFresh
      <3>3. lockAge' = lockAge + 1
        BY <1>2, <3>2, LeaseAssumption DEF NoLock
      <3>4. flood'[m].at = "flood" /\ flood'[m].left = flood[m].left - 1
        BY <2>1, <2>3, <3>1
      <3>5. FloodHeld(m)'
        BY <2>1, <2>3, <3>1, <3>3, <3>4, LeaseAssumption DEF FloodHeld
      <3> QED BY <2>1, <2>3, <3>1, <3>4, <3>5 DEF FloodTries, LeasePlaces
    <2>4. CASE flood[m].at \notin {"pause", "flood"}
      <3>1. flood'[m] = flood[m]
        BY <2>4 DEF LeaseElapse
      <3> QED BY <2>1, <2>4, <3>1 DEF FloodHeld, FloodTries
    <2> QED BY <2>2, <2>3, <2>4
  <1>5. flood' \in [Measurers -> [at : LeasePlaces, left : Nat]]
    <2>1. flood' = [m \in Measurers |-> flood'[m]]
      BY DEF LeaseElapse
    <2> QED BY <2>1, <1>4
  <1>6. LeaseTypeOK'
    BY <1>1, <1>3, <1>5 DEF LeaseTypeOK, LeasePlaces
  <1>7. OneFlood'
    BY <1>4 DEF LeaseInv, OneFlood
  <1> QED BY <1>4, <1>6, <1>7 DEF LeaseInv

\* Every step of a measurer, every fault and every passing of time keeps LeaseInv.
LEMMA LeaseStepKeeps ==
    ASSUME LeaseInv, [LeaseNext]_leaseVars
    PROVE  LeaseInv'
  <1>1. CASE UNCHANGED leaseVars
    BY <1>1 DEF LeaseInv, LeaseTypeOK, OneFlood, FloodHeld, FloodTries, leaseVars
  <1>2. CASE LeaseElapse
    BY <1>2, ElapseKeeps
  <1>3. ASSUME NEW m \in Measurers, MeasureStart(m) PROVE LeaseInv'
    <2>1. At(m, "mkdir", LockAttempts) /\ lockAge' = lockAge /\ losses' \in 0..MaxLeaseFaults
      BY <1>3, LossesBounded DEF MeasureStart
    <2> QED BY <2>1, OutKeeps, LeaseAssumption DEF LeasePlaces
  <1>4. ASSUME NEW m \in Measurers, LockLook(m) PROVE LeaseInv'
    <2>1. PICK p \in {"touch", "pause"} : At(m, p, flood[m].left - 1)
      BY <1>4 DEF LockLook
    <2>2. lockAge' = lockAge /\ losses' \in 0..MaxLeaseFaults
      BY <1>4, LossesBounded DEF LockLook
    <2>3. flood[m].left - 1 \in Nat
      BY <1>4 DEF LockLook, LeaseInv, LeaseTypeOK, FloodTries
    <2> QED BY <2>1, <2>2, <2>3, OutKeeps DEF LeasePlaces
  <1>5. ASSUME NEW m \in Measurers, LockFails(m) \/ MeasurerDies(m) PROVE LeaseInv'
    <2>1. At(m, "idle", 0) /\ lockAge' = lockAge /\ losses' \in 0..MaxLeaseFaults
      BY <1>5, LossesBounded DEF LockFails, MeasurerDies
    <2> QED BY <2>1, OutKeeps DEF LeasePlaces
  <1>6. QED
    BY <1>1, <1>2, <1>3, <1>4, <1>5, MkdirKeeps, TouchKeeps, ReleaseKeeps DEF LeaseNext

-----------------------------------------------------------------------------
(* The theorems.                                                           *)

\* No lock, no flood.
LEMMA LeaseInitHolds == LeaseInit => LeaseInv
  BY LeaseAssumption DEF LeaseInit, LeaseInv, LeaseTypeOK, OneFlood, FloodHeld, FloodTries, NoLock

\* Ages, places and attempts are well typed in every reachable state; the
\* attempts of Pmxcfs::lock are never spent below zero.
THEOREM LeaseTypes == LeaseSpec => []LeaseTypeOK
  <1>1. LeaseInv => LeaseTypeOK
    BY DEF LeaseInv
  <1> QED BY <1>1, LeaseInitHolds, LeaseStepKeeps, PTL DEF LeaseSpec

\* measure-cap floods one at a time: no sequence of deaths, reclaims and failed
\* releases gives the lease of Pmxcfs::lock to two measurers.
THEOREM FloodsAlone == LeaseSpec => []OneFlood
  <1>1. LeaseInv => OneFlood
    BY DEF LeaseInv
  <1> QED BY <1>1, LeaseInitHolds, LeaseStepKeeps, PTL DEF LeaseSpec

-----------------------------------------------------------------------------
(* What is read of a member.  The member changes while it is read, so the  *)
(* argument says of every reading that it was true of a member that was    *)
(* seen since the gather began, and which step has taken it.               *)

PastReach   == {"default", "report"}
PastLinks   == {"reach"} \cup PastReach
PastSpeeds  == {"links"} \cup PastLinks
PastShape   == {"speeds"} \cup PastSpeeds
PastMarks   == {"shape"} \cup PastShape
PastRow     == {"marks"} \cup PastMarks
PastReturn  == {"workload"} \cup PastRow
PastPosture == {"return-path"} \cup PastReturn
PastAbsent  == {"posture"} \cup PastPosture
PastDoc     == {"absent"} \cup PastAbsent
PastCustody == {"doc"} \cup PastDoc
PastBegin   == {"custody"} \cup PastCustody
Places      == {"run", "gather", "done"} \cup PastBegin

\* The members seen are of one kind, and a fault that stood stood in all of them.
SeenOK ==
    /\ stPc \in Places /\ asker \in {"status", "supervisor"} /\ waited \in Nat
    /\ stPc = "gather" => asker = "status"
    /\ host \in Hosts /\ host \in ever /\ ever \subseteq Hosts
    /\ \A h \in ever : through \subseteq h.bad /\ h.kind = host.kind
    /\ wireGone \in BOOLEAN /\ broken \in BOOLEAN /\ applied \in BOOLEAN

\* Two members that were seen, and no third, are one change apart.
OneApart == \A g, h \in ever : ever = {g, h} /\ g # h => h \in Changes(g) \/ g \in Changes(h)

\* The supervisor's document is the one of a member that was seen.
DocumentOf(c, h) ==
    /\ c.answers = TRUE /\ c.engine = h.engine /\ c.probed = h.probed /\ c.gw = h.gwProbed
    /\ c.bad = h.bad \cap Told

CompsRead == comps = Silent \/ \E h \in ever : DocumentOf(comps, h)

\* So is the engine's, and a wire's absence.
DocRead  == stPc \in PastDoc /\ applied => \E h \in ever : engineDoc = EngineAnswer(h)
WireRead == stPc \in PastAbsent /\ applied => \E h \in ever : wireGone = ("wire" \in h.bad)

\* Two members a change apart: one fault at most, or the run directory alone, tells them
\* apart where a gather puts readings together.
SameButApplied(g, h) ==
    /\ g.bad = h.bad /\ g.engine = h.engine /\ g.down = h.down /\ g.near = h.near /\ g.bond = h.bond
    /\ g.gwProbed = h.gwProbed /\ g.default = h.default /\ g.kind = h.kind

SameButFault(g, h, f) == \A x : x # f => (x \in g.bad <=> x \in h.bad)

Beside(g, h) == SameButApplied(g, h) \/ (g.applied = h.applied /\ \E f \in Plain : SameButFault(g, h, f))

\* A change leaves a member of the same kind, beside the one it was.
LEMMA ChangeTyped ==
    ASSUME NEW h \in Hosts, NEW g \in Changes(h)
    PROVE  g \in Hosts /\ g.kind = h.kind /\ Beside(g, h)
  <1> DEFINE Ways ==
      \/ \E f \in Plain \ {"wire"} : g = [h EXCEPT !.bad = Toggled(@, f)]
      \/ g = WireToggled(h)
      \/ g \in {[h EXCEPT !.applied = ~@], [h EXCEPT !.answers = ~@], [h EXCEPT !.near = ~@]}
      \/ \E e \in {"running", "restarting"} : g = [h EXCEPT !.engine = e]
      \/ \E x \in {"bfdd", "other", "other-v6"} : g = [h EXCEPT !.holders = Toggled(@, x)]
      \/ \E l \in SegLegs : g = [h EXCEPT !.down = Toggled(@, l)]
      \/ \E r \in SegLegs \cup {"bond", "none"} : g = [h EXCEPT !.route = r]
      \/ g \in {[h EXCEPT !.bond.readable = ~@], [h EXCEPT !.bond.carrier = ~@],
                [h EXCEPT !.gw.readable = ~@], [h EXCEPT !.vms = 1 - @], [h EXCEPT !.counts = 1]}
      \/ \E x \in {"home", "backup", "none"} : g = [h EXCEPT !.gw.active = x]
      \/ \E x \in {"heard", "suspect", "dark"} : g = [h EXCEPT !.gwProbed.home = x]
      \/ g = [h EXCEPT !.gwProbed.home = "dark", !.gwProbed.backup = "dark"]
      \/ \E x \in {"fabric", "floor", "none"} : g = [h EXCEPT !.default = x]
      \/ \E x \in {"up", "down"} : g = [h EXCEPT !.bond.mii = x]
      \/ \E x \in {"home", "backup", "foreign", "none"} : g = [h EXCEPT !.bond.active = x]
      \/ \E x \in {"heard", "suspect", "dark"} : g = [h EXCEPT !.probed.home = x]
      \/ \E x \in {"heard", "dark"} : g = [h EXCEPT !.probed.backup = x]
      \/ g = [h EXCEPT !.probed.quiet = ~@]
  <1>0. Ways
    BY ZenonT(60) DEF Changes
  <1>a. ASSUME g.applied = h.applied, g.bad = h.bad
        PROVE  Beside(g, h)
    BY <1>a DEF Beside, SameButFault, Plain, Lasting
  <1>1. CASE \E f \in Plain \ {"wire"} : g = [h EXCEPT !.bad = Toggled(@, f)]
    <2>1. PICK f \in Plain \ {"wire"} : g = [h EXCEPT !.bad = Toggled(@, f)]
      BY <1>1
    <2>2. g \in Hosts /\ g.kind = h.kind /\ g.applied = h.applied /\ SameButFault(g, h, f)
      BY <2>1 DEF Hosts, Toggled, SameButFault
    <2> QED BY <2>2 DEF Beside
  <1>2. CASE g = WireToggled(h)
    <2>1. "wire" \in Plain
      BY DEF Plain, Lasting
    <2>2. g \in Hosts /\ g.kind = h.kind /\ g.applied = h.applied /\ SameButFault(g, h, "wire")
      BY <1>2, <2>1 DEF Hosts, WireToggled, Bonds, SameButFault
    <2> QED BY <2>1, <2>2 DEF Beside
  <1>3. CASE \E e \in {"running", "restarting"} : g = [h EXCEPT !.engine = e]
    BY <1>3, <1>a DEF Hosts
  <1>4. CASE \E x \in {"bfdd", "other", "other-v6"} : g = [h EXCEPT !.holders = Toggled(@, x)]
    BY <1>4, <1>a DEF Hosts, Toggled
  <1>5. CASE \E l \in SegLegs : g = [h EXCEPT !.down = Toggled(@, l)]
    BY <1>5, <1>a DEF Hosts, Toggled
  <1>6. CASE \E r \in SegLegs \cup {"bond", "none"} : g = [h EXCEPT !.route = r]
    BY <1>6, <1>a DEF Hosts
  <1>7. CASE \E x \in {"home", "backup", "none"} : g = [h EXCEPT !.gw.active = x]
    BY <1>7, <1>a DEF Hosts, Bonds
  <1>8. CASE \E x \in {"heard", "suspect", "dark"} : g = [h EXCEPT !.gwProbed.home = x]
    <2>1. PICK x \in {"heard", "suspect", "dark"} : g = [h EXCEPT !.gwProbed.home = x]
      BY <1>8
    <2> QED BY <2>1, <1>a DEF Hosts, Probes
  <1>9. CASE g = [h EXCEPT !.gwProbed.home = "dark", !.gwProbed.backup = "dark"]
    BY <1>9, <1>a DEF Hosts, Probes
  <1>10. CASE \E x \in {"fabric", "floor", "none"} : g = [h EXCEPT !.default = x]
    BY <1>10, <1>a DEF Hosts
  <1>11. CASE \E x \in {"up", "down"} : g = [h EXCEPT !.bond.mii = x]
    BY <1>11, <1>a DEF Hosts, Bonds
  <1>12. CASE \E x \in {"home", "backup", "foreign", "none"} : g = [h EXCEPT !.bond.active = x]
    BY <1>12, <1>a DEF Hosts, Bonds
  <1>13. CASE \E x \in {"heard", "suspect", "dark"} : g = [h EXCEPT !.probed.home = x]
    <2>1. PICK x \in {"heard", "suspect", "dark"} : g = [h EXCEPT !.probed.home = x]
      BY <1>13
    <2> QED BY <2>1, <1>a DEF Hosts, Probes
  <1>14. CASE \E x \in {"heard", "dark"} : g = [h EXCEPT !.probed.backup = x]
    <2>1. PICK x \in {"heard", "dark"} : g = [h EXCEPT !.probed.backup = x]
      BY <1>14
    <2> QED BY <2>1, <1>a DEF Hosts, Probes
  <1>15. CASE g = [h EXCEPT !.probed.quiet = ~@]
    BY <1>15, <1>a DEF Hosts, Probes
  <1>16. CASE g \in {[h EXCEPT !.applied = ~@], [h EXCEPT !.answers = ~@], [h EXCEPT !.near = ~@]}
    <2>1. CASE g = [h EXCEPT !.applied = ~@]
      BY <2>1 DEF Hosts, Beside, SameButApplied
    <2>2. CASE g \in {[h EXCEPT !.answers = ~@], [h EXCEPT !.near = ~@]}
      BY <2>2, <1>a DEF Hosts
    <2> QED BY <1>16, <2>1, <2>2, Zenon
  <1>17. CASE g \in {[h EXCEPT !.bond.readable = ~@], [h EXCEPT !.bond.carrier = ~@],
              [h EXCEPT !.gw.readable = ~@], [h EXCEPT !.vms = 1 - @], [h EXCEPT !.counts = 1]}
    <2>1. CASE g \in {[h EXCEPT !.vms = 1 - @], [h EXCEPT !.counts = 1]}
      BY <2>1, <1>a DEF Hosts
    <2>2. CASE g = [h EXCEPT !.bond.readable = ~@]
      BY <2>2, <1>a DEF Hosts, Bonds
    <2>3. CASE g = [h EXCEPT !.bond.carrier = ~@]
      BY <2>3, <1>a DEF Hosts, Bonds
    <2>4. CASE g = [h EXCEPT !.gw.readable = ~@]
      BY <2>4, <1>a DEF Hosts, Bonds
    <2> QED BY <1>17, <2>1, <2>2, <2>3, <2>4, Zenon
  <1> QED
    BY <1>0, <1>1, <1>2, <1>3, <1>4, <1>5, <1>6, <1>7, <1>8, <1>9, <1>10, <1>11, <1>12, <1>13, <1>14, <1>15, <1>16,
       <1>17, SMT

\* What the gather took down is true of members that were seen: the run directory, ...
AppliedRead ==
    /\ stPc \in PastBegin \ {"report"} => applied
    /\ stPc \in PastBegin => \E h \in ever : applied = h.applied
    /\ stPc = "report" /\ ~applied => seen = Nothing /\ rowState = "none" /\ engineDoc = Silent
    /\ stPc \in PastBegin /\ asker = "supervisor" => comps # Silent

\* ... the row, ...
RowRead ==
    /\ stPc \in PastReturn /\ applied => \E h \in ever : broken = ("sibling" \in h.bad)
    /\ stPc \in PastRow /\ applied => \E b, h \in ever : rowState = RowNow(h, comps, "sibling" \in b.bad)

\* ... the legs, the session and the default.
Fields == {"fallback", "ingress", "bgp", "sent", "vms", "drops", "default", "why"}

IngressRead ==
    /\ stPc \in PastBegin \ PastReturn => seen.ingress = Silent
    /\ stPc \in PastReturn => seen.ingress = Silent \/ \E h \in ever : seen.ingress = IngressLeg(h, comps, wireGone)
    /\ stPc \in PastReturn /\ applied /\ host.kind # "leaf" =>
          /\ \E h \in ever : seen.ingress = IngressLeg(h, comps, wireGone)
          /\ seen.bgp = IF ~engineDoc.answers THEN "unread"
                        ELSE IF Says(engineDoc, "bgp") THEN "Idle" ELSE "Established"

FallbackRead ==
    stPc \in PastLinks /\ applied => \E h \in ever : seen.fallback = FallbackLeg(h, comps, wireGone)

DefaultRead ==
    stPc = "report" /\ applied =>
        /\ \E h \in ever : seen.default = h.default
        /\ seen.why = "no-gw-zone" <=> host.kind = "leaf"

LegsRead == DOMAIN seen = Fields /\ IngressRead /\ FallbackRead /\ DefaultRead

ReadInv ==
    SeenOK /\ OneApart /\ CompsRead /\ DocRead /\ WireRead /\ AppliedRead /\ RowRead /\ LegsRead

\* The places of a gather, in their order.
LEMMA PlacesApart ==
    /\ PastReach = {"default", "report"}
    /\ PastLinks = {"reach", "default", "report"}
    /\ PastSpeeds = {"links", "reach", "default", "report"}
    /\ PastShape = {"speeds", "links", "reach", "default", "report"}
    /\ PastMarks = {"shape", "speeds", "links", "reach", "default", "report"}
    /\ PastRow = {"marks", "shape", "speeds", "links", "reach", "default", "report"}
    /\ PastReturn = {"workload", "marks", "shape", "speeds", "links", "reach", "default", "report"}
    /\ PastPosture = {"return-path", "workload", "marks", "shape", "speeds", "links", "reach", "default", "report"}
    /\ PastAbsent = {"posture", "return-path", "workload", "marks", "shape", "speeds", "links", "reach", "default",
                     "report"}
    /\ PastDoc = {"absent", "posture", "return-path", "workload", "marks", "shape", "speeds", "links", "reach",
                  "default", "report"}
    /\ PastCustody = {"doc", "absent", "posture", "return-path", "workload", "marks", "shape", "speeds", "links",
                      "reach", "default", "report"}
    /\ PastBegin = {"custody", "doc", "absent", "posture", "return-path", "workload", "marks", "shape", "speeds",
                    "links", "reach", "default", "report"}
    /\ Places = {"run", "gather", "done", "custody", "doc", "absent", "posture", "return-path", "workload", "marks",
                 "shape", "speeds", "links", "reach", "default", "report"}
  BY DEF PastReach, PastLinks, PastSpeeds, PastShape, PastMarks, PastRow, PastReturn, PastPosture, PastAbsent,
         PastDoc, PastCustody, PastBegin, Places

\* The steps that read, and leave the rest of the member alone.
ReadingStep ==
    \/ DeclarationNote \/ BfdPort \/ EngineState \/ AbsentIfs \/ Posture \/ ReturnPath \/ WorkloadPosture
    \/ MarkDrift \/ ShapePosture \/ LinkSpeeds \/ Links \/ Reachability \/ ReadHostDefault

\* A reading step looks at the member and leaves it and the last report alone.
LEMMA ReadsKeep ==
    ASSUME ReadingStep
    PROVE  UNCHANGED <<host, moves, asker, waited, comps, through, ever, applied, report, page, failures>>
  BY DEF ReadingStep, DeclarationNote, BfdPort, EngineState, AbsentIfs, Posture, ReturnPath, WorkloadPosture,
         MarkDrift, ShapePosture, LinkSpeeds, Links, Reachability, ReadHostDefault, reading, kept

\* The members seen stay of one kind.
LEMMA SeenStep ==
    ASSUME SeenOK, StatusNext
    PROVE  SeenOK'
  <1>1. CASE ReadingStep
    <2>1. UNCHANGED <<host, asker, waited, through, ever, applied>>
      BY <1>1, ReadsKeep
    <2>2. stPc' \in Places /\ (stPc' = "gather" => asker = "status")
      BY <1>1, PlacesApart
      DEF ReadingStep, DeclarationNote, BfdPort, EngineState, AbsentIfs, Posture, ReturnPath, WorkloadPosture,
          MarkDrift, ShapePosture, LinkSpeeds, Links, Reachability, ReadHostDefault
    <2>3. wireGone' = wireGone \/ wireGone' = ("wire" \in host.bad)
      BY <1>1
      DEF ReadingStep, DeclarationNote, BfdPort, EngineState, AbsentIfs, Posture, ReturnPath, WorkloadPosture,
          MarkDrift, ShapePosture, LinkSpeeds, Links, Reachability, ReadHostDefault
    <2>4. broken' = broken \/ broken' = ("sibling" \in host.bad)
      BY <1>1
      DEF ReadingStep, DeclarationNote, BfdPort, EngineState, AbsentIfs, Posture, ReturnPath, WorkloadPosture,
          MarkDrift, ShapePosture, LinkSpeeds, Links, Reachability, ReadHostDefault
    <2>5. wireGone' \in BOOLEAN /\ broken' \in BOOLEAN
      <3>1. ("wire" \in host.bad) \in BOOLEAN /\ ("sibling" \in host.bad) \in BOOLEAN
        OBVIOUS
      <3> QED BY <2>3, <2>4, <3>1, Zenon DEF SeenOK
    <2> QED BY <2>1, <2>2, <2>5 DEF SeenOK
  <1>2. CASE Gather \/ Snapshot
    BY <1>2, PlacesApart DEF SeenOK, Gather, Snapshot, Begin, Hosts
  <1>3. CASE Report \/ Publish \/ GatherFails
    <2>1. /\ UNCHANGED <<host, asker, wireGone, broken, through, ever, applied>>
          /\ stPc' = "done" \/ (stPc' = "gather" /\ asker = "status")
          /\ waited' \in {waited, waited + 1}
      <3>1. CASE Report
        BY <3>1 DEF Report
      <3>2. CASE Publish
        BY <3>2 DEF Publish
      <3>3. CASE GatherFails
        BY <3>3 DEF GatherFails
      <3> QED BY <1>3, <3>1, <3>2, <3>3
    <2> QED BY <2>1, PlacesApart DEF SeenOK
  <1>4. CASE Again
    <2>1. /\ UNCHANGED host /\ ever' = {host} /\ through' = host.bad /\ stPc' = "run" /\ waited' = 0
          /\ asker' \in {"status", "supervisor"} /\ wireGone' = FALSE /\ broken' = FALSE /\ applied' = FALSE
      BY <1>4 DEF Again
    <2> QED BY <2>1, PlacesApart DEF SeenOK
  <1>5. CASE HostMoves
    <2>1. PICK h \in Changes(host) \ {host} : host' = h /\ through' = through \cap h.bad /\ ever' = ever \cup {h}
      BY <1>5 DEF HostMoves
    <2>2. h \in Hosts /\ h.kind = host.kind
      BY <2>1, ChangeTyped DEF SeenOK
    <2>3. UNCHANGED <<asker, stPc, waited, wireGone, broken, applied>>
      BY <1>5 DEF HostMoves
    <2> QED BY <2>1, <2>2, <2>3 DEF SeenOK
  <1> QED BY <1>1, <1>2, <1>3, <1>4, <1>5 DEF StatusNext, ReadingStep

\* The member changes: it is seen too.
LEMMA MovesKeep ==
    ASSUME HostMoves
    PROVE  /\ host' \in Changes(host) /\ host' # host /\ ever' = ever \cup {host'} /\ through' = through \cap host'.bad
           /\ UNCHANGED <<asker, stPc, waited, comps, engineDoc, wireGone, reasons, broken, rowState, applied, seen,
                          report, page, failures>>
  BY DEF HostMoves

\* A gather ends.
Ends == Report \/ Publish \/ GatherFails

\* The end of a gather leaves the member and what the gather read of it as they were.
LEMMA EndsKeep ==
    ASSUME Ends
    PROVE  /\ UNCHANGED <<host, asker, comps, engineDoc, wireGone, reasons, broken, rowState, through, ever, applied,
                          seen>>
           /\ stPc' \in {"done", "gather"}
  BY DEF Ends, Report, Publish, GatherFails

\* A gather begins, on the member as it is.
Begins == Gather \/ Snapshot

\* The start of a gather leaves the member and every earlier answer as they were, forgets what the last one read,
\* and holds at most the declaration reason.
LEMMA BeginsFresh ==
    ASSUME Begins, SeenOK
    PROVE  /\ UNCHANGED <<host, asker, waited, report, page, failures>>
           /\ ever' = {host} /\ through' = host.bad /\ applied' = host.applied
           /\ stPc' = IF host.applied THEN "custody" ELSE "report"
           /\ engineDoc' = Silent /\ wireGone' = FALSE /\ broken' = FALSE /\ rowState' = "none" /\ seen' = Nothing
           /\ comps' = Silent \/ comps' = Components(host)
           /\ asker = "supervisor" => comps' = Components(host)
           /\ asker = "status" /\ host.applied /\ host.answers => comps' = Components(host)
           /\ reasons' \subseteq Standing({"declaration"})
           /\ asker = "supervisor" => reasons' = {}
  <1>1. CASE Gather
    <2>1. asker = "status"
      BY <1>1 DEF Gather, SeenOK
    <2> QED BY <1>1, <2>1 DEF Gather, Begin
  <1>2. CASE Snapshot
    BY <1>2 DEF Snapshot, Begin
  <1> QED BY <1>1, <1>2 DEF Begins

\* The next one asks afresh.
LEMMA AgainFresh ==
    ASSUME Again
    PROVE  /\ UNCHANGED host /\ ever' = {host} /\ through' = host.bad /\ stPc' = "run" /\ waited' = 0
           /\ comps' = Silent /\ engineDoc' = Silent /\ wireGone' = FALSE /\ broken' = FALSE /\ rowState' = "none"
           /\ seen' = Nothing /\ reasons' = {} /\ applied' = FALSE
           /\ (UNCHANGED <<report, page>>) \/ (report' = Unprinted /\ page' = Unserved)
  BY DEF Again

\* Two members alone are one change apart.
LEMMA ApartStep ==
    ASSUME SeenOK, OneApart, StatusNext
    PROVE  OneApart'
  <1>1. CASE ReadingStep \/ Ends
    BY <1>1, ReadsKeep, EndsKeep DEF OneApart
  <1>2. CASE Begins \/ Again
    BY <1>2, BeginsFresh, AgainFresh DEF OneApart
  <1>3. CASE HostMoves
    <2>1. /\ host' \in Changes(host) /\ host' # host /\ ever' = ever \cup {host'} /\ host \in ever
      BY <1>3, MovesKeep DEF SeenOK
    <2>2. SUFFICES ASSUME NEW g \in ever', NEW h \in ever', ever' = {g, h}, g # h
                   PROVE  h \in Changes(g) \/ g \in Changes(h)
      BY DEF OneApart
    <2> QED BY <2>1, <2>2
  <1> QED BY <1>1, <1>2, <1>3 DEF StatusNext, ReadingStep, Ends, Begins

\* The documents and the wire were those of a member that was seen.
LEMMA DocsStep ==
    ASSUME SeenOK, CompsRead, DocRead, WireRead, AppliedRead, StatusNext
    PROVE  CompsRead' /\ DocRead' /\ WireRead' /\ AppliedRead'
  <1>1. CASE ReadingStep
    <2>1. UNCHANGED <<host, comps, ever, applied, asker>> /\ host \in ever
      BY <1>1, ReadsKeep DEF SeenOK
    <2>2. CompsRead'
      BY <2>1 DEF CompsRead, DocumentOf
    <2>3. DocRead'
      BY <1>1, <2>1, PlacesApart
      DEF DocRead, ReadingStep, DeclarationNote, BfdPort, EngineState, AbsentIfs, Posture, ReturnPath, WorkloadPosture,
          MarkDrift, ShapePosture, LinkSpeeds, Links, Reachability, ReadHostDefault
    <2>4. WireRead'
      BY <1>1, <2>1, PlacesApart
      DEF WireRead, ReadingStep, DeclarationNote, BfdPort, EngineState, AbsentIfs, Posture, ReturnPath, WorkloadPosture,
          MarkDrift, ShapePosture, LinkSpeeds, Links, Reachability, ReadHostDefault
    <2>5. AppliedRead'
      <3>1. (stPc = "run" /\ stPc' = "gather") \/ stPc \in PastBegin \ {"report"}
        BY <1>1, PlacesApart
        DEF ReadingStep, DeclarationNote, BfdPort, EngineState, AbsentIfs, Posture, ReturnPath, WorkloadPosture,
            MarkDrift, ShapePosture, LinkSpeeds, Links, Reachability, ReadHostDefault
      <3> QED BY <2>1, <3>1, PlacesApart DEF AppliedRead
    <2> QED BY <2>2, <2>3, <2>4, <2>5
  <1>2. CASE Ends
    <2>1. /\ UNCHANGED <<host, asker, comps, engineDoc, wireGone, ever, applied>>
          /\ stPc' \notin PastBegin /\ stPc' \notin PastDoc /\ stPc' \notin PastAbsent /\ stPc' # "report"
      BY <1>2, EndsKeep, PlacesApart
    <2> QED BY <2>1, PlacesApart DEF CompsRead, DocumentOf, DocRead, WireRead, AppliedRead
  <1>3. CASE Begins
    <2>1. CompsRead'
      <3>1. comps' = Silent \/ DocumentOf(comps', host)
        BY <1>3, BeginsFresh DEF DocumentOf, Components
      <3> QED BY <3>1, <1>3, BeginsFresh DEF CompsRead, DocumentOf
    <2>2. DocRead' /\ WireRead'
      BY <1>3, BeginsFresh, PlacesApart DEF DocRead, WireRead, SeenOK, Hosts
    <2>3. Components(host) # Silent
      BY DEF Components, Silent
    <2>4. AppliedRead'
      BY <1>3, <2>3, BeginsFresh, PlacesApart DEF AppliedRead, SeenOK, Hosts
    <2> QED BY <2>1, <2>2, <2>4
  <1>4. CASE Again
    BY <1>4, AgainFresh, PlacesApart DEF CompsRead, DocRead, WireRead, AppliedRead
  <1>5. CASE HostMoves
    <2>1. ever' = ever \cup {host'} /\ UNCHANGED <<asker, stPc, comps, engineDoc, wireGone, rowState, applied, seen>>
      BY <1>5, MovesKeep
    <2>2. CompsRead'
      BY <2>1 DEF CompsRead, DocumentOf
    <2>3. DocRead'
      BY <2>1 DEF DocRead
    <2>4. WireRead'
      BY <2>1 DEF WireRead
    <2>5. AppliedRead'
      BY <2>1 DEF AppliedRead
    <2> QED BY <2>2, <2>3, <2>4, <2>5
  <1> QED BY <1>1, <1>2, <1>3, <1>4, <1>5 DEF StatusNext, ReadingStep, Ends, Begins

\* The row was that of members that were seen.
LEMMA RowStep ==
    ASSUME SeenOK, RowRead, AppliedRead, StatusNext
    PROVE  RowRead'
  <1>1. CASE ReadingStep
    <2>1. UNCHANGED <<comps, ever, applied>> /\ host \in ever
      BY <1>1, ReadsKeep DEF SeenOK
    <2>2. CASE ReturnPath
      BY <2>1, <2>2, PlacesApart DEF RowRead, ReturnPath
    <2>3. CASE WorkloadPosture
      <3>1. UNCHANGED broken /\ rowState' = RowNow(host, comps, broken) /\ stPc = "workload"
        BY <2>3 DEF WorkloadPosture
      <3>2. applied => \E b \in ever : broken = ("sibling" \in b.bad)
        BY <3>1, PlacesApart DEF RowRead
      <3> QED BY <2>1, <3>1, <3>2 DEF RowRead
    <2>4. CASE ~ReturnPath /\ ~WorkloadPosture
      <3>1. /\ UNCHANGED <<broken, rowState>>
            /\ stPc' \in PastReturn => stPc \in PastReturn
            /\ stPc' \in PastRow => stPc \in PastRow
        BY <1>1, <2>4, PlacesApart
        DEF ReadingStep, DeclarationNote, BfdPort, EngineState, AbsentIfs, Posture,
            MarkDrift, ShapePosture, LinkSpeeds, Links, Reachability, ReadHostDefault
      <3> QED BY <2>1, <3>1 DEF RowRead
    <2> QED BY <2>2, <2>3, <2>4
  <1>2. CASE Ends
    BY <1>2, EndsKeep, PlacesApart DEF RowRead
  <1>3. CASE Begins
    <2>1. (stPc' \in PastReturn \/ stPc' \in PastRow) => ~applied'
      BY <1>3, BeginsFresh, PlacesApart
    <2> QED BY <2>1, PlacesApart DEF RowRead
  <1>4. CASE Again
    BY <1>4, AgainFresh, PlacesApart DEF RowRead
  <1>5. CASE HostMoves
    <2>1. ever' = ever \cup {host'} /\ UNCHANGED <<stPc, comps, broken, rowState, applied>>
      BY <1>5, MovesKeep
    <2> QED BY <2>1 DEF RowRead
  <1> QED BY <1>1, <1>2, <1>3, <1>4, <1>5 DEF StatusNext, ReadingStep, Ends, Begins

\* A model before anything was read has every field.
LEMMA NothingRead == DOMAIN Nothing = Fields /\ Nothing.ingress = Silent
  BY DEF Nothing, Fields

\* The legs, the session and the default were those of members that were seen.
LEMMA LegsStep ==
    ASSUME SeenOK, LegsRead, AppliedRead, StatusNext
    PROVE  LegsRead'
  <1>1. CASE ReadingStep
    <2>1. UNCHANGED <<host, comps, ever, applied>> /\ host \in ever
      BY <1>1, ReadsKeep DEF SeenOK
    <2>2. CASE ReturnPath
      <3>1. stPc = "return-path" /\ stPc' = "workload" /\ UNCHANGED <<engineDoc, wireGone>>
        BY <2>2 DEF ReturnPath
      <3>2. seen.ingress = Silent /\ DOMAIN seen = Fields
        BY <3>1, PlacesApart DEF LegsRead, IngressRead
      <3>3. CASE host.kind = "leaf"
        <4>1. seen' = seen
          BY <2>2, <3>3 DEF ReturnPath
        <4> QED BY <2>1, <3>1, <3>2, <3>3, <4>1, PlacesApart DEF LegsRead, IngressRead, FallbackRead, DefaultRead
      <3>4. CASE host.kind # "leaf"
        <4>1. /\ DOMAIN seen' = Fields /\ seen'.ingress = IngressLeg(host, comps, wireGone)
              /\ seen'.bgp = IF ~engineDoc.answers THEN "unread"
                             ELSE IF Says(engineDoc, "bgp") THEN "Idle" ELSE "Established"
          BY <2>2, <3>2, <3>4 DEF ReturnPath, Fields
        <4> QED BY <2>1, <3>1, <3>4, <4>1, PlacesApart DEF LegsRead, IngressRead, FallbackRead, DefaultRead
      <3> QED BY <3>3, <3>4
    <2>3. CASE WorkloadPosture
      <3>1. stPc = "workload" /\ stPc' = "marks" /\ UNCHANGED <<engineDoc, wireGone>>
        BY <2>3 DEF WorkloadPosture
      <3>2. DOMAIN seen' = Fields /\ seen'.ingress = seen.ingress /\ seen'.bgp = seen.bgp
        BY <2>3 DEF WorkloadPosture, RowCounts, LegsRead, Fields
      <3> QED BY <2>1, <3>1, <3>2, PlacesApart DEF LegsRead, IngressRead, FallbackRead, DefaultRead
    <2>4. CASE Links
      <3>1. stPc = "links" /\ stPc' = "reach" /\ UNCHANGED <<engineDoc, wireGone>>
        BY <2>4 DEF Links
      <3>2. /\ DOMAIN seen' = Fields /\ seen'.ingress = seen.ingress /\ seen'.bgp = seen.bgp
            /\ seen'.fallback = FallbackLeg(host, comps, wireGone)
        BY <2>4 DEF Links, LegsRead, Fields
      <3> QED BY <2>1, <3>1, <3>2, PlacesApart DEF LegsRead, IngressRead, FallbackRead, DefaultRead
    <2>5. CASE ReadHostDefault
      <3>1. stPc = "default" /\ stPc' = "report" /\ UNCHANGED <<engineDoc, wireGone>>
        BY <2>5 DEF ReadHostDefault
      <3>2. /\ DOMAIN seen' = Fields /\ seen'.ingress = seen.ingress /\ seen'.bgp = seen.bgp
            /\ seen'.fallback = seen.fallback /\ seen'.default = host.default /\ seen'.why = WhyNot
        BY <2>5 DEF ReadHostDefault, LegsRead, Fields
      <3>3. WhyNot = "no-gw-zone" <=> host.kind = "leaf"
        BY DEF WhyNot
      <3> QED BY <2>1, <3>1, <3>2, <3>3, PlacesApart DEF LegsRead, IngressRead, FallbackRead, DefaultRead
    <2>6. CASE ~ReturnPath /\ ~WorkloadPosture /\ ~Links /\ ~ReadHostDefault
      <3>1. /\ seen' = seen /\ stPc' # "report"
            /\ stPc' \in PastReturn => stPc \in PastReturn /\ UNCHANGED <<engineDoc, wireGone>>
            /\ stPc' \in PastBegin => stPc \in PastBegin
            /\ stPc' \in PastLinks => stPc \in PastLinks
        BY <1>1, <2>6, PlacesApart
        DEF ReadingStep, DeclarationNote, BfdPort, EngineState, AbsentIfs, Posture,
            MarkDrift, ShapePosture, LinkSpeeds, Reachability, reading
      <3>2. stPc' \in PastLinks => stPc' \in PastReturn
        BY PlacesApart
      <3>3. stPc' \in PastBegin \ PastReturn => stPc \in PastBegin \ PastReturn
        BY <1>1, <2>6, PlacesApart
        DEF ReadingStep, DeclarationNote, BfdPort, EngineState, AbsentIfs, Posture,
            MarkDrift, ShapePosture, LinkSpeeds, Reachability
      <3> QED BY <2>1, <3>1, <3>2, <3>3 DEF LegsRead, IngressRead, FallbackRead, DefaultRead
    <2> QED BY <2>2, <2>3, <2>4, <2>5, <2>6
  <1>2. CASE Ends
    BY <1>2, EndsKeep, PlacesApart DEF LegsRead, IngressRead, FallbackRead, DefaultRead
  <1>3. CASE Begins
    <2>1. seen' = Nothing /\ (stPc' \in PastReturn => ~applied')
      BY <1>3, BeginsFresh, PlacesApart
    <2> QED BY <2>1, NothingRead, PlacesApart DEF LegsRead, IngressRead, FallbackRead, DefaultRead
  <1>4. CASE Again
    BY <1>4, AgainFresh, NothingRead, PlacesApart DEF LegsRead, IngressRead, FallbackRead, DefaultRead
  <1>5. CASE HostMoves
    <2>1. /\ ever' = ever \cup {host'} /\ UNCHANGED <<stPc, comps, engineDoc, wireGone, seen, applied>>
          /\ host'.kind = host.kind
      BY <1>5, MovesKeep, ChangeTyped DEF SeenOK
    <2> QED BY <2>1 DEF LegsRead, IngressRead, FallbackRead, DefaultRead
  <1> QED BY <1>1, <1>2, <1>3, <1>4, <1>5 DEF StatusNext, ReadingStep, Ends, Begins

\* A gather begins with nothing read, of the member as it is.
LEMMA ReadStart == StatusInit => ReadInv
  <1> SUFFICES ASSUME StatusInit PROVE ReadInv
    OBVIOUS
  <1>1. /\ host \in Hosts /\ stPc = "run" /\ waited = 0 /\ comps = Silent /\ wireGone = FALSE /\ broken = FALSE
        /\ through = host.bad /\ ever = {host} /\ applied = FALSE /\ asker \in {"status", "supervisor"}
        /\ seen = Nothing
    BY SceneAssumption DEF StatusInit
  <1>2. SeenOK /\ OneApart
    BY <1>1, PlacesApart DEF SeenOK, OneApart
  <1>3. CompsRead /\ DocRead /\ WireRead /\ AppliedRead /\ RowRead
    BY <1>1, PlacesApart DEF CompsRead, DocRead, WireRead, AppliedRead, RowRead
  <1>4. LegsRead
    BY <1>1, NothingRead, PlacesApart DEF LegsRead, IngressRead, FallbackRead, DefaultRead
  <1> QED BY <1>2, <1>3, <1>4 DEF ReadInv

\* Whatever happens, every reading stays that of a member that was seen.
LEMMA ReadStep ==
    ASSUME ReadInv, [StatusNext]_statusVars
    PROVE  ReadInv'
  <1>1. CASE StatusNext
    BY <1>1, SeenStep, ApartStep, DocsStep, RowStep, LegsStep DEF ReadInv
  <1>2. CASE UNCHANGED statusVars
    BY <1>2
    DEF statusVars, ReadInv, SeenOK, OneApart, CompsRead, DocumentOf, DocRead, WireRead, AppliedRead, RowRead,
        LegsRead, IngressRead, FallbackRead, DefaultRead
  <1> QED BY <1>1, <1>2

-----------------------------------------------------------------------------
(* The verdict.  A fault that stood through the gather stood when the step *)
(* that looks for it looked; so either that step said that the fabric is   *)
(* settling, or the wire whose loss explains the fault was seen to be gone.*)

AtPosture == {"rp_filter", "forwarding", "leak-guard", "below-offset", "watchdog"}
AtReturn  == {"rule", "sibling", "no-default", "linkdown", "leg-address", "bgp", "nothing-sent"}
AtRow     == {"deferred", "no-leg", "no-address", "proxy_arp", "no-guard", "announcer"}
AtShape   == {"daemon", "no-record", "unshaped"}

\* The wait goes on.
Waits(S) == \E r \in S : r[1] = "settling"

\* Of these faults none that stood was missed.
Caught(S) ==
    \A f \in S : f \in through /\ f \in Concerns(host.kind) => f \in Accounted \/ Waits(reasons)

Escapes ==
    comps # Silent /\ applied =>
        /\ stPc \in PastDoc => engineDoc # Silent \/ Waits(reasons)
        /\ stPc \in PastPosture => Caught(AtPosture)
        /\ stPc \in PastReturn => Caught(AtReturn)
        /\ stPc \in PastRow => Caught(AtRow)
        /\ stPc \in PastShape => Caught(AtShape)
        /\ stPc \in PastLinks => /\ Caught({"detached"})
                                 /\ Waits(reasons) \/ (UpLegs(engineDoc) = SegLegs /\ TwoWay(engineDoc))
        /\ stPc \in PastReach => Caught({"pin"})

\* Of a member that did not change, the bond and the route too.
AtRest ==
    comps # Silent /\ applied /\ ever = {host} =>
        /\ stPc \in PastLinks => \/ Waits(reasons)
                                 \/ /\ host.bond.readable /\ host.bond.mii = "up"
                                    /\ Reach(host.probed) \notin {"AllDark", "Quiet"}
        /\ stPc \in PastReach => Waits(reasons) \/ host.route = First

\* What a step says it says for good.
LEMMA SettlingSays ==
    ASSUME NEW S, NEW x \in S
    PROVE  Waits(Settling(S)) /\ \A T : Waits(Settling(S) \cup T) /\ Waits(T \cup Settling(S))
  <1>1. <<"settling", "member", x>> \in Settling(S)
    BY DEF Settling
  <1> QED BY <1>1 DEF Waits

\* posture looks for its five faults.
LEMMA PostureSays ==
    ASSUME NEW h \in Hosts, NEW c, NEW d, NEW gone \in BOOLEAN, NEW f \in AtPosture, f \in h.bad,
           f \in Concerns(h.kind),
           f \in {"rp_filter", "forwarding"} => ~gone /\ "wire" \notin h.bad,
           f = "watchdog" => Says(c, f), f = "below-offset" => Says(d, f)
    PROVE  Waits(PostureReasons(h, c, d, gone))
  <1> DEFINE said == When(LegFile(h, gone, "rp_filter"), "rp_filter")
                     \cup CASE h.kind = "leaf"    -> LeafPosture(h, d, gone)
                            [] h.kind = "transit" -> TransitPosture(h, c, gone)
                            [] h.kind = "plain"   -> PlainPosture(h, gone)
  <1>1. h.kind \in {"transit", "plain", "leaf"}
    BY DEF Hosts
  <1>2. f \in said
    <2>1. CASE f = "rp_filter"
      BY <2>1 DEF LegFile, When
    <2>2. CASE f = "forwarding"
      BY <1>1, <2>2 DEF LegFile, When, LeafPosture, TransitPosture, PlainPosture
    <2>3. CASE f = "watchdog"
      BY <1>1, <2>3 DEF When, TransitPosture, Concerns, Plain
    <2>4. CASE f \in {"leak-guard", "below-offset"}
      BY <1>1, <2>4 DEF When, LeafPosture, Concerns, Plain
    <2> QED BY <2>1, <2>2, <2>3, <2>4 DEF AtPosture
  <1> QED BY <1>2, SettlingSays DEF PostureReasons

\* return_path_and_ingress looks for its seven.
LEMMA ReturnSays ==
    ASSUME NEW h \in Hosts, NEW c, NEW d, NEW gone \in BOOLEAN, NEW f \in AtReturn, f \in h.bad,
           f \in Concerns(h.kind), f \in {"bgp", "nothing-sent"} => Says(d, f)
    PROVE  Waits(ReturnReasons(h, c, d, gone))
  <1>1. h.kind \in {"transit", "plain", "leaf"}
    BY DEF Hosts
  <1>2. CASE f \in {"rule", "sibling"}
    BY <1>2, SettlingSays DEF ReturnReasons
  <1>3. CASE f \notin {"rule", "sibling"}
    <2> DEFINE said == (h.bad \cap {"no-default", "leg-address"})
                \cup When(h.kind = "transit" /\ "linkdown" \in h.bad /\ "no-default" \notin h.bad, "linkdown")
                \cup When(Says(d, "bgp"), "bgp")
                \cup When(Says(d, "nothing-sent") /\ ~Says(d, "bgp"), "nothing-sent")
    <2>1. h.kind # "leaf" /\ (f = "linkdown" => h.kind = "transit")
      BY <1>1, <1>3 DEF Concerns, Plain, AtReturn
    <2>2. \E x : x \in said
      <3>1. CASE f \in {"no-default", "leg-address"}
        BY <3>1
      <3>2. CASE f = "linkdown"
        BY <2>1, <3>2 DEF When
      <3>3. CASE f \in {"bgp", "nothing-sent"}
        BY <3>3 DEF When
      <3> QED BY <1>3, <3>1, <3>2, <3>3 DEF AtReturn
    <2>3. Waits(IngressReasons(h, d, IngressLeg(h, c, gone)))
      BY <2>2, SettlingSays DEF IngressReasons
    <2> QED BY <2>1, <2>3 DEF ReturnReasons, Waits
  <1> QED BY <1>2, <1>3

\* workload_posture looks for its six.
LEMMA RowSays ==
    ASSUME NEW h \in Hosts, NEW c, NEW f \in AtRow, f \in h.bad, f \in Concerns(h.kind), f = "announcer" => Says(c, f)
    PROVE  Waits(RowReasons(h, c))
  <1>1. h.kind \in {"transit", "plain", "leaf"}
    BY DEF Hosts
  <1>2. h.kind # "leaf"
    BY <1>1 DEF Concerns, AtRow, Plain
  <1>3. CASE "deferred" \in h.bad
    BY <1>2, <1>3, SettlingSays DEF RowReasons
  <1>4. CASE "deferred" \notin h.bad
    <2>1. \E x : x \in (RowFaults(h) \ {"uplink"}) \cup When(Says(c, "announcer"), "announcer")
      BY <1>4 DEF RowFaults, When, AtRow
    <2> QED BY <1>2, <1>4, <2>1, SettlingSays DEF RowReasons
  <1> QED BY <1>3, <1>4

\* shape_posture looks for its three.
LEMMA ShapeSays ==
    ASSUME NEW h \in Hosts, NEW c, NEW f \in AtShape, f \in h.bad, f \in Concerns(h.kind), f = "daemon" => Says(c, f)
    PROVE  Waits(ShapeReasons(h, c))
  <1>1. h.kind \in {"transit", "plain", "leaf"}
    BY DEF Hosts
  <1>2. h.kind # "leaf"
    BY <1>1 DEF Concerns, AtShape, Plain
  <1>3. CASE Says(c, "daemon") \/ "no-record" \in h.bad
    BY <1>2, <1>3, SettlingSays DEF ShapeReasons
  <1>4. CASE ~(Says(c, "daemon") \/ "no-record" \in h.bad)
    BY <1>2, <1>4, SettlingSays DEF ShapeReasons, AtShape
  <1> QED BY <1>3, <1>4

\* The adjacencies: one that is down, a bond that does not carry and a port that is off it.
LEMMA LinksSay ==
    ASSUME NEW h \in Hosts, NEW c, NEW d, NEW gone \in BOOLEAN,
           \/ ~(UpLegs(d) = SegLegs /\ TwoWay(d)) /\ UpLegs(d) \subseteq SegLegs
           \/ "detached" \in h.bad /\ ~gone
           \/ ~h.bond.readable \/ h.bond.mii # "up"
           \/ c.answers /\ Reach(c.probed) \in {"AllDark", "Quiet"}
    PROVE  Waits(LinkReasons(h, c, d, gone))
  <1> DEFINE leg == FallbackLeg(h, c, gone)
  <1>0. /\ leg.bond = h.bond.readable /\ leg.mii = h.bond.mii /\ leg.absent = When(gone, "home")
        /\ c.answers => leg.reach = Reach(c.probed)
    BY DEF FallbackLeg, LegRow
  <1> HIDE DEF leg
  <1>1. CASE ~(UpLegs(d) = SegLegs /\ TwoWay(d)) /\ UpLegs(d) \subseteq SegLegs
    <2>1. \E x : x \in (SegLegs \ UpLegs(d)) \cup When(~TwoWay(d), "bond")
      BY <1>1 DEF When
    <2> QED BY <2>1, SettlingSays DEF LinkReasons
  <1>2. CASE ~(~(UpLegs(d) = SegLegs /\ TwoWay(d)) /\ UpLegs(d) \subseteq SegLegs)
    <2>1. Waits(LegReasons(leg, h))
      <3>1. CASE ~leg.bond
        BY <3>1, SettlingSays DEF LegReasons
      <3>2. CASE leg.bond /\ leg.mii # "up"
        BY <3>2, SettlingSays DEF LegReasons, Waits
      <3>3. CASE leg.bond /\ leg.mii = "up" /\ leg.reach \in {"AllDark", "Quiet"}
        BY <3>3, SettlingSays DEF LegReasons, Waits
      <3>4. CASE leg.bond /\ "home" \notin leg.absent /\ "detached" \in h.bad
        <4>1. Waits(Settling(When("home" \notin leg.absent /\ "detached" \in h.bad, "detached")))
          BY <3>4, SettlingSays DEF When
        <4> QED BY <3>4, <4>1 DEF LegReasons, Waits
      <3> QED BY <1>0, <1>2, <3>1, <3>2, <3>3, <3>4 DEF When
    <2> QED BY <2>1 DEF LinkReasons, leg, Waits
  <1> QED BY <1>1, <1>2

\* While every leg is up the cheapest is the first.
LEMMA CheapestIsFirst ==
    ASSUME NEW near
    PROVE  CheapestLegs(SegLegs, near) = First /\ First \in SegLegs
  <1>1. Ladder \in Seq(STRING) /\ 1 \in DOMAIN Ladder
    BY StatusAssumption
  <1>2. DOMAIN Ladder \subseteq Nat \ {0}
    BY <1>1
  <1>3. Ladder[1] \in SegLegs /\ \A i \in DOMAIN Ladder : Ladder[i] \in SegLegs
    BY <1>1 DEF SegLegs
  <1> DEFINE Best(i) == Ladder[i] \in SegLegs /\ \A j \in 1..i - 1 : Ladder[j] \notin SegLegs
  <1>4. Best(1)
    BY <1>3
  <1>5. ASSUME NEW i \in DOMAIN Ladder, Best(i) PROVE i = 1
    <2>1. i \in Nat /\ i > 0
      BY <1>2
    <2>2. CASE i > 1
      <3>1. 1 \in 1..i - 1
        BY <2>1, <2>2
      <3> QED BY <1>3, <1>5, <3>1
    <2> QED BY <2>1, <2>2
  <1>6. (CHOOSE i \in DOMAIN Ladder : Best(i)) = 1
    BY <1>1, <1>4, <1>5
  <1> QED BY <1>3, <1>6 DEF CheapestLegs, First

\* The peer's route: one that is missing, or not by the cheapest leg, and a pin.
LEMMA RouteSays ==
    ASSUME NEW h \in Hosts, NEW d, UpLegs(d) = SegLegs, h.route # First \/ "pin" \in h.bad
    PROVE  Waits(RouteReasons(h, d))
  <1>1. CheapestLegs(UpLegs(d), TwoWay(d)) = First /\ First # "none"
    BY CheapestIsFirst, SceneAssumption
  <1>2. CASE h.route = "none"
    BY <1>1, <1>2, SettlingSays DEF RouteReasons
  <1>3. CASE h.route # "none"
    <2>1. \E x : x \in When(h.route # First, "route") \cup When("pin" \in h.bad, "pin")
      BY DEF When
    <2>2. Waits(Settling(When(h.route # First, "route") \cup When("pin" \in h.bad, "pin")))
      BY <2>1, SettlingSays
    <2> QED BY <1>1, <1>3, <2>2 DEF RouteReasons, Waits
  <1> QED BY <1>2, <1>3

\* Nobody but port_custody accuses.
Accused == <<"standing", "member", "port-held">>

\* None of the other checks of the status command gives the reason that a port is held by another process.
LEMMA NobodyElseAccuses ==
    ASSUME NEW h \in Hosts, NEW c, NEW d, NEW gone
    PROVE  Accused \notin EngineDown(h) \cup PostureReasons(h, c, d, gone) \cup ReturnReasons(h, c, d, gone)
                          \cup RowReasons(h, c) \cup MarkReasons(h) \cup ShapeReasons(h, c)
                          \cup SpeedReasons(h, gone) \cup LinkReasons(h, c, d, gone) \cup RouteReasons(h, d)
  <1>1. \A S : Accused \notin Settling(S)
    BY DEF Accused, Settling
  <1>2. \A S : Accused \in Standing(S) => "port-held" \in S
    BY DEF Accused, Standing
  <1>3. Accused \notin EngineDown(h) /\ Accused \notin PostureReasons(h, c, d, gone)
    BY <1>1, <1>2 DEF EngineDown, PostureReasons, When
  <1>4. Accused \notin ReturnReasons(h, c, d, gone)
    BY <1>1 DEF ReturnReasons, IngressReasons, Accused
  <1>5. Accused \notin RowReasons(h, c)
    BY <1>1, <1>2 DEF RowReasons, RowFaults
  <1>6. Accused \notin MarkReasons(h) /\ Accused \notin SpeedReasons(h, gone)
    BY <1>2 DEF MarkReasons, SpeedReasons
  <1>7. Accused \notin ShapeReasons(h, c)
    BY <1>1, <1>2 DEF ShapeReasons
  <1>8. Accused \notin LinkReasons(h, c, d, gone)
    <2> DEFINE leg == FallbackLeg(h, c, gone)
    <2>1. leg.active \in {"home", "backup", "foreign", "none"}
      BY DEF FallbackLeg, LegRow, Hosts, Bonds
    <2> HIDE DEF leg
    <2>2. Accused \notin SeatReasons(leg)
      BY <1>1, <1>2, <2>1 DEF SeatReasons
    <2>3. Accused \notin LegReasons(leg, h)
      BY <1>1, <1>2, <2>2 DEF LegReasons
    <2> QED BY <1>1, <2>3 DEF LinkReasons, leg
  <1>9. Accused \notin RouteReasons(h, d)
    BY <1>1, <1>2 DEF RouteReasons, When
  <1> QED BY <1>3, <1>4, <1>5, <1>6, <1>7, <1>8, <1>9

\* port_custody accuses only where another socket was seen, or another engine.
LEMMA CustodySound ==
    ASSUME NEW h \in Hosts, NEW g \in Hosts, NEW c, c = Silent \/ DocumentOf(c, g), Accused \in CustodyReasons(h, c)
    PROVE  h.holders # {} \/ g.engine # h.engine
  <1>1. Accuses(Bound(h, EngineSaid(c) = "running"), EngineSaid(c))
    BY DEF CustodyReasons, Standing, Accused, When
  <1>2. EngineSaid(c) \in {"unknown", g.engine}
    BY DEF EngineSaid, DocumentOf, Silent
  <1>3. h.holders = {} => Bound(h, EngineSaid(c) = "running") = When(h.engine = "running", "engine")
    BY DEF Bound
  <1> QED BY <1>1, <1>2, <1>3 DEF Accuses, When

\* A fault that stood is in the documents that tell of it.
LEMMA DocsSay ==
    ASSUME ReadInv, NEW f \in through
    PROVE  /\ comps # Silent /\ f \in Told => Says(comps, f)
           /\ stPc \in PastDoc /\ applied /\ engineDoc # Silent /\ f \in {"bgp", "nothing-sent", "below-offset"} =>
                 Says(engineDoc, f)
  <1>1. ASSUME comps # Silent, f \in Told PROVE Says(comps, f)
    <2>1. PICK h \in ever : DocumentOf(comps, h)
      BY <1>1 DEF ReadInv, CompsRead
    <2> QED BY <1>1, <2>1 DEF DocumentOf, Says, ReadInv, SeenOK
  <1>2. ASSUME stPc \in PastDoc, applied, engineDoc # Silent, f \in {"bgp", "nothing-sent", "below-offset"}
        PROVE  Says(engineDoc, f)
    <2>1. PICK h \in ever : engineDoc = EngineAnswer(h)
      BY <1>2 DEF ReadInv, DocRead
    <2>2. f \in h.bad
      BY <2>1 DEF ReadInv, SeenOK
    <2> QED BY <1>2, <2>1, <2>2 DEF EngineAnswer, Says
  <1> QED BY <1>1, <1>2

\* A wire that was found gone is the account of what it took.
LEMMA WireAccounts ==
    ASSUME ReadInv, stPc \in PastAbsent, applied, NEW f \in {"rp_filter", "forwarding", "detached"}, f \notin Accounted
    PROVE  ~wireGone /\ "wire" \notin host.bad
  <1>1. \A h \in ever : "wire" \notin h.bad
    BY DEF Accounted
  <1>2. PICK h \in ever : wireGone = ("wire" \in h.bad)
    BY DEF ReadInv, WireRead
  <1> QED BY <1>1, <1>2 DEF ReadInv, SeenOK

\* What was caught stays caught while faults only go and lines only come.
LEMMA CaughtKeeps ==
    ASSUME through' \subseteq through, ever \subseteq ever', host'.kind = host.kind, reasons \subseteq reasons'
    PROVE  /\ Waits(reasons) => Waits(reasons)'
           /\ \A S : Caught(S) => Caught(S)'
  BY DEF Caught, Waits, Accounted

\* The engine's document speaks of its own legs.
LEMMA UpAreLegs == ASSUME ReadInv, stPc \in PastDoc, applied PROVE UpLegs(engineDoc) \subseteq SegLegs
  <1>1. PICK h \in ever : engineDoc = EngineAnswer(h)
    BY DEF ReadInv, DocRead
  <1> QED BY <1>1 DEF EngineAnswer, UpLegs, Silent

\* Every reading step lets no fault escape.
LEMMA EscapesRead ==
    ASSUME ReadInv, Escapes, ReadingStep
    PROVE  Escapes'
  <1> SUFFICES ASSUME comps # Silent, applied
               PROVE  Escapes'
    BY ReadsKeep DEF Escapes
  <1>0. /\ UNCHANGED <<host, comps, through, ever, applied>> /\ host \in Hosts /\ host \in ever /\ wireGone \in BOOLEAN
        /\ through \subseteq host.bad
    BY ReadsKeep DEF ReadInv, SeenOK
  <1>a. Accounted' = Accounted
    BY <1>0 DEF Accounted
  <1>1. CASE DeclarationNote
    BY <1>1, PlacesApart DEF DeclarationNote, Escapes
  <1>2. CASE ~DeclarationNote
    <2>1. reasons \subseteq reasons'
      BY <1>2
      DEF ReadingStep, BfdPort, EngineState, AbsentIfs, Posture, ReturnPath, WorkloadPosture,
          MarkDrift, ShapePosture, LinkSpeeds, Links, Reachability, ReadHostDefault
    <2>2. /\ Waits(reasons) => Waits(reasons)'
          /\ \A S : Caught(S) => Caught(S)'
      BY <1>0, <2>1, CaughtKeeps
    <2>3. ~EngineState => UNCHANGED engineDoc
      BY <1>2
      DEF ReadingStep, BfdPort, EngineState, AbsentIfs, Posture, ReturnPath, WorkloadPosture,
          MarkDrift, ShapePosture, LinkSpeeds, Links, Reachability, ReadHostDefault
    <2>4. CASE BfdPort \/ AbsentIfs \/ MarkDrift \/ LinkSpeeds \/ ReadHostDefault
      <3>1. /\ \A S \in {PastDoc, PastPosture, PastReturn, PastRow, PastShape, PastLinks, PastReach} :
                  stPc' \in S => stPc \in S
        BY <2>4, PlacesApart DEF BfdPort, AbsentIfs, MarkDrift, LinkSpeeds, ReadHostDefault
      <3>2. UNCHANGED engineDoc
        BY <2>4 DEF BfdPort, AbsentIfs, MarkDrift, LinkSpeeds, ReadHostDefault
      <3> QED BY <1>0, <2>2, <3>1, <3>2 DEF Escapes
    <2>5. CASE EngineState
      <3>1. stPc' = "absent" /\ engineDoc' = EngineAnswer(host) /\ reasons' = reasons \cup EngineDown(host)
        BY <2>5 DEF EngineState
      <3>2. engineDoc' # Silent \/ Waits(reasons)'
        BY <3>1, SettlingSays DEF EngineAnswer, EngineDown, When, Silent
      <3> QED BY <1>0, <3>1, <3>2, PlacesApart DEF Escapes
    <2>6. CASE Posture
      <3>1. /\ stPc = "posture" /\ stPc' = "return-path"
            /\ reasons' = reasons \cup PostureReasons(host, comps, engineDoc, wireGone)
        BY <2>6 DEF Posture
      <3>2. ASSUME NEW f \in AtPosture, f \in through, f \in Concerns(host.kind), f \notin Accounted,
                   engineDoc # Silent
            PROVE  Waits(reasons)'
        <4>1. f \in {"rp_filter", "forwarding"} => ~wireGone /\ "wire" \notin host.bad
          BY <3>1, <3>2, WireAccounts, PlacesApart
        <4>2. (f = "watchdog" => Says(comps, f)) /\ (f = "below-offset" => Says(engineDoc, f))
          BY <3>1, <3>2, DocsSay, PlacesApart DEF Told
        <4>3. Waits(PostureReasons(host, comps, engineDoc, wireGone))
          BY <1>0, <3>2, <4>1, <4>2, PostureSays
        <4> QED BY <3>1, <4>3 DEF Waits
      <3>3. Caught(AtPosture)'
        BY <1>0, <1>a, <2>2, <3>1, <3>2, PlacesApart DEF Caught, Escapes
      <3> QED BY <1>0, <2>2, <2>3, <2>6, <3>1, <3>3, PlacesApart DEF Escapes, Posture
    <2>7. CASE ReturnPath
      <3>1. /\ stPc = "return-path" /\ stPc' = "workload" /\ UNCHANGED engineDoc
            /\ reasons' = reasons \cup ReturnReasons(host, comps, engineDoc, wireGone)
        BY <2>7 DEF ReturnPath
      <3>2. ASSUME NEW f \in AtReturn, f \in through, f \in Concerns(host.kind), engineDoc # Silent
            PROVE  Waits(reasons)'
        <4>1. f \in {"bgp", "nothing-sent"} => Says(engineDoc, f)
          BY <3>1, <3>2, DocsSay, PlacesApart
        <4>2. Waits(ReturnReasons(host, comps, engineDoc, wireGone))
          BY <1>0, <3>2, <4>1, ReturnSays
        <4> QED BY <3>1, <4>2 DEF Waits
      <3>3. Caught(AtReturn)'
        BY <1>0, <2>2, <3>1, <3>2, PlacesApart DEF Caught, Escapes
      <3> QED BY <1>0, <2>2, <3>1, <3>3, PlacesApart DEF Escapes
    <2>8. CASE WorkloadPosture
      <3>1. /\ stPc = "workload" /\ stPc' = "marks" /\ UNCHANGED engineDoc
            /\ reasons' = reasons \cup RowReasons(host, comps)
        BY <2>8 DEF WorkloadPosture
      <3>2. ASSUME NEW f \in AtRow, f \in through, f \in Concerns(host.kind)
            PROVE  Waits(reasons)'
        <4>1. f = "announcer" => Says(comps, f)
          BY <3>2, DocsSay DEF Told
        <4>2. Waits(RowReasons(host, comps))
          BY <1>0, <3>2, <4>1, RowSays
        <4> QED BY <3>1, <4>2 DEF Waits
      <3>3. Caught(AtRow)'
        BY <1>0, <3>2 DEF Caught
      <3> QED BY <1>0, <2>2, <3>1, <3>3, PlacesApart DEF Escapes
    <2>9. CASE ShapePosture
      <3>1. /\ stPc = "shape" /\ stPc' = "speeds" /\ UNCHANGED engineDoc
            /\ reasons' = reasons \cup ShapeReasons(host, comps)
        BY <2>9 DEF ShapePosture
      <3>2. ASSUME NEW f \in AtShape, f \in through, f \in Concerns(host.kind)
            PROVE  Waits(reasons)'
        <4>1. f = "daemon" => Says(comps, f)
          BY <3>2, DocsSay DEF Told
        <4>2. Waits(ShapeReasons(host, comps))
          BY <1>0, <3>2, <4>1, ShapeSays
        <4> QED BY <3>1, <4>2 DEF Waits
      <3>3. Caught(AtShape)'
        BY <1>0, <3>2 DEF Caught
      <3> QED BY <1>0, <2>2, <3>1, <3>3, PlacesApart DEF Escapes
    <2>10. CASE Links
      <3>1. /\ stPc = "links" /\ stPc' = "reach" /\ UNCHANGED engineDoc
            /\ reasons' = reasons \cup LinkReasons(host, comps, engineDoc, wireGone)
        BY <2>10 DEF Links
      <3>2. ASSUME "detached" \in through, "detached" \notin Accounted
            PROVE  Waits(reasons)'
        <4>1. ~wireGone
          BY <3>1, <3>2, WireAccounts, PlacesApart
        <4>2. Waits(LinkReasons(host, comps, engineDoc, wireGone))
          BY <1>0, <3>2, <4>1, LinksSay
        <4> QED BY <3>1, <4>2 DEF Waits
      <3>3. ASSUME ~(UpLegs(engineDoc) = SegLegs /\ TwoWay(engineDoc))
            PROVE  Waits(reasons)'
        <4>1. UpLegs(engineDoc) \subseteq SegLegs
          BY <3>1, UpAreLegs, PlacesApart
        <4>2. Waits(LinkReasons(host, comps, engineDoc, wireGone))
          BY <1>0, <3>3, <4>1, LinksSay
        <4> QED BY <3>1, <4>2 DEF Waits
      <3>4. Caught({"detached"})'
        BY <1>0, <1>a, <3>2 DEF Caught
      <3> QED BY <1>0, <2>2, <3>1, <3>3, <3>4, PlacesApart DEF Escapes
    <2>11. CASE Reachability
      <3>1. /\ stPc = "reach" /\ stPc' = "default" /\ UNCHANGED engineDoc
            /\ reasons' = reasons \cup RouteReasons(host, engineDoc)
        BY <2>11 DEF Reachability
      <3>2. ASSUME "pin" \in through, ~Waits(reasons)
            PROVE  Waits(reasons)'
        <4>1. UpLegs(engineDoc) = SegLegs
          BY <3>1, <3>2, PlacesApart DEF Escapes
        <4>2. Waits(RouteReasons(host, engineDoc))
          BY <1>0, <3>2, <4>1, RouteSays
        <4> QED BY <3>1, <4>2 DEF Waits
      <3>3. Caught({"pin"})'
        BY <1>0, <2>2, <3>2 DEF Caught
      <3> QED BY <1>0, <2>2, <3>1, <3>3, PlacesApart DEF Escapes
    <2> QED BY <1>2, <2>4, <2>5, <2>6, <2>7, <2>8, <2>9, <2>10, <2>11 DEF ReadingStep
  <1> QED BY <1>1, <1>2

\* Nor does any other step.
LEMMA EscapesStep ==
    ASSUME ReadInv, Escapes, StatusNext
    PROVE  Escapes'
  <1>1. CASE ReadingStep
    BY <1>1, EscapesRead
  <1>2. CASE Ends
    BY <1>2, EndsKeep, PlacesApart DEF Escapes
  <1>3. CASE Begins
    <2>1. (stPc' = "custody" \/ ~applied')
      BY <1>3, BeginsFresh DEF ReadInv
    <2> QED BY <2>1, PlacesApart DEF Escapes
  <1>4. CASE Again
    BY <1>4, AgainFresh, PlacesApart DEF Escapes
  <1>5. CASE HostMoves
    <2>1. /\ through' \subseteq through /\ ever \subseteq ever' /\ host'.kind = host.kind /\ reasons' = reasons
          /\ UNCHANGED <<stPc, comps, engineDoc, applied>>
      BY <1>5, MovesKeep, ChangeTyped DEF ReadInv, SeenOK
    <2>2. /\ Waits(reasons) => Waits(reasons)'
          /\ \A S : Caught(S) => Caught(S)'
      BY <2>1, CaughtKeeps
    <2> QED BY <2>1, <2>2 DEF Escapes
  <1> QED BY <1>1, <1>2, <1>3, <1>4, <1>5 DEF StatusNext, ReadingStep, Ends, Begins

\* Of a member that did not change, the bond and the route are accounted for.
LEMMA RestStep ==
    ASSUME ReadInv, Escapes, AtRest, StatusNext
    PROVE  AtRest'
  <1>1. CASE ReadingStep
    <2> SUFFICES ASSUME comps # Silent, applied, ever = {host}
                 PROVE  AtRest'
      BY <1>1, ReadsKeep DEF AtRest
    <2>0. UNCHANGED <<host, comps, ever, applied>> /\ host \in Hosts /\ wireGone \in BOOLEAN
      BY <1>1, ReadsKeep DEF ReadInv, SeenOK
    <2>1. CASE Links
      <3>1. stPc = "links" /\ stPc' = "reach" /\ reasons' = reasons \cup LinkReasons(host, comps, engineDoc, wireGone)
        BY <2>1 DEF Links
      <3>2. comps.answers /\ comps.probed = host.probed
        BY DEF ReadInv, CompsRead, DocumentOf
      <3>3. ASSUME ~(/\ host.bond.readable /\ host.bond.mii = "up"
                     /\ Reach(host.probed) \notin {"AllDark", "Quiet"})
            PROVE  Waits(reasons)'
        <4>1. Waits(LinkReasons(host, comps, engineDoc, wireGone))
          BY <2>0, <3>2, <3>3, LinksSay
        <4> QED BY <3>1, <4>1 DEF Waits
      <3> QED BY <2>0, <3>1, <3>3, PlacesApart DEF AtRest
    <2>2. CASE Reachability
      <3>1. stPc = "reach" /\ stPc' = "default" /\ reasons' = reasons \cup RouteReasons(host, engineDoc)
        BY <2>2 DEF Reachability
      <3>2. Waits(reasons) => Waits(reasons)'
        BY <3>1 DEF Waits
      <3>3. ASSUME ~Waits(reasons), host.route # First
            PROVE  Waits(reasons)'
        <4>1. UpLegs(engineDoc) = SegLegs
          BY <3>1, <3>3, PlacesApart DEF Escapes
        <4>2. Waits(RouteReasons(host, engineDoc))
          BY <2>0, <3>3, <4>1, RouteSays
        <4> QED BY <3>1, <4>2 DEF Waits
      <3> QED BY <2>0, <3>1, <3>2, <3>3, PlacesApart DEF AtRest
    <2>3. CASE ~Links /\ ~Reachability
      <3>1. /\ stPc' \in PastLinks => stPc \in PastLinks /\ UNCHANGED reasons
            /\ stPc' \in PastReach => stPc \in PastReach
        BY <1>1, <2>3, PlacesApart
        DEF ReadingStep, DeclarationNote, BfdPort, EngineState, AbsentIfs, Posture, ReturnPath, WorkloadPosture,
            MarkDrift, ShapePosture, LinkSpeeds, ReadHostDefault
      <3>2. stPc' \in PastReach => stPc' \in PastLinks
        BY PlacesApart
      <3> QED BY <2>0, <3>1, <3>2 DEF AtRest
    <2> QED BY <2>1, <2>2, <2>3
  <1>2. CASE Ends
    BY <1>2, EndsKeep, PlacesApart DEF AtRest
  <1>3. CASE Begins
    <2>1. (stPc' = "custody" \/ ~applied')
      BY <1>3, BeginsFresh DEF ReadInv
    <2> QED BY <2>1, PlacesApart DEF AtRest
  <1>4. CASE Again
    BY <1>4, AgainFresh, PlacesApart DEF AtRest
  <1>5. CASE HostMoves
    <2>1. ever' # {host'}
      BY <1>5, MovesKeep DEF ReadInv, SeenOK
    <2> QED BY <2>1 DEF AtRest
  <1> QED BY <1>1, <1>2, <1>3, <1>4, <1>5 DEF StatusNext, ReadingStep, Ends, Begins

\* When the wait ends early there is nothing to wait for.
LEMMA SettledEscapesNothing ==
    ASSUME ReadInv, Escapes, AtRest, stPc = "report", SettledNow, comps # Silent
    PROVE  /\ through \cap SelfClearing \cap Concerns(host.kind) \subseteq Accounted
           /\ ever = {host} =>
                 /\ host.applied /\ host.engine = "running" /\ host.down = {} /\ host.near
                 /\ host.route = First
                 /\ host.bond.readable /\ host.bond.mii = "up"
                 /\ Reach(host.probed) \notin {"AllDark", "Quiet"}
  <1>1. applied /\ UpLegs(engineDoc) = SegLegs /\ TwoWay(engineDoc) /\ ~Waits(reasons)
    BY DEF SettledNow, StateNow, HeadlineState, Waits
  <1>2. /\ Caught(AtPosture) /\ Caught(AtReturn) /\ Caught(AtRow) /\ Caught(AtShape) /\ Caught({"detached"})
        /\ Caught({"pin"})
    BY <1>1, PlacesApart DEF Escapes
  <1>3. SelfClearing = AtPosture \cup AtReturn \cup AtRow \cup AtShape \cup {"detached"} \cup {"pin"}
    BY DEF SelfClearing, AtPosture, AtReturn, AtRow, AtShape
  <1>4. through \cap SelfClearing \cap Concerns(host.kind) \subseteq Accounted
    BY <1>1, <1>2, <1>3 DEF Caught
  <1>5. ASSUME ever = {host}
        PROVE  /\ host.applied /\ host.engine = "running" /\ host.down = {} /\ host.near
               /\ host.route = First
               /\ host.bond.readable /\ host.bond.mii = "up"
               /\ Reach(host.probed) \notin {"AllDark", "Quiet"}
    <2>1. host.applied
      BY <1>1, <1>5, PlacesApart DEF ReadInv, AppliedRead
    <2>2. engineDoc = EngineAnswer(host)
      BY <1>1, <1>5, PlacesApart DEF ReadInv, DocRead
    <2>3. host.engine = "running" /\ SegLegs \ host.down = SegLegs /\ host.near
      BY <1>1, <2>2 DEF EngineAnswer, Silent, UpLegs, TwoWay
    <2>4. host.down \subseteq SegLegs
      BY DEF ReadInv, SeenOK, Hosts
    <2> QED BY <1>1, <1>5, <2>1, <2>3, <2>4, PlacesApart DEF AtRest
  <1> QED BY <1>4, <1>5

\* The verdict stays sound.
LEMMA VerdictStep ==
    ASSUME ReadInv, Escapes, AtRest, VerdictSound, StatusNext
    PROVE  VerdictSound'
  <1>1. NothingEscapes'
    <2>1. CASE Report
      <3>1. /\ stPc' = "done" => SettledNow \/ waited >= Wait
            /\ stPc = "report" /\ UNCHANGED <<host, comps, through, ever>>
            /\ stPc' = "done" => UNCHANGED waited
        BY <2>1 DEF Report
      <3>2. waited \in Nat /\ Wait \in Nat
        BY StatusAssumption DEF ReadInv, SeenOK
      <3>3. comps.answers => comps # Silent
        BY DEF Silent
      <3>4. Accounted' = Accounted
        BY <3>1 DEF Accounted
      <3> QED BY <3>1, <3>2, <3>3, <3>4, SettledEscapesNothing DEF NothingEscapes
    <2>2. CASE Publish
      BY <2>2 DEF Publish, NothingEscapes
    <2>3. CASE GatherFails
      <3>1. asker' = "status" => report'.state = "error"
        BY <2>3 DEF GatherFails, Unprinted
      <3> QED BY <3>1 DEF NothingEscapes
    <2>4. CASE ReadingStep \/ Begins \/ Again \/ HostMoves
      <3>1. stPc' # "done"
        BY <2>4
        DEF ReadingStep, DeclarationNote, BfdPort, EngineState, AbsentIfs, Posture, ReturnPath, WorkloadPosture,
            MarkDrift, ShapePosture, LinkSpeeds, Links, Reachability, ReadHostDefault, Begins, Gather, Snapshot,
            Begin, Again, HostMoves
      <3> QED BY <3>1 DEF NothingEscapes
    <2> QED BY <2>1, <2>2, <2>3, <2>4 DEF StatusNext, ReadingStep, Begins
  <1>2. NoFalseAccusation'
    <2>0. NoFalseAccusation <=> (Accused \in reasons => \/ \E h \in ever : h.holders # {}
                                                      \/ \E g, h \in ever : g.engine # h.engine)
      BY DEF NoFalseAccusation, Accused
    <2>1. CASE BfdPort
      <3>1. UNCHANGED ever /\ reasons' = reasons \cup CustodyReasons(host, comps) /\ host \in ever /\ ever \subseteq Hosts
        BY <2>1 DEF BfdPort, reading, kept, ReadInv, SeenOK
      <3>2. PICK g \in ever : comps = Silent \/ DocumentOf(comps, g)
        BY <3>1 DEF ReadInv, CompsRead
      <3>3. Accused \in CustodyReasons(host, comps) => host.holders # {} \/ g.engine # host.engine
        BY <3>1, <3>2, CustodySound
      <3> QED BY <2>0, <3>1, <3>2, <3>3 DEF NoFalseAccusation, VerdictSound, Accused
    <2>2. CASE ReadingStep /\ ~BfdPort
      <3>1. UNCHANGED ever /\ host \in Hosts
        BY <2>2, ReadsKeep DEF ReadInv, SeenOK
      <3>2. Accused \notin Standing(host.bad \cap {"declaration"})
        BY DEF Standing, Accused
      <3>3. Accused \in reasons' => Accused \in reasons
        BY <2>2, <3>1, <3>2, NobodyElseAccuses
        DEF ReadingStep, DeclarationNote, EngineState, AbsentIfs, Posture, ReturnPath, WorkloadPosture,
            MarkDrift, ShapePosture, LinkSpeeds, Links, Reachability, ReadHostDefault
      <3> QED BY <3>1, <3>3 DEF NoFalseAccusation, VerdictSound, Accused
    <2>3. CASE Ends
      BY <2>3, EndsKeep DEF NoFalseAccusation, VerdictSound
    <2>4. CASE Begins
      <3>1. Accused \notin reasons'
        BY <2>4, BeginsFresh DEF ReadInv, Standing, Accused
      <3> QED BY <3>1 DEF NoFalseAccusation, Accused
    <2>5. CASE Again
      BY <2>5, AgainFresh DEF NoFalseAccusation
    <2>6. CASE HostMoves
      BY <2>6, MovesKeep DEF NoFalseAccusation, VerdictSound
    <2> QED BY <2>1, <2>2, <2>3, <2>4, <2>5, <2>6 DEF StatusNext, ReadingStep, Ends, Begins
  <1> QED BY <1>1, <1>2 DEF VerdictSound

VerdictInv == ReadInv /\ Escapes /\ AtRest /\ VerdictSound

\* Nothing was said yet, so nothing escaped.
LEMMA VerdictStart == StatusInit => VerdictInv
  <1> SUFFICES ASSUME StatusInit PROVE VerdictInv
    OBVIOUS
  <1>1. stPc = "run" /\ reasons = {} /\ applied = FALSE
    BY DEF StatusInit
  <1>2. Escapes /\ AtRest
    BY <1>1 DEF Escapes, AtRest
  <1>3. VerdictSound
    BY <1>1 DEF VerdictSound, NothingEscapes, NoFalseAccusation
  <1> QED BY <1>2, <1>3, ReadStart DEF VerdictInv

\* The verdict is inductive with what was read and what was caught.
LEMMA VerdictKeeps ==
    ASSUME VerdictInv, [StatusNext]_statusVars
    PROVE  VerdictInv'
  <1>1. CASE StatusNext
    BY <1>1, ReadStep, EscapesStep, RestStep, VerdictStep DEF VerdictInv
  <1>2. CASE UNCHANGED statusVars
    <2>1. ReadInv'
      BY <1>2, ReadStep DEF VerdictInv
    <2>2. Escapes' /\ AtRest'
      BY <1>2 DEF statusVars, VerdictInv, Escapes, AtRest, Waits, Caught, Accounted
    <2>3. VerdictSound'
      BY <1>2 DEF statusVars, VerdictInv, VerdictSound, NothingEscapes, NoFalseAccusation, Accounted
    <2> QED BY <2>1, <2>2, <2>3 DEF VerdictInv
  <1> QED BY <1>1, <1>2

\* Whatever changes while the member is read, and however often, the wait ends early only
\* over a member with nothing to clear, and nobody is accused of a port that was free.
THEOREM VerdictIsSound == StatusSpec => []VerdictSound
  <1>1. VerdictInv => VerdictSound
    BY DEF VerdictInv
  <1> QED BY <1>1, VerdictStart, VerdictKeeps, PTL DEF StatusSpec

-----------------------------------------------------------------------------
(* The page.  A series is known by its family; the value it gives is that  *)
(* of a member that was seen.                                              *)

\* The families of the parts of a page do not meet.
LEMMA FamiliesOf ==
    ASSUME NEW m, NEW s
    PROVE  /\ s \in Identity(m) => s[1] = "member_info"
           /\ s \in Headlines(m) => s[1] \in {"fabric_state", "peers_up", "links_up", "fallbacks_up"}
           /\ s \in Adjacencies(m) => s[1] \in {"bfd_session_up", "fallback_neighbor_up"}
           /\ s \in LegsState(m) => s[1] \in {"fallback_bond_active_home", "bond_home_carrier", "wire_present"}
           /\ s \in ProbePorts(m) => s[1] \in {"probe_gw_usable", "probe_port_usable", "probe_port_suspect"}
           /\ s \in ConditionSeries(m) => s[1] \in {"conditions", "condition_info"}
           /\ s \in IngressSeries(m) =>
                 s[1] \in {"ingress_reachable", "bgp_neighbor_state", "bgp_neighbor_prefixes_sent"}
           /\ s \in HostDefaultSeries(m) => s[1] = "host_default_path"
           /\ s \in Workloads(m) =>
                 s[1] \in {"workload_up", "workload_state", "workload_vms_seen", "workload_guard_drops",
                           "workload_announces", "workload_dhcp_relayed", "workload_vms_discovered",
                           "workload_dhcp_relay_drops"}
           /\ s \in NeighborPipeline(m) => s[1] \in {"workload_neighbor_writes", "neighbor_dirty_depth"}
           /\ s \in ComponentSeries(m) =>
                 s[1] \in {"component_state-engine", "component_expected", "supervisor_applies", "watchdog_result"}
           /\ s \in Telemetry(m) => s[1] = "telemetry_collect_failures"
  <1>1. \A f, known, v : s \in Enumerated(f, known, v) => s[1] = f
    BY DEF Enumerated
  <1>2. \A f, l, known, v : s \in Series(f, l, known, v) => s[1] = f
    BY DEF Series
  <1>3. s \in Identity(m) => s[1] = "member_info"
    BY DEF Identity
  <1>4. s \in Headlines(m) => s[1] \in {"fabric_state", "peers_up", "links_up", "fallbacks_up"}
    BY <1>1, <1>2 DEF Headlines
  <1>5. ASSUME s \in Adjacencies(m) PROVE s[1] \in {"bfd_session_up", "fallback_neighbor_up"}
    <2>1. \/ \E l \in m.links : s = <<"bfd_session_up", l, Bit(l \in m.up)>>
          \/ s = <<"fallback_neighbor_up", "peer", Bit(m.near)>>
      BY <1>5, Zenon DEF Adjacencies
    <2> QED BY <2>1
  <1>6. ASSUME s \in LegsState(m)
        PROVE  s[1] \in {"fallback_bond_active_home", "bond_home_carrier", "wire_present"}
    <2> DEFINE Present(w) == Bit(\E l \in Legs(m) : w \notin l.absent)
               Carriers == {k \in Legs(m) : k.bond /\ k.carrier \in {"0", "1"}}
    <2>1. LegsState(m) =
             (IF m.fallback.answers /\ m.fallback.bond
              THEN {<<"fallback_bond_active_home", "bond", Bit(ActiveWire(m.fallback) = "home")>>} ELSE {})
             \cup {<<"bond_home_carrier", l.kind, Bit(l.carrier = "1")>> : l \in Carriers}
             \cup (IF Legs(m) = {} THEN {} ELSE {<<"wire_present", w, Present(w)>> : w \in Wires})
      BY Zenon DEF LegsState
    <2> HIDE DEF Present, Carriers
    <2>2. \/ \E a, b : s = <<"fallback_bond_active_home", a, b>>
          \/ \E a, b : s = <<"bond_home_carrier", a, b>>
          \/ \E a, b : s = <<"wire_present", a, b>>
      BY <1>6, <2>1, Zenon
    <2> QED BY <2>2
  <1>8. ASSUME s \in ProbePorts(m) PROVE s[1] \in {"probe_gw_usable", "probe_port_usable", "probe_port_suspect"}
    <2>1. \/ \E w : s = <<"probe_gw_usable", w, Bit(m.comps.gw[w] # "dark")>>
          \/ \E w : s \in {<<"probe_port_usable", w, Bit(m.comps.probed[w] # "dark")>>,
                           <<"probe_port_suspect", w, Bit(m.comps.probed[w] = "suspect")>>}
      BY <1>8, Zenon DEF ProbePorts
    <2> QED BY <2>1
  <1>9. s \in ConditionSeries(m) => s[1] \in {"conditions", "condition_info"}
    BY DEF ConditionSeries
  <1>10. s \in ReachRow(m.ingress) => s[1] = "ingress_reachable"
    BY DEF ReachRow
  <1>11. ASSUME s \in IngressSeries(m)
         PROVE  s[1] \in {"ingress_reachable", "bgp_neighbor_state", "bgp_neighbor_prefixes_sent"}
    <2>1. \/ s \in ReachRow(m.ingress)
          \/ s \in Enumerated("bgp_neighbor_state", BgpStates, IF m.bgp = "unread" THEN "absent" ELSE m.bgp)
          \/ s \in Series("bgp_neighbor_prefixes_sent", "member", m.bgp # "unread", m.sent)
      BY <1>11, Zenon DEF IngressSeries
    <2> QED BY <1>1, <1>2, <1>10, <2>1
  <1>12. s \in HostDefaultSeries(m) => s[1] = "host_default_path"
    BY <1>2 DEF HostDefaultSeries
  <1>13. s \in RelaySeries(m) =>
            s[1] \in {"workload_dhcp_relayed", "workload_vms_discovered", "workload_dhcp_relay_drops"}
    BY DEF RelaySeries
  <1>14. ASSUME s \in Workloads(m)
         PROVE  s[1] \in {"workload_up", "workload_state", "workload_vms_seen", "workload_guard_drops",
                          "workload_announces", "workload_dhcp_relayed", "workload_vms_discovered",
                          "workload_dhcp_relay_drops"}
    <2>1. \/ s = <<"workload_up", "row", Bit(m.row = "Up")>>
          \/ s \in Enumerated("workload_state", WorkloadStates, m.row)
          \/ s \in Series("workload_vms_seen", "row", m.vms # -1, m.vms)
          \/ s \in Series("workload_guard_drops", "row", m.drops # -1, m.drops)
          \/ s \in Series("workload_announces", "row", "announcer" \notin m.comps.bad, m.comps.counts)
          \/ s \in RelaySeries(m)
      BY <1>14, Zenon DEF Workloads
    <2> QED BY <1>1, <1>2, <1>13, <2>1
  <1>15. s \in NeighborPipeline(m) => s[1] \in {"workload_neighbor_writes", "neighbor_dirty_depth"}
    BY <1>2 DEF NeighborPipeline
  <1>16. ASSUME s \in ComponentSeries(m)
         PROVE  s[1] \in {"component_state-engine", "component_expected", "supervisor_applies", "watchdog_result"}
    <2>1. \/ s \in Enumerated("component_state-engine", ChildStates, m.comps.engine)
          \/ \E a, b : s \in {<<"component_expected", a, b>>, <<"supervisor_applies", a, b>>}
          \/ s \in Enumerated("watchdog_result", WatchdogResults,
                             IF "watchdog" \in m.comps.bad THEN "blocked" ELSE "ok")
      BY <1>16, Zenon DEF ComponentSeries
    <2> QED BY <1>1, <2>1
  <1>17. ASSUME s \in Telemetry(m) PROVE s[1] = "telemetry_collect_failures"
    <2>1. \E a, b : s = <<"telemetry_collect_failures", a, b>>
      BY <1>17, Zenon DEF Telemetry
    <2> QED BY <2>1
  <1> QED BY <1>3, <1>4, <1>5, <1>6, <1>8, <1>9, <1>11, <1>12, <1>14, <1>15, <1>16, <1>17, Zenon

\* So does one that follows a leg.
LEMMA FamilyOfProbed == ASSUME NEW f, NEW leg, NEW s \in Probed(f, leg) PROVE s[1] = f
  <1>1. \E w \in Wires : s = <<f, w, Bit(w = ActiveWire(leg))>>
    BY Zenon DEF Probed
  <1> QED BY <1>1

\* A series of a page comes from the part its family belongs to.
LEMMA PartOf ==
    ASSUME NEW m, NEW s \in Page(m)
    PROVE  /\ s[1] = "fabric_state" => s \in Headlines(m)
           /\ s[1] = "bfd_session_up" => s \in Adjacencies(m)
           /\ s[1] = "wire_present" => s \in LegsState(m)
           /\ s[1] = "fallback_active" => s \in Probed("fallback_active", m.fallback)
           /\ s[1] = "probe_port_usable" => s \in ProbePorts(m)
           /\ s[1] = "condition_info" => s \in ConditionSeries(m)
           /\ s[1] \in {"ingress_reachable", "bgp_neighbor_state"} => s \in IngressSeries(m)
           /\ s[1] = "host_default_path" => s \in HostDefaultSeries(m)
           /\ s[1] = "workload_state" => s \in Workloads(m)
           /\ s[1] = "component_state-engine" => s \in ComponentSeries(m)
  <1>1. \/ s \in Identity(m) \/ s \in Headlines(m) \/ s \in Adjacencies(m) \/ s \in LegsState(m)
        \/ s \in Probed("fallback_active", m.fallback) \/ s \in Probed("ingress_active", m.ingress)
        \/ s \in ProbePorts(m) \/ s \in ConditionSeries(m) \/ s \in IngressSeries(m) \/ s \in HostDefaultSeries(m)
        \/ s \in Workloads(m) \/ s \in NeighborPipeline(m) \/ s \in ComponentSeries(m) \/ s \in Telemetry(m)
    BY Zenon DEF Page
  <1>2. /\ s \in Probed("fallback_active", m.fallback) => s[1] = "fallback_active"
        /\ s \in Probed("ingress_active", m.ingress) => s[1] = "ingress_active"
    BY FamilyOfProbed
  <1> QED BY <1>1, <1>2, FamiliesOf

\* A family that names one value of several shows that value, and no other, as 1.
LEMMA EnumeratedOne ==
    ASSUME NEW f, NEW known, NEW v
    PROVE  /\ <<f, v, 1>> \in Enumerated(f, known, v)
           /\ \A s \in Enumerated(f, known, v) : s[3] = 1 => s = <<f, v, 1>>
  <1>1. v \in OneOf(known, v)
    BY DEF OneOf
  <1>2. <<f, v, Bit(v = v)>> \in Enumerated(f, known, v)
    BY <1>1, Zenon DEF Enumerated
  <1>3. Bit(v = v) = 1
    BY DEF Bit
  <1>4. ASSUME NEW s \in Enumerated(f, known, v), s[3] = 1 PROVE s = <<f, v, 1>>
    <2>1. PICK x \in OneOf(known, v) : s = <<f, x, Bit(x = v)>>
      BY Zenon DEF Enumerated
    <2>2. x = v
      BY <1>4, <2>1 DEF Bit
    <2> QED BY <1>3, <2>1, <2>2
  <1> QED BY <1>2, <1>3, <1>4

\* What a page says of the families that say what is true of a member.
Claims(m, s) ==
    \/ s = <<"fabric_state", m.state, 1>>
    \/ s = <<"component_state-engine", m.comps.engine, 1>>
    \/ \E w \in Wires : s = <<"probe_port_usable", w, Bit(m.comps.probed[w] # "dark")>>
    \/ m.applied /\ \E l \in m.links : s = <<"bfd_session_up", l, Bit(l \in m.up)>>
    \/ Legs(m) # {} /\ s = <<"wire_present", "home", Bit(\E l \in Legs(m) : "home" \notin l.absent)>>
    \/ ActiveWire(m.fallback) # "none" /\ s = <<"fallback_active", ActiveWire(m.fallback), 1>>
    \/ /\ m.applied /\ m.kind # "leaf" /\ m.ingress.answers /\ m.ingress.reach # "Unknown"
       /\ s = <<"ingress_reachable", "zone", Bit(m.ingress.reach \notin {"AllDark", "Quiet"})>>
    \/ /\ m.applied /\ m.kind # "leaf"
       /\ s = <<"bgp_neighbor_state", IF m.bgp = "unread" THEN "absent" ELSE m.bgp, 1>>
    \/ m.row # "none" /\ s = <<"workload_state", m.row, 1>>
    \/ /\ m.why # "no-gw-zone" /\ m.default \in {"fabric", "floor"}
       /\ s = <<"host_default_path", "member", Bit(m.default = "floor")>>

\* The wires that are there.
LEMMA WirePresent ==
    ASSUME NEW m, NEW s
    PROVE  /\ s \in LegsState(m) /\ s[1] = "wire_present" /\ s[2] = "home" =>
                 Legs(m) # {} /\ s = <<"wire_present", "home", Bit(\E l \in Legs(m) : "home" \notin l.absent)>>
           /\ Legs(m) # {} => <<"wire_present", "home", Bit(\E l \in Legs(m) : "home" \notin l.absent)>> \in LegsState(m)
  <1> DEFINE Present(w) == Bit(\E l \in Legs(m) : w \notin l.absent)
             Carriers == {k \in Legs(m) : k.bond /\ k.carrier \in {"0", "1"}}
  <1>1. LegsState(m) =
           (IF m.fallback.answers /\ m.fallback.bond
            THEN {<<"fallback_bond_active_home", "bond", Bit(ActiveWire(m.fallback) = "home")>>} ELSE {})
           \cup {<<"bond_home_carrier", l.kind, Bit(l.carrier = "1")>> : l \in Carriers}
           \cup (IF Legs(m) = {} THEN {} ELSE {<<"wire_present", w, Present(w)>> : w \in Wires})
    BY Zenon DEF LegsState
  <1>2. Present("home") = Bit(\E l \in Legs(m) : "home" \notin l.absent)
    OBVIOUS
  <1> HIDE DEF Present, Carriers
  <1>3. "home" \in Wires
    BY DEF Wires
  <1>4. Legs(m) # {} => <<"wire_present", "home", Present("home")>> \in LegsState(m)
    BY <1>1, <1>3, Zenon
  <1>5. ASSUME s \in LegsState(m), s[1] = "wire_present", s[2] = "home"
        PROVE  Legs(m) # {} /\ s = <<"wire_present", "home", Present("home")>>
    <2> DEFINE Sits == IF m.fallback.answers /\ m.fallback.bond
                       THEN {<<"fallback_bond_active_home", "bond", Bit(ActiveWire(m.fallback) = "home")>>} ELSE {}
               Homes == {<<"bond_home_carrier", l.kind, Bit(l.carrier = "1")>> : l \in Carriers}
               There == IF Legs(m) = {} THEN {} ELSE {<<"wire_present", w, Present(w)>> : w \in Wires}
    <2>1. s \in Sits \/ s \in Homes \/ s \in There
      BY <1>1, <1>5, Zenon
    <2>a. s \notin Sits /\ s \notin Homes
      BY <1>5
    <2>b. s \in There => Legs(m) # {} /\ s \in {<<"wire_present", w, Present(w)>> : w \in Wires}
      BY SMT
    <2> HIDE DEF Sits, Homes, There
    <2>2. PICK w \in Wires : Legs(m) # {} /\ s = <<"wire_present", w, Present(w)>>
      BY <2>1, <2>a, <2>b
    <2>3. w = "home"
      BY <1>5, <2>2
    <2> QED BY <2>2, <2>3
  <1> QED BY <1>2, <1>4, <1>5

\* The wire a probed leg is on.
LEMMA ProbedOn ==
    ASSUME NEW f, NEW leg
    PROVE  /\ ActiveWire(leg) \in Wires \cup {"none"}
           /\ ActiveWire(leg) # "none" => <<f, ActiveWire(leg), 1>> \in Probed(f, leg)
           /\ \A s \in Probed(f, leg) : s[3] = 1 => ActiveWire(leg) # "none" /\ s = <<f, ActiveWire(leg), 1>>
  <1>1. ActiveWire(leg) \in Wires \cup {"none"}
    BY DEF ActiveWire
  <1> DEFINE a == ActiveWire(leg)
  <1>2. Probed(f, leg) = IF a = "none" THEN {} ELSE {<<f, w, Bit(w = a)>> : w \in Wires}
    BY Zenon DEF Probed
  <1>3. a \in Wires \cup {"none"}
    BY <1>1
  <1> HIDE DEF a
  <1>4. Bit(a = a) = 1
    BY DEF Bit
  <1>5. a # "none" => <<f, a, Bit(a = a)>> \in Probed(f, leg)
    BY <1>2, <1>3, Zenon
  <1>6. ASSUME NEW s \in Probed(f, leg), s[3] = 1 PROVE a # "none" /\ s = <<f, a, 1>>
    <2>a. a # "none" /\ s \in {<<f, w, Bit(w = a)>> : w \in Wires}
      BY <1>2, SMT
    <2>1. a # "none" /\ \E w \in Wires : s = <<f, w, Bit(w = a)>>
      BY <2>a, Zenon
    <2>2. PICK w \in Wires : s = <<f, w, Bit(w = a)>>
      BY <2>1
    <2>3. w = a
      BY <1>6, <2>2 DEF Bit
    <2> QED BY <1>4, <2>1, <2>2, <2>3
  <1> QED BY <1>1, <1>4, <1>5, <1>6 DEF a

\* Each of them is on the page, and the page says no more of these families.
LEMMA PageClaims ==
    ASSUME NEW m, NEW s
    PROVE  /\ Claims(m, s) => s \in Page(m)
           /\ s \in Page(m) /\ Spoken(s) => Claims(m, s)
  <1>0. /\ \A x \in Headlines(m) \cup Adjacencies(m) \cup LegsState(m) \cup Probed("fallback_active", m.fallback) :
              x \in Page(m)
        /\ \A x \in ProbePorts(m) \cup IngressSeries(m) \cup HostDefaultSeries(m) \cup Workloads(m)
                    \cup ComponentSeries(m) : x \in Page(m)
    BY Zenon DEF Page
  <1>1. \A x : x \in Enumerated("fabric_state", FabricStates, m.state) => x \in Headlines(m)
    BY Zenon DEF Headlines
  <1>2. \A x : x \in Enumerated("component_state-engine", ChildStates, m.comps.engine) => x \in ComponentSeries(m)
    BY Zenon DEF ComponentSeries
  <1>3. ASSUME NEW w \in Wires PROVE <<"probe_port_usable", w, Bit(m.comps.probed[w] # "dark")>> \in ProbePorts(m)
    <2> DEFINE Ports(x) == {<<"probe_port_usable", x, Bit(m.comps.probed[x] # "dark")>>,
                            <<"probe_port_suspect", x, Bit(m.comps.probed[x] = "suspect")>>}
    <2>1. <<"probe_port_usable", w, Bit(m.comps.probed[w] # "dark")>> \in Ports(w)
      OBVIOUS
    <2>2. \A y : y \in UNION {Ports(x) : x \in Wires} => y \in ProbePorts(m)
      BY Zenon DEF ProbePorts
    <2> HIDE DEF Ports
    <2>3. Ports(w) \in {Ports(x) : x \in Wires}
      OBVIOUS
    <2> QED BY <2>1, <2>2, <2>3
  <1>4. m.applied => \A l \in m.links : <<"bfd_session_up", l, Bit(l \in m.up)>> \in Adjacencies(m)
    BY Zenon DEF Adjacencies
  <1>5. m.applied /\ m.kind # "leaf" =>
           /\ \A x : x \in ReachRow(m.ingress) => x \in IngressSeries(m)
           /\ \A x : x \in Enumerated("bgp_neighbor_state", BgpStates, IF m.bgp = "unread" THEN "absent" ELSE m.bgp) =>
                 x \in IngressSeries(m)
    BY Zenon DEF IngressSeries
  <1>6. m.row # "none" => \A x : x \in Enumerated("workload_state", WorkloadStates, m.row) => x \in Workloads(m)
    BY Zenon DEF Workloads
  <1>7. ASSUME Claims(m, s) PROVE s \in Page(m)
    <2>1. CASE s = <<"fabric_state", m.state, 1>>
      BY <1>0, <1>1, <2>1, EnumeratedOne
    <2>2. CASE s = <<"component_state-engine", m.comps.engine, 1>>
      BY <1>0, <1>2, <2>2, EnumeratedOne
    <2>3. CASE \E w \in Wires : s = <<"probe_port_usable", w, Bit(m.comps.probed[w] # "dark")>>
      BY <1>0, <1>3, <2>3
    <2>4. CASE m.applied /\ \E l \in m.links : s = <<"bfd_session_up", l, Bit(l \in m.up)>>
      BY <1>0, <1>4, <2>4
    <2>5. CASE Legs(m) # {} /\ s = <<"wire_present", "home", Bit(\E l \in Legs(m) : "home" \notin l.absent)>>
      BY <1>0, <2>5, WirePresent, Zenon
    <2>6. CASE ActiveWire(m.fallback) # "none" /\ s = <<"fallback_active", ActiveWire(m.fallback), 1>>
      BY <1>0, <2>6, ProbedOn
    <2>7. CASE /\ m.applied /\ m.kind # "leaf" /\ m.ingress.answers /\ m.ingress.reach # "Unknown"
               /\ s = <<"ingress_reachable", "zone", Bit(m.ingress.reach \notin {"AllDark", "Quiet"})>>
      <3>1. s \in ReachRow(m.ingress)
        BY <2>7 DEF ReachRow
      <3> QED BY <1>0, <1>5, <2>7, <3>1, Zenon
    <2>8. CASE /\ m.applied /\ m.kind # "leaf"
               /\ s = <<"bgp_neighbor_state", IF m.bgp = "unread" THEN "absent" ELSE m.bgp, 1>>
      <3>1. s \in Enumerated("bgp_neighbor_state", BgpStates, IF m.bgp = "unread" THEN "absent" ELSE m.bgp)
        BY <2>8, EnumeratedOne, Zenon
      <3> QED BY <1>0, <1>5, <2>8, <3>1, Zenon
    <2>9. CASE m.row # "none" /\ s = <<"workload_state", m.row, 1>>
      BY <1>0, <1>6, <2>9, EnumeratedOne
    <2>10. CASE /\ m.why # "no-gw-zone" /\ m.default \in {"fabric", "floor"}
                /\ s = <<"host_default_path", "member", Bit(m.default = "floor")>>
      <3>1. s \in HostDefaultSeries(m)
        BY <2>10 DEF HostDefaultSeries, Series
      <3> QED BY <1>0, <3>1
    <2> QED BY <1>7, <2>1, <2>2, <2>3, <2>4, <2>5, <2>6, <2>7, <2>8, <2>9, <2>10, Zenon DEF Claims
  <1>8. ASSUME s \in Page(m), Spoken(s) PROVE Claims(m, s)
    <2>1. CASE s[1] = "fabric_state" /\ s[3] = 1
      <3>1. s \in Headlines(m)
        BY <1>8, <2>1, PartOf
      <3>2. s \in Enumerated("fabric_state", FabricStates, m.state)
        BY <2>1, <3>1 DEF Headlines, Series
      <3> QED BY <2>1, <3>2, EnumeratedOne DEF Claims
    <2>2. CASE s[1] = "component_state-engine" /\ s[3] = 1
      <3>1. s \in ComponentSeries(m)
        BY <1>8, <2>2, PartOf
      <3>2. \/ s \in Enumerated("component_state-engine", ChildStates, m.comps.engine)
            \/ \E a, b : s \in {<<"component_expected", a, b>>, <<"supervisor_applies", a, b>>}
            \/ s \in Enumerated("watchdog_result", WatchdogResults,
                               IF "watchdog" \in m.comps.bad THEN "blocked" ELSE "ok")
        BY <3>1, Zenon DEF ComponentSeries
      <3>3. \A f, known, v : s \in Enumerated(f, known, v) => s[1] = f
        BY DEF Enumerated
      <3>4. s \in Enumerated("component_state-engine", ChildStates, m.comps.engine)
        BY <2>2, <3>2, <3>3
      <3>5. s = <<"component_state-engine", m.comps.engine, 1>>
        BY <2>2, <3>4, EnumeratedOne
      <3> QED BY <3>5 DEF Claims
    <2>3. CASE s[1] = "probe_port_usable"
      <3>1. s \in ProbePorts(m)
        BY <1>8, <2>3, PartOf
      <3>2. \/ \E w : s = <<"probe_gw_usable", w, Bit(m.comps.gw[w] # "dark")>>
            \/ \E w \in Wires : s \in {<<"probe_port_usable", w, Bit(m.comps.probed[w] # "dark")>>,
                                       <<"probe_port_suspect", w, Bit(m.comps.probed[w] = "suspect")>>}
        BY <3>1, Zenon DEF ProbePorts
      <3>3. \E w \in Wires : s = <<"probe_port_usable", w, Bit(m.comps.probed[w] # "dark")>>
        BY <2>3, <3>2
      <3> QED BY <3>3 DEF Claims
    <2>4. CASE s[1] = "bfd_session_up"
      <3>1. s \in Adjacencies(m)
        BY <1>8, <2>4, PartOf
      <3>2. m.applied /\ (\/ \E l \in m.links : s = <<"bfd_session_up", l, Bit(l \in m.up)>>
                          \/ s = <<"fallback_neighbor_up", "peer", Bit(m.near)>>)
        BY <3>1, Zenon DEF Adjacencies
      <3>3. \E l \in m.links : s = <<"bfd_session_up", l, Bit(l \in m.up)>>
        BY <2>4, <3>2
      <3> QED BY <3>2, <3>3 DEF Claims
    <2>5. CASE s[1] = "wire_present" /\ s[2] = "home"
      <3>1. s \in LegsState(m)
        BY <1>8, <2>5, PartOf
      <3> QED BY <2>5, <3>1, WirePresent, Zenon DEF Claims
    <2>6. CASE s[1] = "fallback_active" /\ s[3] = 1
      <3>1. s \in Probed("fallback_active", m.fallback)
        BY <1>8, <2>6, PartOf
      <3>2. ActiveWire(m.fallback) # "none" /\ s = <<"fallback_active", ActiveWire(m.fallback), 1>>
        BY <2>6, <3>1, ProbedOn
      <3> QED BY <3>2 DEF Claims
    <2>7. CASE s[1] \in {"ingress_reachable", "bgp_neighbor_state"} /\ (s[1] = "bgp_neighbor_state" => s[3] = 1)
      <3>1. s \in IngressSeries(m)
        BY <1>8, <2>7, PartOf
      <3>2. /\ m.applied /\ m.kind # "leaf"
            /\ \/ s \in ReachRow(m.ingress)
               \/ s \in Enumerated("bgp_neighbor_state", BgpStates, IF m.bgp = "unread" THEN "absent" ELSE m.bgp)
               \/ s \in Series("bgp_neighbor_prefixes_sent", "member", m.bgp # "unread", m.sent)
        BY <3>1, Zenon DEF IngressSeries
      <3>3. s \notin Series("bgp_neighbor_prefixes_sent", "member", m.bgp # "unread", m.sent)
        BY <2>7 DEF Series
      <3>4. CASE s \in ReachRow(m.ingress)
        <4>1. /\ m.ingress.answers /\ m.ingress.reach # "Unknown"
              /\ s = <<"ingress_reachable", "zone", Bit(m.ingress.reach \notin {"AllDark", "Quiet"})>>
          BY <3>4, Zenon DEF ReachRow
        <4> QED BY <3>2, <4>1, Zenon DEF Claims
      <3>5. CASE s \in Enumerated("bgp_neighbor_state", BgpStates, IF m.bgp = "unread" THEN "absent" ELSE m.bgp)
        <4>1. s[1] = "bgp_neighbor_state"
          BY <3>5 DEF Enumerated
        <4>2. s[3] = 1
          BY <2>7, <4>1
        <4>3. s = <<"bgp_neighbor_state", IF m.bgp = "unread" THEN "absent" ELSE m.bgp, 1>>
          BY <3>5, <4>2, EnumeratedOne, Zenon
        <4> QED BY <3>2, <4>3, Zenon DEF Claims
      <3> QED BY <3>2, <3>3, <3>4, <3>5
    <2>8. CASE s[1] = "workload_state" /\ s[3] = 1
      <3>1. s \in Workloads(m)
        BY <1>8, <2>8, PartOf
      <3>2. /\ m.row # "none"
            /\ \/ s = <<"workload_up", "row", Bit(m.row = "Up")>>
               \/ s \in Enumerated("workload_state", WorkloadStates, m.row)
               \/ s \in Series("workload_vms_seen", "row", m.vms # -1, m.vms)
               \/ s \in Series("workload_guard_drops", "row", m.drops # -1, m.drops)
               \/ s \in Series("workload_announces", "row", "announcer" \notin m.comps.bad, m.comps.counts)
               \/ s \in RelaySeries(m)
        BY <3>1, Zenon DEF Workloads
      <3>3. /\ s \notin Series("workload_vms_seen", "row", m.vms # -1, m.vms)
            /\ s \notin Series("workload_guard_drops", "row", m.drops # -1, m.drops)
            /\ s \notin Series("workload_announces", "row", "announcer" \notin m.comps.bad, m.comps.counts)
        BY <2>8 DEF Series
      <3>4. s \notin RelaySeries(m) /\ s # <<"workload_up", "row", Bit(m.row = "Up")>>
        BY <2>8 DEF RelaySeries
      <3>5. s = <<"workload_state", m.row, 1>>
        BY <2>8, <3>2, <3>3, <3>4, EnumeratedOne
      <3> QED BY <3>2, <3>5, Zenon DEF Claims
    <2>9. CASE s[1] = "host_default_path"
      <3>1. s \in HostDefaultSeries(m)
        BY <1>8, <2>9, PartOf
      <3>2. /\ m.why # "no-gw-zone" /\ m.default \in {"fabric", "floor"}
            /\ s = <<"host_default_path", "member", Bit(m.default = "floor")>>
        BY <3>1 DEF HostDefaultSeries, Series
      <3> QED BY <3>2, Zenon DEF Claims
    <2> QED BY <1>8, <2>1, <2>2, <2>3, <2>4, <2>5, <2>6, <2>7, <2>8, <2>9 DEF Spoken
  <1> QED BY <1>7, <1>8

\* What is true of a member, family by family.
TrueOf(h, s) ==
    \/ s = <<"fabric_state", Verdict(h), 1>>
    \/ s = <<"component_state-engine", h.engine, 1>>
    \/ \E w \in Wires : s = <<"probe_port_usable", w, Bit(h.probed[w] # "dark")>>
    \/ h.applied /\ \E l \in SegLegs : s = <<"bfd_session_up", l, Bit(h.engine = "running" /\ l \notin h.down)>>
    \/ h.applied /\ s = <<"wire_present", "home", Bit("wire" \notin h.bad)>>
    \/ h.applied /\ h.bond.readable /\ h.bond.active \in Wires /\ s = <<"fallback_active", h.bond.active, 1>>
    \/ /\ h.applied /\ h.kind = "plain"
       /\ s = <<"ingress_reachable", "zone", Bit(Reach(h.gwProbed) # "AllDark")>>
    \/ /\ h.applied /\ h.kind # "leaf"
       /\ s = <<"bgp_neighbor_state", IF h.engine # "running" THEN "absent"
                                      ELSE IF "bgp" \in h.bad THEN "Idle" ELSE "Established", 1>>
    \/ h.applied /\ h.kind # "leaf" /\ s = <<"workload_state", Row(h), 1>>
    \/ /\ h.applied /\ h.kind # "leaf" /\ h.default # "none"
       /\ s = <<"host_default_path", "member", Bit(h.default = "floor")>>

\* A series is one a true page of the member carries exactly when one of the cases above gives it.
LEMMA TruthIs == ASSUME NEW h, NEW s PROVE s \in Truth(h) <=> TrueOf(h, s)
  <1> DEFINE Base == {<<"fabric_state", Verdict(h), 1>>, <<"component_state-engine", h.engine, 1>>}
             Ports == {<<"probe_port_usable", w, Bit(h.probed[w] # "dark")>> : w \in Wires}
             Bfd == {<<"bfd_session_up", l, Bit(h.engine = "running" /\ l \notin h.down)>> : l \in SegLegs}
             Wire == {<<"wire_present", "home", Bit("wire" \notin h.bad)>>}
             Bond == IF h.bond.readable /\ h.bond.active \in Wires THEN {<<"fallback_active", h.bond.active, 1>>} ELSE {}
             Gw == IF h.kind = "plain"
                   THEN {<<"ingress_reachable", "zone", Bit(Reach(h.gwProbed) # "AllDark")>>} ELSE {}
             Two == {<<"bgp_neighbor_state",
                       IF h.engine # "running" THEN "absent"
                       ELSE IF "bgp" \in h.bad THEN "Idle" ELSE "Established", 1>>,
                     <<"workload_state", Row(h), 1>>}
             Def == {<<"host_default_path", "member", Bit(h.default = "floor")>> : x \in {h.default} \ {"none"}}
             Ing == IF h.kind = "leaf" THEN {} ELSE Two \cup Def
  <1>1. Truth(h) = Base \cup Ports \cup IF ~h.applied THEN {} ELSE Bfd \cup Wire \cup Bond \cup Gw \cup Ing
    BY Zenon DEF Truth
  <1>2. s \in Base <=> s = <<"fabric_state", Verdict(h), 1>> \/ s = <<"component_state-engine", h.engine, 1>>
    OBVIOUS
  <1>3. s \in Ports <=> \E w \in Wires : s = <<"probe_port_usable", w, Bit(h.probed[w] # "dark")>>
    BY Zenon
  <1>4. s \in Bfd <=> \E l \in SegLegs : s = <<"bfd_session_up", l, Bit(h.engine = "running" /\ l \notin h.down)>>
    BY Zenon
  <1>5. s \in Wire <=> s = <<"wire_present", "home", Bit("wire" \notin h.bad)>>
    BY Zenon
  <1>6. s \in Bond <=> h.bond.readable /\ h.bond.active \in Wires /\ s = <<"fallback_active", h.bond.active, 1>>
    OBVIOUS
  <1>7. s \in Gw <=> h.kind = "plain" /\ s = <<"ingress_reachable", "zone", Bit(Reach(h.gwProbed) # "AllDark")>>
    OBVIOUS
  <1>8. s \in Two <=> \/ s = <<"bgp_neighbor_state", IF h.engine # "running" THEN "absent"
                                          ELSE IF "bgp" \in h.bad THEN "Idle" ELSE "Established", 1>>
                      \/ s = <<"workload_state", Row(h), 1>>
    BY Zenon
  <1>9. s \in Def <=> h.default # "none" /\ s = <<"host_default_path", "member", Bit(h.default = "floor")>>
    OBVIOUS
  <1>10. s \in Ing <=> h.kind # "leaf" /\ (s \in Two \/ s \in Def)
    <2> HIDE DEF Two, Def
    <2> QED OBVIOUS
  <1>11. s \in Truth(h) <=>
            \/ s \in Base \/ s \in Ports
            \/ h.applied /\ (s \in Bfd \/ s \in Wire \/ s \in Bond \/ s \in Gw \/ s \in Ing)
    <2> HIDE DEF Base, Ports, Bfd, Wire, Bond, Gw, Ing
    <2> QED BY <1>1, SMT
  <1> HIDE DEF Base, Ports, Bfd, Wire, Bond, Gw, Ing, Two, Def
  <1> QED BY <1>2, <1>3, <1>4, <1>5, <1>6, <1>7, <1>8, <1>9, <1>10, <1>11, Zenon DEF TrueOf

\* While at most one thing changed, a member whose run directory was there stands beside
\* every one that was seen.
LEMMA WitnessApplied ==
    ASSUME ReadInv, OneChange(ever), NEW j \in ever, j.applied, NEW k \in ever
    PROVE  \E h \in ever : h.applied /\ SameButApplied(h, k)
  <1>0. ever \subseteq Hosts
    BY DEF ReadInv, SeenOK
  <1>1. CASE k.applied
    BY <1>1 DEF SameButApplied
  <1>2. CASE ~k.applied
    <2>1. j # k /\ ever = {j, k}
      BY <1>2 DEF OneChange
    <2>2. k \in Changes(j) \/ j \in Changes(k)
      BY <2>1 DEF ReadInv, OneApart
    <2>3. Beside(j, k) \/ Beside(k, j)
      BY <1>0, <2>2, ChangeTyped
    <2>4. SameButApplied(j, k)
      BY <1>2, <2>3 DEF Beside, SameButApplied
    <2> QED BY <2>4
  <1> QED BY <1>1, <1>2

\* Of two members that stand beside each other one has the row that is put together from both.
LEMMA RowTogether ==
    ASSUME ReadInv, OneChange(ever), NEW b \in ever, NEW g \in ever, NEW c \in ever, NEW doc, DocumentOf(doc, c),
           NEW j \in ever, j.applied, host.kind # "leaf"
    PROVE  \E h \in ever : h.applied /\ RowNow(g, doc, "sibling" \in b.bad) = Row(h)
  <1>0. ever \subseteq Hosts /\ g.kind # "leaf"
    BY DEF ReadInv, SeenOK
  <1>1. Says(doc, "announcer") <=> "announcer" \in c.bad
    BY DEF DocumentOf, Says, Told
  <1>3. RowNow(g, doc, "sibling" \in b.bad) =
           IF "deferred" \in g.bad THEN "Deferred"
           ELSE IF RowFaults(g) # {} \/ "sibling" \in b.bad THEN "Broken"
           ELSE IF "announcer" \in c.bad THEN "AnnouncerNotStarted" ELSE "Up"
    BY <1>0, <1>1 DEF RowNow
  <1>4. ASSUME NEW h \in ever, h.bad \cap {"sibling"} = b.bad \cap {"sibling"},
               h.bad \cap {"announcer"} = c.bad \cap {"announcer"},
               \A f : f \notin {"sibling", "announcer"} => (f \in h.bad <=> f \in g.bad)
        PROVE  RowNow(g, doc, "sibling" \in b.bad) = Row(h)
    BY <1>3, <1>4 DEF Row, RowFaults
  <1>5. CASE b.bad = g.bad /\ c.bad = g.bad
    <2>1. PICK h \in ever : h.applied /\ SameButApplied(h, g)
      BY WitnessApplied
    <2> QED BY <1>4, <1>5, <2>1 DEF SameButApplied
  <1>6. CASE ~(b.bad = g.bad /\ c.bad = g.bad)
    <2>1. PICK u \in ever, v \in ever : ever = {u, v} /\ u.bad # v.bad
      BY <1>6 DEF OneChange
    <2>2. v \in Changes(u) \/ u \in Changes(v)
      BY <2>1 DEF ReadInv, OneApart
    <2>3. Beside(u, v) \/ Beside(v, u)
      BY <1>0, <2>2, ChangeTyped
    <2>4. u.applied = v.applied /\ \E f \in Plain : SameButFault(u, v, f)
      BY <2>1, <2>3 DEF Beside, SameButApplied, SameButFault
    <2>5. PICK f \in Plain : SameButFault(u, v, f)
      BY <2>4
    <2>6. \A x \in ever : x.applied
      BY <2>1, <2>4
    <2>7. \A x, y \in ever : SameButFault(x, y, f)
      BY <2>1, <2>5 DEF SameButFault
    <2>8. CASE f = "sibling"
      BY <1>4, <2>6, <2>7, <2>8 DEF SameButFault
    <2>9. CASE f = "announcer"
      BY <1>4, <2>6, <2>7, <2>9 DEF SameButFault
    <2>10. CASE f \notin {"sibling", "announcer"}
      BY <1>4, <2>6, <2>7, <2>10 DEF SameButFault
    <2> QED BY <2>8, <2>9, <2>10
  <1> QED BY <1>5, <1>6

\* What the supervisor's gather has in hand when it publishes.
LEMMA ModelRead ==
    ASSUME ReadInv, stPc = "report", asker = "supervisor"
    PROVE  /\ host \in ever /\ ever \subseteq Hosts /\ \A h \in ever : h.kind = host.kind
           /\ \E h \in ever : DocumentOf(comps, h)
           /\ \E h \in ever : applied = h.applied
           /\ ~applied => seen = Nothing /\ rowState = "none" /\ engineDoc = Silent
           /\ applied => /\ \E h \in ever : engineDoc = EngineAnswer(h)
                         /\ \E h \in ever : wireGone = ("wire" \in h.bad)
                         /\ \E h \in ever : seen.fallback = FallbackLeg(h, comps, wireGone)
                         /\ \E h \in ever : seen.default = h.default
                         /\ seen.why = "no-gw-zone" <=> host.kind = "leaf"
                         /\ \E b, h \in ever : rowState = RowNow(h, comps, "sibling" \in b.bad)
                         /\ seen.ingress = Silent \/ \E h \in ever : seen.ingress = IngressLeg(h, comps, wireGone)
           /\ applied /\ host.kind # "leaf" =>
                 /\ \E h \in ever : seen.ingress = IngressLeg(h, comps, wireGone)
                 /\ seen.bgp = IF ~engineDoc.answers THEN "unread"
                               ELSE IF Says(engineDoc, "bgp") THEN "Idle" ELSE "Established"
  <1>1. stPc \in PastBegin /\ stPc \in PastDoc /\ stPc \in PastAbsent /\ stPc \in PastLinks /\ stPc \in PastReturn
        /\ stPc \in PastRow
    BY PlacesApart
  <1> QED BY <1>1
      DEF ReadInv, SeenOK, CompsRead, DocRead, WireRead, AppliedRead, RowRead, LegsRead, IngressRead, FallbackRead,
          DefaultRead

\* Verdict and headline agree on what the engine answered.
LEMMA HeadlineIs ==
    ASSUME NEW k \in Hosts, engineDoc = EngineAnswer(k)
    PROVE  /\ UpLegs(engineDoc) = IF k.engine = "running" THEN SegLegs \ k.down ELSE {}
           /\ TwoWay(engineDoc) <=> k.engine = "running" /\ k.near
           /\ engineDoc.answers <=> k.engine = "running"
           /\ Says(engineDoc, "bgp") <=> k.engine = "running" /\ "bgp" \in k.bad
           /\ \A h : h.applied /\ SameButApplied(h, k) => HeadlineState = Verdict(h)
  <1>1. /\ UpLegs(engineDoc) = IF k.engine = "running" THEN SegLegs \ k.down ELSE {}
        /\ TwoWay(engineDoc) <=> k.engine = "running" /\ k.near
        /\ engineDoc.answers <=> k.engine = "running"
        /\ Says(engineDoc, "bgp") <=> k.engine = "running" /\ "bgp" \in k.bad
    BY DEF EngineAnswer, UpLegs, TwoWay, Says, Silent, Hosts
  <1>2. ASSUME NEW h, h.applied, SameButApplied(h, k) PROVE HeadlineState = Verdict(h)
    BY <1>1, <1>2 DEF HeadlineState, Verdict, SameButApplied
  <1> QED BY <1>1, <1>2

\* The fields of the model.
LEMMA ModelIs ==
    /\ Model.kind = (IF host.kind = "leaf" THEN "leaf" ELSE "host") /\ Model.state = StateNow
    /\ Model.applied = applied /\ Model.up = UpLegs(engineDoc) /\ Model.links = SegLegs
    /\ Model.fallback = seen.fallback /\ Model.ingress = seen.ingress /\ Model.bgp = seen.bgp /\ Model.row = rowState
    /\ Model.default = seen.default /\ Model.why = seen.why /\ Model.comps = comps
    /\ Model.lines = reasons \cup Standing(When(Says(comps, "metrics"), "metrics"))
    /\ Legs(Model) = {seen.fallback, seen.ingress} \ {Silent}
  BY DEF Model, Legs

\* Every leg tells of the same wires.
LEMMA LegsAre ==
    ASSUME ReadInv, stPc = "report", asker = "supervisor"
    PROVE  /\ ~applied => Legs(Model) = {}
           /\ applied => Legs(Model) # {} /\ \A l \in Legs(Model) : l.absent = When(wireGone, "home")
  <1>1. ASSUME ~applied PROVE Legs(Model) = {}
    <2>1. seen.fallback = Silent /\ seen.ingress = Silent
      BY <1>1, ModelRead DEF Nothing
    <2> QED BY <2>1, ModelIs
  <1>2. ASSUME applied PROVE Legs(Model) # {} /\ \A l \in Legs(Model) : l.absent = When(wireGone, "home")
    <2>1. \A kind, b, r, h : LegRow(kind, b, r, h, wireGone).absent = When(wireGone, "home")
                             /\ LegRow(kind, b, r, h, wireGone) # Silent
      BY DEF LegRow, Silent
    <2>2. seen.fallback # Silent /\ seen.fallback.absent = When(wireGone, "home")
      BY <1>2, <2>1, ModelRead DEF FallbackLeg
    <2>3. seen.ingress = Silent \/ seen.ingress.absent = When(wireGone, "home")
      BY <1>2, <2>1, ModelRead DEF IngressLeg
    <2> QED BY <2>2, <2>3, ModelIs
  <1> QED BY <1>1, <1>2

\* What the page says was true of a member that was seen.
LEMMA ClaimsTrue ==
    ASSUME ReadInv, stPc = "report", asker = "supervisor", OneChange(ever), NEW s, Claims(Model, s)
    PROVE  \E h \in ever : TrueOf(h, s)
  <1>0. host \in ever /\ ever \subseteq Hosts /\ \A h \in ever : h.kind = host.kind
    BY ModelRead
  <1>1. PICK c \in ever : DocumentOf(comps, c)
    BY ModelRead
  <1>2. PICK j \in ever : applied = j.applied
    BY ModelRead
  <1>3. ASSUME s = <<"fabric_state", StateNow, 1>> PROVE \E h \in ever : TrueOf(h, s)
    <2>1. CASE applied
      <3>1. PICK k \in ever : engineDoc = EngineAnswer(k)
        BY <2>1, ModelRead
      <3>2. PICK h \in ever : h.applied /\ SameButApplied(h, k)
        BY <1>2, <2>1, <3>1, WitnessApplied
      <3>3. StateNow = Verdict(h)
        BY <1>0, <2>1, <3>1, <3>2, HeadlineIs DEF StateNow
      <3> QED BY <1>3, <3>3 DEF TrueOf
    <2>2. CASE ~applied
      <3>1. StateNow = Verdict(j)
        BY <1>2, <2>2 DEF StateNow, Verdict
      <3> QED BY <1>3, <3>1 DEF TrueOf
    <2> QED BY <2>1, <2>2
  <1>4. ASSUME s = <<"component_state-engine", comps.engine, 1>> PROVE TrueOf(c, s)
    BY <1>1, <1>4 DEF DocumentOf, TrueOf
  <1>5. ASSUME NEW w \in Wires, s = <<"probe_port_usable", w, Bit(comps.probed[w] # "dark")>> PROVE TrueOf(c, s)
    BY <1>1, <1>5 DEF DocumentOf, TrueOf
  <1>6. ASSUME applied, NEW l \in SegLegs, s = <<"bfd_session_up", l, Bit(l \in UpLegs(engineDoc))>>
        PROVE  \E h \in ever : TrueOf(h, s)
    <2>1. PICK k \in ever : engineDoc = EngineAnswer(k)
      BY <1>6, ModelRead
    <2>2. PICK h \in ever : h.applied /\ SameButApplied(h, k)
      BY <1>2, <1>6, <2>1, WitnessApplied
    <2>3. l \in UpLegs(engineDoc) <=> h.engine = "running" /\ l \notin h.down
      BY <1>0, <2>1, <2>2, HeadlineIs DEF SameButApplied
    <2>4. s = <<"bfd_session_up", l, Bit(h.engine = "running" /\ l \notin h.down)>>
      BY <1>6, <2>3 DEF Bit
    <2> QED BY <2>2, <2>4 DEF TrueOf
  <1>7. ASSUME Legs(Model) # {}, s = <<"wire_present", "home", Bit(\E l \in Legs(Model) : "home" \notin l.absent)>>
        PROVE  \E h \in ever : TrueOf(h, s)
    <2>1. applied /\ ((\E l \in Legs(Model) : "home" \notin l.absent) <=> ~wireGone)
      BY <1>7, LegsAre DEF When
    <2>2. PICK k \in ever : wireGone = ("wire" \in k.bad)
      BY <2>1, ModelRead
    <2>3. PICK h \in ever : h.applied /\ SameButApplied(h, k)
      BY <1>2, <2>1, <2>2, WitnessApplied
    <2>4. s = <<"wire_present", "home", Bit("wire" \notin h.bad)>>
      BY <1>7, <2>1, <2>2, <2>3 DEF SameButApplied, Bit
    <2> QED BY <2>3, <2>4, Zenon DEF TrueOf
  <1>8. ASSUME ActiveWire(seen.fallback) # "none", s = <<"fallback_active", ActiveWire(seen.fallback), 1>>
        PROVE  \E h \in ever : TrueOf(h, s)
    <2>1. applied
      BY <1>8, ModelRead DEF ActiveWire, Silent, Nothing
    <2>2. PICK k \in ever : seen.fallback = FallbackLeg(k, comps, wireGone)
      BY <2>1, ModelRead
    <2>3. PICK h \in ever : h.applied /\ SameButApplied(h, k)
      BY <1>2, <2>1, <2>2, WitnessApplied
    <2>4. h.bond.readable /\ h.bond.active \in Wires /\ ActiveWire(seen.fallback) = h.bond.active
      BY <1>8, <2>2, <2>3 DEF ActiveWire, FallbackLeg, LegRow, SameButApplied
    <2> QED BY <1>8, <2>3, <2>4 DEF TrueOf
  <1>9. ASSUME applied, host.kind # "leaf", seen.ingress.answers, seen.ingress.reach # "Unknown",
               s = <<"ingress_reachable", "zone", Bit(seen.ingress.reach \notin {"AllDark", "Quiet"})>>
        PROVE  \E h \in ever : TrueOf(h, s)
    <2>1. PICK k \in ever : seen.ingress = IngressLeg(k, comps, wireGone)
      BY <1>9, ModelRead
    <2>2. host.kind = "plain" /\ seen.ingress.reach = Reach(c.gwProbed)
      BY <1>0, <1>1, <1>9, <2>1 DEF IngressLeg, LegRow, Silent, DocumentOf
    <2>3. PICK h \in ever : h.applied /\ SameButApplied(h, c)
      BY <1>2, <1>9, WitnessApplied
    <2>4. h.gwProbed = c.gwProbed /\ c.gwProbed.quiet = FALSE /\ c.gwProbed.home \in {"heard", "suspect", "dark"}
      BY <1>0, <2>3 DEF SameButApplied, Hosts, Probes
    <2>5. Reach(c.gwProbed) # "Quiet"
      BY <2>4 DEF Reach
    <2>6. s = <<"ingress_reachable", "zone", Bit(Reach(h.gwProbed) # "AllDark")>>
      BY <1>9, <2>2, <2>4, <2>5 DEF Bit
    <2> QED BY <1>0, <2>2, <2>3, <2>6 DEF TrueOf
  <1>10. ASSUME applied, host.kind # "leaf",
                s = <<"bgp_neighbor_state", IF seen.bgp = "unread" THEN "absent" ELSE seen.bgp, 1>>
         PROVE  \E h \in ever : TrueOf(h, s)
    <2>1. PICK k \in ever : engineDoc = EngineAnswer(k)
      BY <1>10, ModelRead
    <2>2. PICK h \in ever : h.applied /\ SameButApplied(h, k)
      BY <1>2, <1>10, <2>1, WitnessApplied
    <2>3. seen.bgp = IF ~engineDoc.answers THEN "unread"
                     ELSE IF Says(engineDoc, "bgp") THEN "Idle" ELSE "Established"
      BY <1>10, ModelRead
    <2>4. (IF seen.bgp = "unread" THEN "absent" ELSE seen.bgp)
             = IF h.engine # "running" THEN "absent" ELSE IF "bgp" \in h.bad THEN "Idle" ELSE "Established"
      BY <1>0, <2>1, <2>2, <2>3, HeadlineIs DEF SameButApplied
    <2> QED BY <1>0, <1>10, <2>2, <2>4 DEF TrueOf
  <1>11. ASSUME rowState # "none", s = <<"workload_state", rowState, 1>>
         PROVE  \E h \in ever : TrueOf(h, s)
    <2>1. applied
      BY <1>11, ModelRead
    <2>2. PICK b \in ever, g \in ever : rowState = RowNow(g, comps, "sibling" \in b.bad)
      BY <2>1, ModelRead
    <2>3. host.kind # "leaf"
      BY <1>0, <1>11, <2>2 DEF RowNow
    <2>4. PICK h \in ever : h.applied /\ rowState = Row(h)
      BY <1>1, <1>2, <2>1, <2>2, <2>3, RowTogether
    <2> QED BY <1>0, <1>11, <2>3, <2>4 DEF TrueOf
  <1>12. ASSUME seen.why # "no-gw-zone", seen.default \in {"fabric", "floor"},
                s = <<"host_default_path", "member", Bit(seen.default = "floor")>>
         PROVE  \E h \in ever : TrueOf(h, s)
    <2>1. applied
      BY <1>12, ModelRead DEF Nothing
    <2>2. host.kind # "leaf"
      BY <1>12, <2>1, ModelRead
    <2>3. PICK k \in ever : seen.default = k.default
      BY <2>1, ModelRead
    <2>4. PICK h \in ever : h.applied /\ SameButApplied(h, k)
      BY <1>2, <2>1, <2>3, WitnessApplied
    <2>5. h.default = seen.default /\ h.kind # "leaf"
      BY <1>0, <2>2, <2>3, <2>4 DEF SameButApplied
    <2> QED BY <1>12, <2>4, <2>5 DEF TrueOf
  <1>13. \/ s = <<"fabric_state", StateNow, 1>>
         \/ s = <<"component_state-engine", comps.engine, 1>>
         \/ \E w \in Wires : s = <<"probe_port_usable", w, Bit(comps.probed[w] # "dark")>>
         \/ applied /\ \E l \in SegLegs : s = <<"bfd_session_up", l, Bit(l \in UpLegs(engineDoc))>>
         \/ Legs(Model) # {} /\ s = <<"wire_present", "home", Bit(\E l \in Legs(Model) : "home" \notin l.absent)>>
         \/ ActiveWire(seen.fallback) # "none" /\ s = <<"fallback_active", ActiveWire(seen.fallback), 1>>
         \/ /\ applied /\ Model.kind # "leaf" /\ seen.ingress.answers /\ seen.ingress.reach # "Unknown"
            /\ s = <<"ingress_reachable", "zone", Bit(seen.ingress.reach \notin {"AllDark", "Quiet"})>>
         \/ /\ applied /\ Model.kind # "leaf"
            /\ s = <<"bgp_neighbor_state", IF seen.bgp = "unread" THEN "absent" ELSE seen.bgp, 1>>
         \/ rowState # "none" /\ s = <<"workload_state", rowState, 1>>
         \/ /\ seen.why # "no-gw-zone" /\ seen.default \in {"fabric", "floor"}
            /\ s = <<"host_default_path", "member", Bit(seen.default = "floor")>>
    <2>1. Claims(Model, s)
      OBVIOUS
    <2> QED BY <2>1, ModelIs, Zenon DEF Claims
  <1>14. Model.kind # "leaf" => host.kind # "leaf"
    BY ModelIs
  <1> QED BY <1>3, <1>4, <1>5, <1>6, <1>7, <1>8, <1>9, <1>10, <1>11, <1>12, <1>13, <1>14, Zenon

\* The family of a series says which truth it is.
LEMMA TrueByFamily ==
    ASSUME NEW h, NEW s, TrueOf(h, s)
    PROVE  /\ s[1] = "fabric_state" => s = <<"fabric_state", Verdict(h), 1>>
           /\ s[1] = "component_state-engine" => s = <<"component_state-engine", h.engine, 1>>
           /\ s[1] = "probe_port_usable" => s = <<"probe_port_usable", s[2], Bit(h.probed[s[2]] # "dark")>> /\ s[2] \in Wires
           /\ s[1] = "bfd_session_up" =>
                 /\ h.applied /\ s[2] \in SegLegs
                 /\ s = <<"bfd_session_up", s[2], Bit(h.engine = "running" /\ s[2] \notin h.down)>>
           /\ s[1] = "wire_present" => h.applied /\ s = <<"wire_present", "home", Bit("wire" \notin h.bad)>>
           /\ s[1] = "fallback_active" =>
                 h.applied /\ h.bond.readable /\ h.bond.active \in Wires /\ s = <<"fallback_active", h.bond.active, 1>>
           /\ s[1] = "ingress_reachable" =>
                 /\ h.applied /\ h.kind = "plain"
                 /\ s = <<"ingress_reachable", "zone", Bit(Reach(h.gwProbed) # "AllDark")>>
           /\ s[1] = "bgp_neighbor_state" =>
                 /\ h.applied /\ h.kind # "leaf"
                 /\ s = <<"bgp_neighbor_state", IF h.engine # "running" THEN "absent"
                                                ELSE IF "bgp" \in h.bad THEN "Idle" ELSE "Established", 1>>
           /\ s[1] = "workload_state" => h.applied /\ h.kind # "leaf" /\ s = <<"workload_state", Row(h), 1>>
           /\ s[1] = "host_default_path" =>
                 /\ h.applied /\ h.kind # "leaf" /\ h.default # "none"
                 /\ s = <<"host_default_path", "member", Bit(h.default = "floor")>>
           /\ s[1] \in {"fabric_state", "component_state-engine", "probe_port_usable", "bfd_session_up", "wire_present",
                        "fallback_active", "ingress_reachable", "bgp_neighbor_state", "workload_state",
                        "host_default_path"}
  BY DEF TrueOf

\* What was true of every member that was seen is on the page.
LEMMA TruthsThere ==
    ASSUME ReadInv, stPc = "report", asker = "supervisor", OneChange(ever), NEW s, \A g \in ever : TrueOf(g, s)
    PROVE  Claims(Model, s)
  <1>0. host \in ever /\ ever \subseteq Hosts /\ \A h \in ever : h.kind = host.kind
    BY ModelRead
  <1>1. PICK c \in ever : DocumentOf(comps, c)
    BY ModelRead
  <1>2. PICK j \in ever : applied = j.applied
    BY ModelRead
  <1>3. CASE s[1] = "fabric_state"
    <2>1. \A g \in ever : s = <<"fabric_state", Verdict(g), 1>>
      BY <1>3, TrueByFamily
    <2>2. \E h \in ever : StateNow = Verdict(h)
      <3>1. CASE applied
        <4>1. PICK k \in ever : engineDoc = EngineAnswer(k)
          BY <3>1, ModelRead
        <4>2. PICK h \in ever : h.applied /\ SameButApplied(h, k)
          BY <1>2, <3>1, <4>1, WitnessApplied
        <4> QED BY <1>0, <3>1, <4>1, <4>2, HeadlineIs DEF StateNow
      <3>2. CASE ~applied
        BY <1>2, <3>2 DEF StateNow, Verdict
      <3> QED BY <3>1, <3>2
    <2>3. s = <<"fabric_state", Model.state, 1>>
      BY <2>1, <2>2, ModelIs
    <2> QED BY <2>3 DEF Claims
  <1>4. CASE s[1] = "component_state-engine"
    <2>1. s = <<"component_state-engine", c.engine, 1>>
      BY <1>4, TrueByFamily
    <2>2. s = <<"component_state-engine", Model.comps.engine, 1>>
      BY <1>1, <2>1, ModelIs DEF DocumentOf
    <2> QED BY <2>2 DEF Claims
  <1>5. CASE s[1] = "probe_port_usable"
    <2>1. s[2] \in Wires /\ s = <<"probe_port_usable", s[2], Bit(c.probed[s[2]] # "dark")>>
      BY <1>5, TrueByFamily
    <2>2. s = <<"probe_port_usable", s[2], Bit(Model.comps.probed[s[2]] # "dark")>>
      BY <1>1, <2>1, ModelIs DEF DocumentOf
    <2> QED BY <2>1, <2>2 DEF Claims
  <1>6. CASE s[1] = "bfd_session_up"
    <2>1. applied
      BY <1>2, <1>6, TrueByFamily
    <2>2. PICK k \in ever : engineDoc = EngineAnswer(k)
      BY <2>1, ModelRead
    <2>3. s[2] \in SegLegs /\ s = <<"bfd_session_up", s[2], Bit(k.engine = "running" /\ s[2] \notin k.down)>>
      BY <1>6, TrueByFamily
    <2>4. s[2] \in UpLegs(engineDoc) <=> k.engine = "running" /\ s[2] \notin k.down
      BY <1>0, <2>2, <2>3, HeadlineIs
    <2>5. s = <<"bfd_session_up", s[2], Bit(s[2] \in UpLegs(engineDoc))>>
      BY <2>3, <2>4 DEF Bit
    <2>6. Model.applied /\ s[2] \in Model.links /\ s = <<"bfd_session_up", s[2], Bit(s[2] \in Model.up)>>
      BY <2>1, <2>3, <2>5, ModelIs
    <2> QED BY <2>6 DEF Claims
  <1>7. CASE s[1] = "wire_present"
    <2>1. applied
      BY <1>2, <1>7, TrueByFamily
    <2>2. PICK k \in ever : wireGone = ("wire" \in k.bad)
      BY <2>1, ModelRead
    <2>3. s = <<"wire_present", "home", Bit("wire" \notin k.bad)>>
      BY <1>7, TrueByFamily
    <2>4. Legs(Model) # {} /\ ((\E l \in Legs(Model) : "home" \notin l.absent) <=> ~wireGone)
      BY <2>1, LegsAre DEF When
    <2>5. s = <<"wire_present", "home", Bit(\E l \in Legs(Model) : "home" \notin l.absent)>>
      BY <2>2, <2>3, <2>4 DEF Bit
    <2> QED BY <2>4, <2>5, Zenon DEF Claims
  <1>8. CASE s[1] = "fallback_active"
    <2>1. applied
      BY <1>2, <1>8, TrueByFamily
    <2>2. PICK k \in ever : seen.fallback = FallbackLeg(k, comps, wireGone)
      BY <2>1, ModelRead
    <2>3. k.bond.readable /\ k.bond.active \in Wires /\ s = <<"fallback_active", k.bond.active, 1>>
      BY <1>8, TrueByFamily
    <2>4. ActiveWire(seen.fallback) = k.bond.active /\ k.bond.active # "none"
      BY <2>2, <2>3 DEF ActiveWire, FallbackLeg, LegRow, Wires
    <2>5. ActiveWire(Model.fallback) # "none" /\ s = <<"fallback_active", ActiveWire(Model.fallback), 1>>
      BY <2>3, <2>4, ModelIs
    <2> QED BY <2>5 DEF Claims
  <1>9. CASE s[1] = "ingress_reachable"
    <2>1. applied /\ host.kind = "plain"
      BY <1>0, <1>2, <1>9, TrueByFamily
    <2>2. PICK k \in ever : seen.ingress = IngressLeg(k, comps, wireGone)
      BY <2>1, ModelRead
    <2>3. seen.ingress.answers /\ seen.ingress.reach = Reach(c.gwProbed)
      BY <1>0, <1>1, <2>1, <2>2 DEF IngressLeg, LegRow, DocumentOf
    <2>4. c.gwProbed.quiet = FALSE /\ c.gwProbed.home \in {"heard", "suspect", "dark"}
      BY <1>0 DEF Hosts, Probes
    <2>5. Reach(c.gwProbed) # "Quiet" /\ Reach(c.gwProbed) # "Unknown"
      BY <2>4 DEF Reach
    <2>6. s = <<"ingress_reachable", "zone", Bit(Reach(c.gwProbed) # "AllDark")>>
      BY <1>9, TrueByFamily
    <2>7. s = <<"ingress_reachable", "zone", Bit(seen.ingress.reach \notin {"AllDark", "Quiet"})>>
      BY <2>3, <2>5, <2>6 DEF Bit
    <2>8. /\ Model.applied /\ Model.kind # "leaf" /\ Model.ingress.answers /\ Model.ingress.reach # "Unknown"
          /\ s = <<"ingress_reachable", "zone", Bit(Model.ingress.reach \notin {"AllDark", "Quiet"})>>
      BY <2>1, <2>3, <2>5, <2>7, ModelIs
    <2> QED BY <2>8 DEF Claims
  <1>10. CASE s[1] = "bgp_neighbor_state"
    <2>1. applied /\ host.kind # "leaf"
      BY <1>0, <1>2, <1>10, TrueByFamily
    <2>2. PICK k \in ever : engineDoc = EngineAnswer(k)
      BY <2>1, ModelRead
    <2>3. s = <<"bgp_neighbor_state", IF k.engine # "running" THEN "absent"
                                      ELSE IF "bgp" \in k.bad THEN "Idle" ELSE "Established", 1>>
      BY <1>10, TrueByFamily
    <2>4. seen.bgp = IF ~engineDoc.answers THEN "unread"
                     ELSE IF Says(engineDoc, "bgp") THEN "Idle" ELSE "Established"
      BY <2>1, ModelRead
    <2>5. (IF Model.bgp = "unread" THEN "absent" ELSE Model.bgp)
             = IF k.engine # "running" THEN "absent" ELSE IF "bgp" \in k.bad THEN "Idle" ELSE "Established"
      BY <1>0, <2>2, <2>4, HeadlineIs, ModelIs
    <2>6. /\ Model.applied /\ Model.kind # "leaf"
          /\ s = <<"bgp_neighbor_state", IF Model.bgp = "unread" THEN "absent" ELSE Model.bgp, 1>>
      BY <2>1, <2>3, <2>5, ModelIs
    <2> QED BY <2>6 DEF Claims
  <1>11. CASE s[1] = "workload_state"
    <2>1. applied /\ host.kind # "leaf"
      BY <1>0, <1>2, <1>11, TrueByFamily
    <2>2. PICK b \in ever, g \in ever : rowState = RowNow(g, comps, "sibling" \in b.bad)
      BY <2>1, ModelRead
    <2>3. PICK h \in ever : h.applied /\ rowState = Row(h)
      BY <1>1, <1>2, <2>1, <2>2, RowTogether
    <2>4. s = <<"workload_state", Row(h), 1>> /\ Row(h) # "none"
      BY <1>11, TrueByFamily DEF Row
    <2>5. Model.row # "none" /\ s = <<"workload_state", Model.row, 1>>
      BY <2>3, <2>4, ModelIs
    <2> QED BY <2>5 DEF Claims
  <1>12. CASE s[1] = "host_default_path"
    <2>1. applied /\ host.kind # "leaf"
      BY <1>0, <1>2, <1>12, TrueByFamily
    <2>2. PICK k \in ever : seen.default = k.default
      BY <2>1, ModelRead
    <2>3. k.default \in {"fabric", "floor"} /\ s = <<"host_default_path", "member", Bit(k.default = "floor")>>
      BY <1>0, <1>12, TrueByFamily DEF Hosts
    <2>4. seen.why # "no-gw-zone"
      BY <2>1, ModelRead
    <2>5. /\ Model.why # "no-gw-zone" /\ Model.default \in {"fabric", "floor"}
          /\ s = <<"host_default_path", "member", Bit(Model.default = "floor")>>
      BY <2>2, <2>3, <2>4, ModelIs
    <2> QED BY <2>5 DEF Claims
  <1>13. TrueOf(host, s)
    BY <1>0
  <1> QED BY <1>3, <1>4, <1>5, <1>6, <1>7, <1>8, <1>9, <1>10, <1>11, <1>12, <1>13, TrueByFamily

\* What a page says was true of a member seen while it was put together, and what was true
\* throughout it says.
PageSeries == OneChange(page.of) => SeriesTrue /\ SeriesThere

\* It stays so: a page is replaced as a whole, by a gather that ended.
LEMMA SeriesStep ==
    ASSUME ReadInv, PageSeries, StatusNext
    PROVE  PageSeries'
  <1>1. CASE Publish
    <2>1. page' = [of |-> ever, series |-> Page(Model)] /\ stPc = "report" /\ asker = "supervisor"
      BY <1>1 DEF Publish
    <2>2. page'.of = ever /\ page'.series = Page(Model)
      BY <2>1
    <2>3. ASSUME OneChange(ever), NEW s \in Page(Model), Spoken(s)
          PROVE  \E h \in ever : s \in Truth(h)
      <3>1. Claims(Model, s)
        BY <2>3, PageClaims
      <3>2. PICK h \in ever : TrueOf(h, s)
        BY <2>1, <2>3, <3>1, ClaimsTrue
      <3> QED BY <3>2, TruthIs
    <2>4. ASSUME OneChange(ever), NEW s, \A g \in ever : s \in Truth(g)
          PROVE  s \in Page(Model)
      <3>1. \A g \in ever : TrueOf(g, s)
        BY <2>4, TruthIs
      <3>2. Claims(Model, s)
        BY <2>1, <2>4, <3>1, TruthsThere
      <3> QED BY <3>2, PageClaims
    <2>5. OneChange(ever) => SeriesTrue' /\ SeriesThere'
      BY <2>2, <2>3, <2>4, Zenon DEF SeriesTrue, SeriesThere
    <2> QED BY <2>2, <2>5 DEF PageSeries
  <1>2. CASE ~Publish
    <2>1. UNCHANGED page \/ page' = Unserved
      <3>1. CASE ReadingStep
        BY <3>1, ReadsKeep
      <3>2. CASE Begins
        BY <3>2, BeginsFresh DEF ReadInv
      <3>3. CASE Report \/ GatherFails
        BY <3>3 DEF Report, GatherFails
      <3>4. CASE Again \/ HostMoves
        BY <3>4, AgainFresh, MovesKeep
      <3> QED BY <1>2, <3>1, <3>2, <3>3, <3>4 DEF StatusNext, ReadingStep, Begins
    <2>2. ~OneChange(Unserved.of)
      BY DEF OneChange, Unserved
    <2> QED BY <2>1, <2>2 DEF PageSeries, SeriesTrue, SeriesThere
  <1> QED BY <1>1, <1>2

-----------------------------------------------------------------------------
(* The words.  Of a member that does not change every step says the same,  *)
(* whoever asks, so the lines of a gather are a function of the member and *)
(* of how far the gather is.                                               *)

\* The document of a member, as far as a line depends on it.
CompsOf(h) == [answers |-> TRUE, engine |-> h.engine, probed |-> h.probed, gw |-> h.gwProbed, bad |-> h.bad \cap Told]

From(pc, past, lines) == IF pc \in past THEN lines ELSE {}

\* The lines of a gather that has come to a place.
WordsAt(h, pc) ==
    From(pc, PastCustody, CustodyReasons(h, CompsOf(h)))
    \cup From(pc, PastDoc, EngineDown(h))
    \cup From(pc, PastPosture, PostureReasons(h, CompsOf(h), EngineAnswer(h), "wire" \in h.bad))
    \cup From(pc, PastReturn, ReturnReasons(h, CompsOf(h), EngineAnswer(h), "wire" \in h.bad))
    \cup From(pc, PastRow, RowReasons(h, CompsOf(h)))
    \cup From(pc, PastMarks, MarkReasons(h))
    \cup From(pc, PastShape, ShapeReasons(h, CompsOf(h)))
    \cup From(pc, PastSpeeds, SpeedReasons(h, "wire" \in h.bad))
    \cup From(pc, PastLinks, LinkReasons(h, CompsOf(h), EngineAnswer(h), "wire" \in h.bad))
    \cup From(pc, PastReach, RouteReasons(h, EngineAnswer(h)))

Said(h) == WordsAt(h, "report") \cup Standing(When("metrics" \in h.bad, "metrics"))

Declared == Standing({"declaration"})

WordsRead ==
    stPc \in PastBegin /\ applied /\ ever = {host} =>
        /\ comps # Silent => /\ asker = "supervisor" => reasons = WordsAt(host, stPc)
                             /\ asker = "status" => reasons \cup Declared = WordsAt(host, stPc) \cup Declared
        /\ host.answers => comps # Silent

\* A line depends on nothing else the document says.
LEMMA WordsDepend ==
    ASSUME NEW h, NEW c, DocumentOf(c, h), NEW d, NEW gone
    PROVE  /\ CustodyReasons(h, c) = CustodyReasons(h, CompsOf(h))
           /\ PostureReasons(h, c, d, gone) = PostureReasons(h, CompsOf(h), d, gone)
           /\ ReturnReasons(h, c, d, gone) = ReturnReasons(h, CompsOf(h), d, gone)
           /\ RowReasons(h, c) = RowReasons(h, CompsOf(h))
           /\ ShapeReasons(h, c) = ShapeReasons(h, CompsOf(h))
           /\ LinkReasons(h, c, d, gone) = LinkReasons(h, CompsOf(h), d, gone)
  <1>1. /\ c.answers = CompsOf(h).answers /\ c.engine = CompsOf(h).engine /\ c.probed = CompsOf(h).probed
        /\ c.gw = CompsOf(h).gw /\ c.bad = CompsOf(h).bad
    BY DEF DocumentOf, CompsOf
  <1>2. EngineSaid(c) = EngineSaid(CompsOf(h)) /\ \A f : Says(c, f) <=> Says(CompsOf(h), f)
    BY <1>1 DEF EngineSaid, Says
  <1>3. CustodyReasons(h, c) = CustodyReasons(h, CompsOf(h))
    BY <1>2 DEF CustodyReasons
  <1>4. PostureReasons(h, c, d, gone) = PostureReasons(h, CompsOf(h), d, gone)
    <2>1. TransitPosture(h, c, gone) = TransitPosture(h, CompsOf(h), gone)
      BY <1>2 DEF TransitPosture, When
    <2> QED BY <2>1 DEF PostureReasons
  <1>5. ReturnReasons(h, c, d, gone) = ReturnReasons(h, CompsOf(h), d, gone)
    <2>1. IngressLeg(h, c, gone) = IngressLeg(h, CompsOf(h), gone)
      BY <1>1 DEF IngressLeg
    <2> QED BY <2>1 DEF ReturnReasons
  <1>6. RowReasons(h, c) = RowReasons(h, CompsOf(h))
    BY <1>2 DEF RowReasons, When
  <1>7. ShapeReasons(h, c) = ShapeReasons(h, CompsOf(h))
    BY <1>2 DEF ShapeReasons
  <1>8. LinkReasons(h, c, d, gone) = LinkReasons(h, CompsOf(h), d, gone)
    <2>1. FallbackLeg(h, c, gone) = FallbackLeg(h, CompsOf(h), gone)
      BY <1>1 DEF FallbackLeg
    <2> QED BY <2>1 DEF LinkReasons
  <1> QED BY <1>3, <1>4, <1>5, <1>6, <1>7, <1>8

\* From one place to the next a gather says what the step between them says.
LEMMA WordsNext ==
    ASSUME NEW h
    PROVE  /\ WordsAt(h, "custody") = {}
           /\ WordsAt(h, "doc") = WordsAt(h, "custody") \cup CustodyReasons(h, CompsOf(h))
           /\ WordsAt(h, "absent") = WordsAt(h, "doc") \cup EngineDown(h)
           /\ WordsAt(h, "posture") = WordsAt(h, "absent")
           /\ WordsAt(h, "return-path") =
                 WordsAt(h, "posture") \cup PostureReasons(h, CompsOf(h), EngineAnswer(h), "wire" \in h.bad)
           /\ WordsAt(h, "workload") =
                 WordsAt(h, "return-path") \cup ReturnReasons(h, CompsOf(h), EngineAnswer(h), "wire" \in h.bad)
           /\ WordsAt(h, "marks") = WordsAt(h, "workload") \cup RowReasons(h, CompsOf(h))
           /\ WordsAt(h, "shape") = WordsAt(h, "marks") \cup MarkReasons(h)
           /\ WordsAt(h, "speeds") = WordsAt(h, "shape") \cup ShapeReasons(h, CompsOf(h))
           /\ WordsAt(h, "links") = WordsAt(h, "speeds") \cup SpeedReasons(h, "wire" \in h.bad)
           /\ WordsAt(h, "reach") =
                 WordsAt(h, "links") \cup LinkReasons(h, CompsOf(h), EngineAnswer(h), "wire" \in h.bad)
           /\ WordsAt(h, "default") = WordsAt(h, "reach") \cup RouteReasons(h, EngineAnswer(h))
           /\ WordsAt(h, "report") = WordsAt(h, "default")
  <1>1. /\ \A pc, past, lines : pc \in past => From(pc, past, lines) = lines
        /\ \A pc, past, lines : pc \notin past => From(pc, past, lines) = {}
    BY DEF From
  <1>2. WordsAt(h, "custody") = {}
    BY <1>1, PlacesApart DEF WordsAt
  <1>3. WordsAt(h, "doc") = WordsAt(h, "custody") \cup CustodyReasons(h, CompsOf(h))
    BY <1>1, PlacesApart DEF WordsAt
  <1>4. WordsAt(h, "absent") = WordsAt(h, "doc") \cup EngineDown(h)
    BY <1>1, PlacesApart DEF WordsAt
  <1>5. WordsAt(h, "posture") = WordsAt(h, "absent")
    BY <1>1, PlacesApart DEF WordsAt
  <1>6. WordsAt(h, "return-path") =
           WordsAt(h, "posture") \cup PostureReasons(h, CompsOf(h), EngineAnswer(h), "wire" \in h.bad)
    BY <1>1, PlacesApart DEF WordsAt
  <1>7. WordsAt(h, "workload") =
           WordsAt(h, "return-path") \cup ReturnReasons(h, CompsOf(h), EngineAnswer(h), "wire" \in h.bad)
    BY <1>1, PlacesApart DEF WordsAt
  <1>8. WordsAt(h, "marks") = WordsAt(h, "workload") \cup RowReasons(h, CompsOf(h))
    BY <1>1, PlacesApart DEF WordsAt
  <1>9. WordsAt(h, "shape") = WordsAt(h, "marks") \cup MarkReasons(h)
    BY <1>1, PlacesApart DEF WordsAt
  <1>10. WordsAt(h, "speeds") = WordsAt(h, "shape") \cup ShapeReasons(h, CompsOf(h))
    BY <1>1, PlacesApart DEF WordsAt
  <1>11. WordsAt(h, "links") = WordsAt(h, "speeds") \cup SpeedReasons(h, "wire" \in h.bad)
    BY <1>1, PlacesApart DEF WordsAt
  <1>12. WordsAt(h, "reach") =
            WordsAt(h, "links") \cup LinkReasons(h, CompsOf(h), EngineAnswer(h), "wire" \in h.bad)
    BY <1>1, PlacesApart DEF WordsAt
  <1>13. WordsAt(h, "default") = WordsAt(h, "reach") \cup RouteReasons(h, EngineAnswer(h))
    BY <1>1, PlacesApart DEF WordsAt
  <1>14. WordsAt(h, "report") = WordsAt(h, "default")
    BY <1>1, PlacesApart DEF WordsAt
  <1> QED BY <1>2, <1>3, <1>4, <1>5, <1>6, <1>7, <1>8, <1>9, <1>10, <1>11, <1>12, <1>13, <1>14

\* Each reading step adds its words of the member.
LEMMA WordsStep ==
    ASSUME ReadInv, WordsRead, StatusNext
    PROVE  WordsRead'
  <1>1. CASE ReadingStep
    <2>1. UNCHANGED <<host, asker, comps, ever, applied>> /\ host \in ever
      BY <1>1, ReadsKeep DEF ReadInv, SeenOK
    <2> SUFFICES ASSUME applied, ever = {host}, stPc' \in PastBegin
                 PROVE  WordsRead'
      BY <2>1 DEF WordsRead
    <2>2. ~DeclarationNote
      BY PlacesApart DEF DeclarationNote
    <2>3. stPc \in PastBegin
      BY <1>1, <2>2, PlacesApart
      DEF ReadingStep, BfdPort, EngineState, AbsentIfs, Posture, ReturnPath, WorkloadPosture,
          MarkDrift, ShapePosture, LinkSpeeds, Links, Reachability, ReadHostDefault
    <2>4. host.answers => comps # Silent
      BY <2>3 DEF WordsRead
    <2>5. ASSUME comps # Silent
          PROVE  \E R : reasons' = reasons \cup R /\ WordsAt(host, stPc') = WordsAt(host, stPc) \cup R
      <3>1. DocumentOf(comps, host)
        BY <2>5 DEF ReadInv, CompsRead
      <3>2. stPc \in PastDoc => engineDoc = EngineAnswer(host)
        BY DEF ReadInv, DocRead
      <3>3. stPc \in PastAbsent => wireGone = ("wire" \in host.bad)
        BY DEF ReadInv, WireRead
      <3>4. CASE BfdPort
        BY <3>1, <3>4, WordsDepend, WordsNext DEF BfdPort
      <3>5. CASE EngineState
        BY <3>5, WordsNext DEF EngineState
      <3>6. CASE AbsentIfs
        <4>1. reasons' = reasons \cup {} /\ WordsAt(host, stPc') = WordsAt(host, stPc) \cup {}
          BY <3>6, WordsNext DEF AbsentIfs
        <4> QED BY <4>1
      <3>7. CASE Posture
        <4>1. engineDoc = EngineAnswer(host) /\ wireGone = ("wire" \in host.bad)
          BY <3>2, <3>3, <3>7, PlacesApart DEF Posture
        <4>2. /\ reasons' = reasons \cup PostureReasons(host, comps, engineDoc, wireGone)
              /\ stPc = "posture" /\ stPc' = "return-path"
          BY <3>7 DEF Posture
        <4>3. PostureReasons(host, comps, engineDoc, wireGone)
                 = PostureReasons(host, CompsOf(host), EngineAnswer(host), "wire" \in host.bad)
          BY <3>1, <4>1, WordsDepend
        <4> QED BY <4>2, <4>3, WordsNext
      <3>8. CASE ReturnPath
        <4>1. engineDoc = EngineAnswer(host) /\ wireGone = ("wire" \in host.bad)
          BY <3>2, <3>3, <3>8, PlacesApart DEF ReturnPath
        <4>2. /\ reasons' = reasons \cup ReturnReasons(host, comps, engineDoc, wireGone)
              /\ stPc = "return-path" /\ stPc' = "workload"
          BY <3>8 DEF ReturnPath
        <4>3. ReturnReasons(host, comps, engineDoc, wireGone)
                 = ReturnReasons(host, CompsOf(host), EngineAnswer(host), "wire" \in host.bad)
          BY <3>1, <4>1, WordsDepend
        <4> QED BY <4>2, <4>3, WordsNext
      <3>9. CASE WorkloadPosture
        BY <3>1, <3>9, WordsDepend, WordsNext DEF WorkloadPosture
      <3>10. CASE MarkDrift
        BY <3>10, WordsNext DEF MarkDrift
      <3>11. CASE ShapePosture
        BY <3>1, <3>11, WordsDepend, WordsNext DEF ShapePosture
      <3>12. CASE LinkSpeeds
        <4>1. wireGone = ("wire" \in host.bad)
          BY <3>3, <3>12, PlacesApart DEF LinkSpeeds
        <4>2. reasons' = reasons \cup SpeedReasons(host, wireGone) /\ stPc = "speeds" /\ stPc' = "links"
          BY <3>12 DEF LinkSpeeds
        <4> QED BY <4>1, <4>2, WordsNext
      <3>13. CASE Links
        <4>1. engineDoc = EngineAnswer(host) /\ wireGone = ("wire" \in host.bad)
          BY <3>2, <3>3, <3>13, PlacesApart DEF Links
        <4>2. /\ reasons' = reasons \cup LinkReasons(host, comps, engineDoc, wireGone)
              /\ stPc = "links" /\ stPc' = "reach"
          BY <3>13 DEF Links
        <4>3. LinkReasons(host, comps, engineDoc, wireGone)
                 = LinkReasons(host, CompsOf(host), EngineAnswer(host), "wire" \in host.bad)
          BY <3>1, <4>1, WordsDepend
        <4> QED BY <4>2, <4>3, WordsNext
      <3>14. CASE Reachability
        <4>1. engineDoc = EngineAnswer(host)
          BY <3>2, <3>14, PlacesApart DEF Reachability
        <4>2. reasons' = reasons \cup RouteReasons(host, engineDoc) /\ stPc = "reach" /\ stPc' = "default"
          BY <3>14 DEF Reachability
        <4> QED BY <4>1, <4>2, WordsNext
      <3>15. CASE ReadHostDefault
        <4>1. reasons' = reasons \cup {} /\ WordsAt(host, stPc') = WordsAt(host, stPc) \cup {}
          BY <3>15, WordsNext DEF ReadHostDefault
        <4> QED BY <4>1
      <3> QED BY <1>1, <2>2, <3>4, <3>5, <3>6, <3>7, <3>8, <3>9, <3>10, <3>11, <3>12, <3>13, <3>14, <3>15 DEF ReadingStep
    <2>6. ASSUME comps # Silent, NEW R, reasons' = reasons \cup R, WordsAt(host, stPc') = WordsAt(host, stPc) \cup R
          PROVE  /\ asker = "supervisor" => reasons' = WordsAt(host, stPc')
                 /\ asker = "status" => reasons' \cup Declared = WordsAt(host, stPc') \cup Declared
      BY <2>3, <2>6 DEF WordsRead
    <2>7. WordsAt(host, stPc)' = WordsAt(host, stPc')
      BY <2>1 DEF WordsAt, CompsOf, CustodyReasons, PostureReasons, ReturnReasons, RowReasons, MarkReasons, ShapeReasons
    <2>8. comps # Silent => /\ asker = "supervisor" => reasons' = WordsAt(host, stPc')
                            /\ asker = "status" => reasons' \cup Declared = WordsAt(host, stPc') \cup Declared
      BY <2>5, <2>6
    <2> QED BY <2>1, <2>4, <2>7, <2>8 DEF WordsRead
  <1>2. CASE Ends
    BY <1>2, EndsKeep, PlacesApart DEF WordsRead
  <1>3. CASE Begins
    <2>1. ASSUME applied'
          PROVE  stPc' = "custody"
      BY <1>3, <2>1, BeginsFresh DEF ReadInv
    <2>2. WordsAt(host', "custody") = {}
      BY WordsNext
    <2>3. reasons' \subseteq Declared /\ (asker = "supervisor" => reasons' = {}) /\ asker' = asker
      BY <1>3, BeginsFresh DEF ReadInv, Declared
    <2>4. asker \in {"status", "supervisor"}
      BY DEF ReadInv, SeenOK
    <2>5. Components(host) # Silent
      BY DEF Components, Silent
    <2>6. host' = host /\ applied' = host.applied
      BY <1>3, BeginsFresh DEF ReadInv
    <2>7. applied' /\ host'.answers => comps' # Silent
      BY <1>3, <2>4, <2>5, <2>6, BeginsFresh DEF ReadInv
    <2>8. applied' => /\ asker' = "supervisor" => reasons' = WordsAt(host', stPc')
                      /\ asker' = "status" => reasons' \cup Declared = WordsAt(host', stPc') \cup Declared
      BY <2>1, <2>2, <2>3
    <2> QED BY <2>7, <2>8 DEF WordsRead
  <1>4. CASE Again
    BY <1>4, AgainFresh, PlacesApart DEF WordsRead
  <1>5. CASE HostMoves
    <2>1. ever' # {host'}
      BY <1>5, MovesKeep DEF ReadInv, SeenOK
    <2> QED BY <2>1 DEF WordsRead
  <1> QED BY <1>1, <1>2, <1>3, <1>4, <1>5 DEF StatusNext, ReadingStep, Ends, Begins

\* Only run() itself says that the declared file differs.
Undeclared(S) == \A l \in S : l[2] # "member" \/ l[3] # "declaration"

\* No check of the gather gives the declaration reason, so the verdict on the file comes from run() alone.
LEMMA NobodyElseDeclares == ASSUME NEW h \in Hosts PROVE Undeclared(Said(h))
  <1>1. /\ \A S : "declaration" \notin S => Undeclared(Settling(S))
        /\ \A S : "declaration" \notin S => Undeclared(Standing(S))
    BY DEF Undeclared, Settling, Standing
  <1>2. \A S, T : Undeclared(S) /\ Undeclared(T) => Undeclared(S \cup T)
    BY DEF Undeclared
  <1>3. Undeclared({})
    BY DEF Undeclared
  <1>4. \A pc, past, S : Undeclared(S) => Undeclared(From(pc, past, S))
    BY <1>3 DEF From
  <1> DEFINE c == CompsOf(h)
             d == EngineAnswer(h)
             gone == "wire" \in h.bad
  <1>5. UpLegs(d) \subseteq SegLegs /\ "declaration" \notin SegLegs
    BY SceneAssumption DEF EngineAnswer, UpLegs, Silent
  <1>6. gone \in BOOLEAN
    OBVIOUS
  <1> HIDE DEF c, d, gone
  <1>7. Undeclared(CustodyReasons(h, c)) /\ Undeclared(EngineDown(h))
    BY <1>1 DEF CustodyReasons, EngineDown, When
  <1>8. Undeclared(PostureReasons(h, c, d, gone))
    <2>1. h.kind \in {"transit", "plain", "leaf"}
      BY DEF Hosts
    <2>2. "declaration" \notin When(LegFile(h, gone, "rp_filter"), "rp_filter")
             \cup CASE h.kind = "leaf"    -> LeafPosture(h, d, gone)
                    [] h.kind = "transit" -> TransitPosture(h, c, gone)
                    [] h.kind = "plain"   -> PlainPosture(h, gone)
      BY <2>1 DEF When, LeafPosture, TransitPosture, PlainPosture
    <2>3. "declaration" \notin When(h.kind # "leaf" /\ "drift" \in h.bad, "drift")
      BY DEF When
    <2> QED BY <1>1, <1>2, <2>2, <2>3, Zenon DEF PostureReasons
  <1>9. Undeclared(ReturnReasons(h, c, d, gone))
    <2>1. Undeclared(Settling(h.bad \cap {"rule", "sibling"}))
      BY <1>1
    <2>2. ASSUME NEW leg PROVE Undeclared(IngressReasons(h, d, leg))
      <3>1. Undeclared({<<r[1], "gw", r[3]>> : r \in IF leg.answers THEN LegReasons(leg, h) ELSE {}})
        BY DEF Undeclared
      <3>2. "declaration" \notin (h.bad \cap {"no-default", "leg-address"})
              \cup When(h.kind = "transit" /\ "linkdown" \in h.bad /\ "no-default" \notin h.bad, "linkdown")
              \cup When(Says(d, "bgp"), "bgp")
              \cup When(Says(d, "nothing-sent") /\ ~Says(d, "bgp"), "nothing-sent")
        BY DEF When
      <3> QED BY <1>1, <1>2, <3>1, <3>2, Zenon DEF IngressReasons
    <2> QED BY <1>2, <1>3, <2>1, <2>2 DEF ReturnReasons
  <1>10. Undeclared(RowReasons(h, c))
    <2>1. "declaration" \notin RowFaults(h)
      BY DEF RowFaults
    <2>2. "declaration" \notin (RowFaults(h) \ {"uplink"}) \cup When(Says(c, "announcer"), "announcer")
      BY <2>1 DEF When
    <2> QED BY <1>1, <1>2, <1>3, <2>1, <2>2 DEF RowReasons
  <1>11. Undeclared(MarkReasons(h)) /\ Undeclared(SpeedReasons(h, gone))
    BY <1>1 DEF MarkReasons, SpeedReasons
  <1>12. Undeclared(ShapeReasons(h, c))
    BY <1>1, <1>2, <1>3 DEF ShapeReasons
  <1>13. Undeclared(LinkReasons(h, c, d, gone))
    <2> DEFINE leg == FallbackLeg(h, c, gone)
    <2>1. leg.active \in {"home", "backup", "foreign", "none"}
      BY DEF FallbackLeg, LegRow, Hosts, Bonds
    <2> HIDE DEF leg
    <2>2. Undeclared(SeatReasons(leg))
      BY <1>1, <1>3, <2>1 DEF SeatReasons
    <2>3. Undeclared(LegReasons(leg, h))
      <3>1. Undeclared(Settling(When("home" \notin leg.absent /\ "detached" \in h.bad, "detached")))
        BY <1>1 DEF When
      <3>2. Undeclared(Standing(h.bad \cap {"foreign-port"})) /\ Undeclared(Settling({"not-a-bond"}))
        BY <1>1
      <3>3. /\ Undeclared(Settling({IF leg.active = "foreign" THEN "foreign-active" ELSE "no-carrier"}))
            /\ leg.reach \in {"AllDark", "Quiet"} => Undeclared(Settling({leg.reach}))
        BY <1>1
      <3>4. Undeclared(IF leg.mii # "up"
                       THEN Settling({IF leg.active = "foreign" THEN "foreign-active" ELSE "no-carrier"})
                       ELSE IF leg.reach \in {"AllDark", "Quiet"} THEN Settling({leg.reach})
                       ELSE SeatReasons(leg))
        BY <2>2, <3>3
      <3> QED BY <1>2, <3>1, <3>2, <3>4, Zenon DEF LegReasons
    <2>4. "declaration" \notin (SegLegs \ UpLegs(d)) \cup When(~TwoWay(d), "bond")
      BY <1>5 DEF When
    <2> QED BY <1>1, <1>2, <2>3, <2>4 DEF LinkReasons, leg
  <1>14. Undeclared(RouteReasons(h, d))
    <2> DEFINE expect == CheapestLegs(UpLegs(d), TwoWay(d))
    <2>1. "declaration" \notin When(h.route # expect, "route") \cup When("pin" \in h.bad, "pin")
      BY DEF When
    <2>2. "declaration" \notin When(h.route = "bond" /\ expect = "bond", "via-fallback") /\ "declaration" \notin {"no-route"}
      BY DEF When
    <2> HIDE DEF expect
    <2>3. /\ Undeclared(Settling({"no-route"}))
          /\ Undeclared(Settling(When(h.route # expect, "route") \cup When("pin" \in h.bad, "pin"))
                        \cup Standing(When(h.route = "bond" /\ expect = "bond", "via-fallback")))
      BY <1>1, <1>2, <2>1, <2>2
    <2> QED BY <1>3, <2>3 DEF RouteReasons, expect
  <1>15. Undeclared(Standing(When("metrics" \in h.bad, "metrics")))
    BY <1>1 DEF When
  <1>16. Undeclared(WordsAt(h, "report"))
    BY <1>2, <1>4, <1>7, <1>8, <1>9, <1>10, <1>11, <1>12, <1>13, <1>14 DEF WordsAt, c, d, gone
  <1> QED BY <1>2, <1>15, <1>16 DEF Said

\* The texts of a page are those of its lines.
LEMMA PageTexts == ASSUME NEW m PROVE {s[2] : s \in {x \in Page(m) : x[1] = "condition_info"}} = OnceEach(m.lines)
  <1>1. ASSUME NEW x \in Page(m), x[1] = "condition_info" PROVE x[2] \in OnceEach(m.lines)
    <2>1. x \in ConditionSeries(m)
      BY <1>1, PartOf
    <2>2. \/ \E a, b : x = <<"conditions", a, b>>
          \/ \E text \in OnceEach(m.lines) : x = <<"condition_info", text, 1>>
      BY <2>1, Zenon DEF ConditionSeries
    <2> QED BY <1>1, <2>2
  <1>2. ASSUME NEW text \in OnceEach(m.lines)
        PROVE  <<"condition_info", text, 1>> \in {x \in Page(m) : x[1] = "condition_info"}
    <2>1. <<"condition_info", text, 1>> \in ConditionSeries(m)
      BY Zenon DEF ConditionSeries
    <2>2. <<"condition_info", text, 1>> \in Page(m)
      BY <2>1, Zenon DEF Page
    <2> QED BY <2>2
  <1>3. ASSUME NEW text \in OnceEach(m.lines)
        PROVE  text \in {s[2] : s \in {x \in Page(m) : x[1] = "condition_info"}}
    <2>1. <<"condition_info", text, 1>>[2] = text
      OBVIOUS
    <2> QED BY <1>2, <2>1
  <1> QED BY <1>1, <1>3

\* A page of a member that did not change has its words, ...
PageWords ==
    \A h \in page.of : page.of = {h} /\ h.applied =>
        {s[2] : s \in {x \in page.series : x[1] = "condition_info"}} = OnceEach(Said(h))

\* ... and so has a report.
ReportWords ==
    \A h \in report.of : report.of = {h} /\ h.applied /\ h.answers =>
        /\ h \in Hosts
        /\ report.lines \ {<<"member", "declaration">>} = OnceEach(Said(h))
        /\ report.state = Verdict(h)
        /\ report.row # "none" => h.kind # "leaf" /\ report.row = Row(h)
        /\ report.default[1] = h.default

\* The model of a member that did not change.
LEMMA StillModel ==
    ASSUME ReadInv, WordsRead, stPc = "report", ever = {host}, host.applied, comps # Silent
    PROVE  /\ host \in Hosts
           /\ asker = "supervisor" => Model.lines = Said(host)
           /\ asker = "status" => Model.lines \cup Declared = Said(host) \cup Declared
           /\ Model.state = Verdict(host)
           /\ Model.row # "none" => host.kind # "leaf" /\ Model.row = Row(host)
           /\ Model.default = host.default
  <1>0. stPc \in PastBegin /\ stPc \in PastDoc /\ stPc \in PastRow
    BY PlacesApart
  <1>1. host \in Hosts /\ applied /\ DocumentOf(comps, host)
    BY <1>0 DEF ReadInv, SeenOK, AppliedRead, CompsRead
  <1>2. Says(comps, "metrics") <=> "metrics" \in host.bad
    BY <1>1 DEF DocumentOf, Says, Told
  <1>3. Model.lines = reasons \cup Standing(When("metrics" \in host.bad, "metrics"))
    BY <1>2, ModelIs DEF When
  <1>4. /\ asker = "supervisor" => reasons = WordsAt(host, "report")
        /\ asker = "status" => reasons \cup Declared = WordsAt(host, "report") \cup Declared
    BY <1>0, <1>1 DEF WordsRead
  <1>5. engineDoc = EngineAnswer(host)
    BY <1>0, <1>1 DEF ReadInv, DocRead
  <1>6. Model.state = Verdict(host)
    <2>1. SameButApplied(host, host)
      BY DEF SameButApplied
    <2> QED BY <1>1, <1>5, <2>1, HeadlineIs, ModelIs DEF StateNow
  <1>7. Model.row # "none" => host.kind # "leaf" /\ Model.row = Row(host)
    <2>1. rowState = RowNow(host, comps, "sibling" \in host.bad)
      BY <1>0, <1>1 DEF ReadInv, RowRead
    <2>2. OneChange(ever) /\ host \in ever
      BY DEF OneChange
    <2>3. host.kind # "leaf" => rowState = Row(host)
      BY <1>1, <2>1, <2>2, RowTogether
    <2>4. host.kind = "leaf" => rowState = "none"
      BY <2>1 DEF RowNow
    <2> QED BY <2>3, <2>4, ModelIs
  <1>8. Model.default = host.default
    BY <1>1, ModelIs DEF ReadInv, LegsRead, DefaultRead
  <1> QED BY <1>1, <1>3, <1>4, <1>6, <1>7, <1>8 DEF Said

\* Once each, a line is a text; the declaration's has one.
LEMMA TextsOf ==
    ASSUME NEW S, NEW T, S \cup Declared = T \cup Declared, Undeclared(T)
    PROVE  OnceEach(S) \ {<<"member", "declaration">>} = OnceEach(T)
  <1>1. \A l \in Declared : <<l[2], l[3]>> = <<"member", "declaration">>
    BY DEF Declared, Standing
  <1>2. \A l \in T : <<l[2], l[3]>> # <<"member", "declaration">>
    BY DEF Undeclared
  <1>3. ASSUME NEW x \in OnceEach(S), x # <<"member", "declaration">> PROVE x \in OnceEach(T)
    <2>1. PICK l \in S : x = <<l[2], l[3]>>
      BY DEF OnceEach
    <2>2. l \in T
      BY <1>1, <1>3, <2>1
    <2> QED BY <2>1, <2>2 DEF OnceEach
  <1>4. ASSUME NEW x \in OnceEach(T) PROVE x \in OnceEach(S) /\ x # <<"member", "declaration">>
    <2>1. PICK l \in T : x = <<l[2], l[3]>>
      BY DEF OnceEach
    <2>2. x # <<"member", "declaration">>
      BY <1>2, <2>1
    <2>3. l \in S
      BY <1>1, <2>1, <2>2
    <2> QED BY <2>1, <2>2, <2>3 DEF OnceEach
  <1> QED BY <1>3, <1>4

\* The words of the last page and of the last report stay those of their members.
LEMMA SaidStep ==
    ASSUME ReadInv, WordsRead, PageWords, ReportWords, StatusNext
    PROVE  PageWords' /\ ReportWords'
  <1>0. host \in ever /\ asker \in {"status", "supervisor"}
    BY DEF ReadInv, SeenOK
  <1>1. CASE Publish
    <2>1. page' = [of |-> ever, series |-> Page(Model)] /\ stPc = "report" /\ asker = "supervisor" /\ UNCHANGED report
      BY <1>1 DEF Publish
    <2>2. page'.of = ever /\ page'.series = Page(Model) /\ comps # Silent
      BY <2>1, PlacesApart DEF ReadInv, AppliedRead
    <2>3. ASSUME NEW h \in ever, ever = {h}, h.applied
          PROVE  {s[2] : s \in {x \in Page(Model) : x[1] = "condition_info"}} = OnceEach(Said(h))
      <3>1. h = host
        BY <1>0, <2>3
      <3>2. Model.lines = Said(h)
        BY <2>1, <2>2, <2>3, <3>1, StillModel
      <3> QED BY <3>2, PageTexts
    <2>4. PageWords'
      BY <2>2, <2>3, Zenon DEF PageWords
    <2>5. ReportWords'
      BY <2>1 DEF ReportWords
    <2> QED BY <2>4, <2>5
  <1>2. CASE Report
    <2>1. stPc = "report" /\ asker = "status" /\ UNCHANGED page /\ (UNCHANGED report \/ report' = Printed(Model))
      BY <1>2 DEF Report
    <2>2. PageWords'
      BY <2>1 DEF PageWords
    <2>3. CASE UNCHANGED report
      BY <2>2, <2>3 DEF ReportWords
    <2>4. CASE report' = Printed(Model)
      <3>1. /\ report'.of = ever /\ report'.lines = OnceEach(Model.lines) /\ report'.state = Model.state
            /\ report'.row = Model.row /\ report'.default[1] = Model.default
        BY <2>4 DEF Printed
      <3>2. ASSUME NEW h \in ever, ever = {h}, h.applied, h.answers
            PROVE  /\ h \in Hosts
                   /\ OnceEach(Model.lines) \ {<<"member", "declaration">>} = OnceEach(Said(h))
                   /\ Model.state = Verdict(h)
                   /\ Model.row # "none" => h.kind # "leaf" /\ Model.row = Row(h)
                   /\ Model.default = h.default
        <4>1. h = host
          BY <1>0, <3>2
        <4>2. applied /\ stPc \in PastBegin
          BY <2>1, <3>2, PlacesApart DEF ReadInv, AppliedRead
        <4>3. comps # Silent
          BY <3>2, <4>1, <4>2 DEF WordsRead
        <4>4. /\ h \in Hosts /\ Model.lines \cup Declared = Said(h) \cup Declared
              /\ Model.state = Verdict(h)
              /\ Model.row # "none" => h.kind # "leaf" /\ Model.row = Row(h)
              /\ Model.default = h.default
          BY <2>1, <3>2, <4>1, <4>3, StillModel
        <4>5. OnceEach(Model.lines) \ {<<"member", "declaration">>} = OnceEach(Said(h))
          BY <4>4, TextsOf, NobodyElseDeclares
        <4> QED BY <4>4, <4>5
      <3>3. ReportWords'
        BY <3>1, <3>2, Zenon DEF ReportWords
      <3> QED BY <2>2, <3>3
    <2> QED BY <2>1, <2>3, <2>4
  <1>3. CASE ~Publish /\ ~Report
    <2>1. (UNCHANGED page \/ page'.of = {}) /\ (UNCHANGED report \/ report'.of = {})
      <3>1. CASE ReadingStep
        BY <3>1, ReadsKeep
      <3>2. CASE Begins
        BY <3>2, BeginsFresh DEF ReadInv
      <3>3. CASE GatherFails
        BY <3>3 DEF GatherFails, Unprinted
      <3>4. CASE Again \/ HostMoves
        <4>1. Unprinted.of = {} /\ Unserved.of = {}
          BY DEF Unprinted, Unserved
        <4>2. \/ UNCHANGED <<report, page>>
              \/ report' = Unprinted /\ page' = Unserved
          BY <3>4, AgainFresh, MovesKeep
        <4> QED BY <4>1, <4>2
      <3> QED BY <1>3, <3>1, <3>2, <3>3, <3>4 DEF StatusNext, ReadingStep, Begins
    <2>2. PageWords'
      BY <2>1 DEF PageWords
    <2>3. ReportWords'
      BY <2>1 DEF ReportWords
    <2> QED BY <2>2, <2>3
  <1> QED BY <1>1, <1>2, <1>3

\* So page and report of one member say the same.
LEMMA WordsAgree == ASSUME PageSeries, PageWords, ReportWords PROVE SameWords
  <1> SUFFICES ASSUME NEW h \in page.of, page.of = {h}, report.of = {h}, h.applied, h.answers
               PROVE  /\ report.lines \ {<<"member", "declaration">>}
                           = {s[2] : s \in {x \in page.series : x[1] = "condition_info"}}
                      /\ <<"fabric_state", report.state, 1>> \in page.series
                      /\ report.row # "none" => <<"workload_state", report.row, 1>> \in page.series
                      /\ report.default[1] = h.default
    BY Zenon DEF SameWords
  <1>1. {s[2] : s \in {x \in page.series : x[1] = "condition_info"}} = OnceEach(Said(h))
    BY Zenon DEF PageWords
  <1>2. /\ report.lines \ {<<"member", "declaration">>} = OnceEach(Said(h))
        /\ report.state = Verdict(h)
        /\ report.row # "none" => h.kind # "leaf" /\ report.row = Row(h)
        /\ report.default[1] = h.default
    BY DEF ReportWords
  <1>3. OneChange(page.of)
    BY DEF OneChange
  <1>4. \A s : s \in Truth(h) => s \in page.series
    BY <1>3 DEF PageSeries, SeriesThere
  <1>5. <<"fabric_state", Verdict(h), 1>> \in Truth(h)
    BY TruthIs DEF TrueOf
  <1>6. h.kind # "leaf" => <<"workload_state", Row(h), 1>> \in Truth(h)
    BY TruthIs DEF TrueOf
  <1>7. <<"fabric_state", report.state, 1>> \in page.series
    BY <1>2, <1>4, <1>5
  <1>8. report.row # "none" => <<"workload_state", report.row, 1>> \in page.series
    BY <1>2, <1>4, <1>6
  <1> QED BY <1>1, <1>2, <1>7, <1>8

ReportsInv == VerdictInv /\ WordsRead /\ PageSeries /\ PageWords /\ ReportWords

\* Nothing was printed or published yet.
LEMMA ReportsStart == StatusInit => ReportsInv
  <1> SUFFICES ASSUME StatusInit PROVE ReportsInv
    OBVIOUS
  <1>1. stPc = "run" /\ report.of = {} /\ page.of = {}
    BY DEF StatusInit, Unprinted, Unserved
  <1>2. WordsRead
    BY <1>1, PlacesApart DEF WordsRead
  <1>3. PageSeries
    BY <1>1 DEF PageSeries, OneChange
  <1>4. PageWords /\ ReportWords
    BY <1>1 DEF PageWords, ReportWords
  <1> QED BY <1>2, <1>3, <1>4, VerdictStart DEF ReportsInv

\* No step makes a page or a report untrue.
LEMMA ReportsKeep ==
    ASSUME ReportsInv, [StatusNext]_statusVars
    PROVE  ReportsInv'
  <1>1. VerdictInv' /\ ReadInv
    BY VerdictKeeps DEF ReportsInv, VerdictInv
  <1>2. CASE StatusNext
    BY <1>1, <1>2, WordsStep, SeriesStep, SaidStep DEF ReportsInv
  <1>3. CASE UNCHANGED statusVars
    <2>1. UNCHANGED <<host, asker, stPc, comps, reasons, ever, applied, report, page>>
      BY <1>3 DEF statusVars
    <2>2. WordsRead'
      BY <2>1 DEF ReportsInv, WordsRead
    <2>3. PageSeries' /\ PageWords' /\ ReportWords'
      BY <2>1 DEF ReportsInv, PageSeries, SeriesTrue, SeriesThere, PageWords, ReportWords
    <2> QED BY <1>1, <2>2, <2>3 DEF ReportsInv
  <1> QED BY <1>2, <1>3

\* Both readers of a member can be believed: the wait ends over no fault that is still being
\* cleared, nobody is accused of a free port, and the page says what was true of the member,
\* leaves out nothing that stood, and has the words of `status`.
THEOREM ReportsAreTrue == StatusSpec => []ReportsTrue
  <1>1. ReportsInv => ReportsTrue
    BY WordsAgree DEF ReportsInv, VerdictInv, ReportsTrue, PageTrue, PageSeries
  <1> QED BY <1>1, ReportsStart, ReportsKeep, PTL DEF StatusSpec
=============================================================================
