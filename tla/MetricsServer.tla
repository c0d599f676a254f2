--------------------------- MODULE MetricsServer ---------------------------
(***************************************************************************)
(* The endpoint of the metrics page (src/supervisor/metrics.rs): one task  *)
(* that accepts, one task per connection, a bound on those in flight and   *)
(* no queue.  Peers may be slow to ask, never read the answer, or vanish.  *)
(*                                                                         *)
(* A page is the number of its publication; what is on it is the business  *)
(* of MetricsPage.                                                         *)
(***************************************************************************)
EXTENDS Naturals, FiniteSets

CONSTANTS Peers,         \* connections there may be at one time
          MaxInflight,   \* MAX_INFLIGHT
          ConnDeadline,  \* CONN_DEADLINE, in ticks of the clock
          MaxPages       \* bound: pages published

ASSUME MetricsServerAssumption ==
    /\ IsFiniteSet(Peers)
    /\ MaxInflight \in Nat \ {0} /\ ConnDeadline \in Nat \ {0} /\ MaxPages \in Nat

VARIABLES
    conns,      \* the connections
    permits,    \* of the semaphore
    accepting,  \* FALSE: backing off after a failed accept
    published   \* the page behind the endpoint

serverVars == <<conns, permits, accepting, published>>

Requests == {"GET /metrics", "HEAD /metrics", "GET /", "GET /other", "garbage"}
NoConn == [at |-> "closed"]

\* respond, by the request line alone.
Respond(request) ==
    CASE request \in {"GET /metrics", "HEAD /metrics"} -> "Metrics"
      [] request = "GET /"                              -> "Landing"
      [] request = "GET /other"                         -> "NotFound"
      [] OTHER                                          -> "Close"

Inflight == {c \in Peers : conns[c].at \in {"reading", "writing"}}

ServerInit ==
    /\ conns = [c \in Peers |-> NoConn]
    /\ permits = MaxInflight /\ accepting = TRUE /\ published = 0

Connects(c) ==
    /\ conns[c] = NoConn
    /\ conns' = [conns EXCEPT ![c] = [at |-> "backlog"]]
    /\ UNCHANGED <<permits, accepting, published>>

\* serve_on: without a permit the socket is dropped at once.
AcceptConn(c) ==
    /\ accepting /\ conns[c].at = "backlog"
    /\ IF permits > 0
       THEN /\ permits' = permits - 1
            /\ conns' = [conns EXCEPT ![c] = [at |-> "reading", age |-> 0, since |-> published, got |-> {}]]
       ELSE permits' = permits /\ conns' = [conns EXCEPT ![c] = NoConn]
    /\ UNCHANGED <<accepting, published>>

\* EMFILE and friends: the task sleeps and tries again.
AcceptFails ==
    /\ accepting' = ~accepting
    /\ UNCHANGED <<conns, permits, published>>

\* The end of a connection's task, which drops its permit.
Finished(ended) ==
    /\ conns' = [c \in Peers |-> IF c \in ended THEN NoConn ELSE conns[c]]
    /\ permits' = permits + Cardinality(ended)

\* converse: the request line is there, if it ever comes, and the page is the one of this
\* moment.
Converse(c, request) ==
    /\ conns[c].at = "reading"
    /\ LET answer == Respond(request)
       IN  IF answer = "Close" THEN Finished({c})
           ELSE /\ conns' = [conns EXCEPT ![c] =
                       [@ EXCEPT !.at = "writing",
                                 !.got = IF answer = "Metrics" THEN {published} ELSE {}]]
                /\ UNCHANGED permits
    /\ UNCHANGED <<accepting, published>>

\* write_response, once the peer has read it, if it ever does, and the shutdown.
WriteResponse(c) ==
    /\ conns[c].at = "writing"
    /\ Finished({c})
    /\ UNCHANGED <<accepting, published>>

PeerGone(c) ==
    /\ c \in Inflight
    /\ Finished({c})
    /\ UNCHANGED <<accepting, published>>

\* Mistake: only the read has a deadline.
OverdueReading == {c \in Inflight : conns[c].at = "reading" /\ conns[c].age = ConnDeadline}

\* serve_one: the whole conversation has one.
Overdue == {c \in Inflight : conns[c].age = ConnDeadline}

ServerClock ==
    /\ Inflight # {}
    /\ conns' = [c \in Peers |-> CASE c \in Overdue -> NoConn
                                   [] c \in Inflight \ Overdue -> [conns[c] EXCEPT !.age = @ + 1]
                                   [] OTHER -> conns[c]]
    /\ permits' = permits + Cardinality(Overdue)
    /\ UNCHANGED <<accepting, published>>

\* refresh_snapshot, in the supervisor.
PagePublished ==
    /\ published < MaxPages /\ published' = published + 1
    /\ UNCHANGED <<conns, permits, accepting>>

ServerNext ==
    \/ AcceptFails \/ ServerClock \/ PagePublished
    \/ \E c \in Peers : \/ Connects(c) \/ AcceptConn(c) \/ WriteResponse(c) \/ PeerGone(c)
                        \/ \E request \in Requests : Converse(c, request)

ServerSpec == ServerInit /\ [][ServerNext]_serverVars

-----------------------------------------------------------------------------
(* Properties.                                                             *)

\* A connection that has been accepted carries its age, the page there was when it was
\* accepted and the one it got.
Outside  == [at : {"closed", "backlog"}]
Accepted == [at : {"reading", "writing"}, age : 0..ConnDeadline, since : 0..MaxPages,
             got : SUBSET (0..MaxPages)]

\* The type invariant.
ServerTypeOK ==
    /\ conns \in [Peers -> Outside \cup Accepted]
    /\ permits \in 0..MaxInflight /\ accepting \in BOOLEAN /\ published \in 0..MaxPages

\* "no step of it can pin an in-flight slot": whatever the peers do, a connection is over by
\* its deadline and its permit is back, so a scraper is turned away only while as many
\* others as there are permits came within the deadline; and the page it gets is none that
\* was replaced before it was accepted.
EndpointOpen ==
    /\ permits + Cardinality(Inflight) = MaxInflight
    /\ \A c \in Inflight : conns[c].age <= ConnDeadline
    /\ \A c \in Inflight : \A n \in conns[c].got : n >= conns[c].since
=============================================================================
