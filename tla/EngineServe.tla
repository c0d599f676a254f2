----------------------------- MODULE EngineServe -----------------------------
(***************************************************************************)
(* The engine process around its northbound (src/engine/mod.rs: run, serve, *)
(* cleanup): the flock it starts under, the socket that says it is ready,  *)
(* the clients it answers one at a time, the signal it leaves on, and the  *)
(* kernel routes it or, after a crash, somebody else takes away.           *)
(*                                                                         *)
(* What a request makes of the configuration is the business of            *)
(* RouteEngine.  Time is in seconds; what the engine does by itself takes  *)
(* none.                                                                   *)
(***************************************************************************)
EXTENDS Naturals, FiniteSets

CONSTANTS Engines,       \* processes, each of which may be started again
          NoEngine,      \* nobody
          Stale,         \* a process that was killed: its path, its routes
          Askers,        \* clients of engine.sock
          NoAsker,       \* no client
          ProtoSpan,     \* PROTO_RANGE: protocols 0 .. ProtoSpan above PROTO_BASE
          ClientIO,      \* CLIENT_IO
          StateTimeout,  \* STATE_TIMEOUT
          Patience,      \* the read timeout of unix_request
          MaxServeFaults \* bound: kills, providers that hang or go

ASSUME ServeAssumption ==
    /\ NoEngine \notin Engines /\ Stale \notin Engines /\ Stale # NoEngine
    /\ NoAsker \notin Askers
    /\ ProtoSpan \in Nat /\ ClientIO \in Nat \ {0} /\ StateTimeout \in Nat \ {0}
    /\ StateTimeout < Patience /\ Patience \in Nat /\ MaxServeFaults \in Nat

VARIABLES
    eng,        \* each process: where it is, whom it answers, with what, and how long
    engLock,    \* who holds engine.lock
    sockPath,   \* who bound the path engine.sock that is there
    kroutes,    \* kernel routes of the private protocols: whose, and which
    provider,   \* the providers: "well", "hung" or "gone"
    signalled,  \* processes with a signal they have not looked at
    asker,      \* the clients
    sweep,      \* the sweep of leftover routes: where it is, and what was beside it
                \* (NoEngine: a listing that failed)
    mishaps     \* faults so far

esVars == <<eng, engLock, sockPath, kroutes, provider, signalled, asker, sweep, mishaps>>

Gone   == [at |-> "gone", client |-> NoAsker, reply |-> "none", timer |-> 0, away |-> 0]
Away   == [at |-> "away", says |-> "nothing", wait |-> 0, got |-> "nothing", met |-> "nobody"]
NoSweep == [at |-> "idle", proto |-> 0, shown |-> {}, beside |-> {}]

Protos     == 0..ProtoSpan
RoutesOf(e) == [of : {e}, proto : Protos]

EngineServeInit ==
    /\ eng = [e \in Engines |-> Gone] /\ engLock = NoEngine /\ sockPath = NoEngine
    /\ kroutes = {} /\ provider = "well" /\ signalled = {}
    /\ asker = [c \in Askers |-> Away] /\ sweep = NoSweep /\ mishaps = 0

Serving == {"loop", "read", "state", "change", "write"}
Lives(e) == eng[e].at # "gone"

\* Somebody answers on the path.
Listened == sockPath \in Engines /\ eng[sockPath].at \in Serving

StepTo(e, place) == eng' = [eng EXCEPT ![e] = [Gone EXCEPT !.at = place]]

-----------------------------------------------------------------------------
(* run, up to the loop. *)

SpawnProcess(e) ==
    /\ ~Lives(e) /\ StepTo(e, "lock")
    /\ signalled' = signalled \ {e}
    /\ sweep' = (IF sweep.at = "idle" THEN sweep ELSE [sweep EXCEPT !.beside = @ \cup {e}])
    /\ UNCHANGED <<engLock, sockPath, kroutes, provider, asker, mishaps>>

\* lock::hold, "before anything destructive".
HoldEngineLock(e) ==
    /\ eng[e].at = "lock"
    /\ \/ engLock = NoEngine /\ engLock' = e /\ StepTo(e, "start")
       \/ engLock # NoEngine /\ StepTo(e, "gone") /\ UNCHANGED engLock
    /\ UNCHANGED <<sockPath, kroutes, provider, signalled, asker, sweep, mishaps>>

\* Northbound::start: the providers purge the private protocols.
StartProviders(e) ==
    /\ eng[e].at = "start" /\ StepTo(e, "commit")
    /\ kroutes' = {} /\ provider' = "well"
    /\ UNCHANGED <<engLock, sockPath, signalled, asker, sweep, mishaps>>

\* The first commit, which nothing limits; an error ends serve.
FirstCommit(e) ==
    /\ eng[e].at = "commit"
    /\ \/ /\ provider = "well" /\ StepTo(e, "bind")
          /\ \E routes \in SUBSET RoutesOf(e) : kroutes' = kroutes \cup routes
       \/ provider # "hung" /\ StepTo(e, "cleanup") /\ UNCHANGED kroutes
    /\ UNCHANGED <<engLock, sockPath, provider, signalled, asker, sweep, mishaps>>

\* sock::bind: a path somebody answers on is refused, any other replaced.
BindEngineSock(e) ==
    /\ eng[e].at = "bind"
    /\ \/ Listened /\ StepTo(e, "cleanup") /\ UNCHANGED sockPath
       \/ ~Listened /\ StepTo(e, "loop") /\ sockPath' = e
    /\ UNCHANGED <<engLock, kroutes, provider, signalled, asker, sweep, mishaps>>

-----------------------------------------------------------------------------
(* The loop of serve. *)

\* Clients: "state" and "change" ask and read, "junk" asks what is no verb, "mute" never
\* asks, "deaf" never reads.
Manners == {"state", "change", "junk", "mute", "deaf"}

\* Nobody else is connected, and the engine waits for somebody to be.
Unhindered(c) ==
    eng[sockPath].at = "loop" /\ \A d \in Askers \ {c} : asker[d].at = "away"

\* unix_request: somebody listens, and the client is in its queue.
Asks(c, says) ==
    /\ asker[c].at = "away" /\ Listened
    /\ asker' = [d \in Askers |->
            IF d = c THEN [Away EXCEPT !.at = "queue", !.says = says,
                                       !.met = IF Unhindered(c) THEN "nobody" ELSE "others"]
            ELSE [asker[d] EXCEPT !.met = IF asker[d].at = "away" THEN @ ELSE "others"]]
    /\ UNCHANGED <<eng, engLock, sockPath, kroutes, provider, signalled, sweep, mishaps>>

AcceptAsker(e, c) ==
    /\ eng[e].at = "loop" /\ sockPath = e /\ asker[c].at \in {"queue", "deserted"}
    /\ eng' = [eng EXCEPT ![e] = [Gone EXCEPT !.at = "read", !.client = c]]
    /\ asker' = [asker EXCEPT ![c] =
            [@ EXCEPT !.at = IF asker[c].at = "queue" THEN "open" ELSE "left"]]
    /\ UNCHANGED <<engLock, sockPath, kroutes, provider, signalled, sweep, mishaps>>

\* The connection of e's client ends; the client is told `got`, if it is still there.
Tell(e, got) ==
    asker' = [c \in Askers |->
                 IF c = eng[e].client
                 THEN [asker[c] EXCEPT !.at = "away", !.wait = 0,
                                       !.got = IF asker[c].at = "open" THEN got ELSE @]
                 ELSE asker[c]]

\* The next part of the same conversation: its timer starts, the engine is away still.
Turn(e, place, reply) ==
    eng' = [eng EXCEPT ![e] = [@ EXCEPT !.at = place, !.reply = reply, !.timer = 0]]

\* serve_one and parse_request: the line is there, or the end of file, which is no verb.
ReadLine(e) ==
    /\ eng[e].at = "read"
    /\ LET c == asker[eng[e].client]
       IN  \/ c.says \in {"state", "deaf"} /\ Turn(e, "state", "none")
           \/ c.says = "change" /\ Turn(e, "change", "none")
           \/ /\ c.says = "junk" \/ (c.says = "mute" /\ c.at = "left")
              /\ Turn(e, "write", "unknown-request")
    /\ UNCHANGED <<engLock, sockPath, kroutes, provider, signalled, asker, sweep, mishaps>>

\* get_state, of every provider.
StateRead(e) ==
    /\ eng[e].at = "state"
    /\ \/ provider = "well" /\ Turn(e, "write", "document")
       \/ provider # "hung" /\ Turn(e, "write", "error")
    /\ UNCHANGED <<engLock, sockPath, kroutes, provider, signalled, asker, sweep, mishaps>>

\* A commit for a transit-cost or workload-routes request: no limit on it.
ChangeCommitted(e) ==
    /\ eng[e].at = "change"
    /\ \/ /\ provider = "well" /\ Turn(e, "write", "done")
          /\ \E routes \in SUBSET RoutesOf(e) : kroutes' = (kroutes \ RoutesOf(e)) \cup routes
       \/ provider # "hung" /\ Turn(e, "write", "error") /\ UNCHANGED kroutes
    /\ UNCHANGED <<engLock, sockPath, provider, signalled, asker, sweep, mishaps>>

\* The reply, to whoever is there to read it; then the loop again.
WriteReply(e) ==
    /\ eng[e].at = "write"
    /\ asker[eng[e].client].says # "deaf" \/ asker[eng[e].client].at # "open"
    /\ Tell(e, eng[e].reply) /\ StepTo(e, "loop")
    /\ UNCHANGED <<engLock, sockPath, kroutes, provider, signalled, sweep, mishaps>>

\* Mistake: as long as the client waits, and longer.
LimitPastClient(place) == IF place = "state" THEN 2 * StateTimeout ELSE ClientIO

\* What a part of the conversation may take.
Limit(place) == IF place = "state" THEN StateTimeout ELSE ClientIO

\* Mistake: a provider may take its time.
LimitedToClient == {e \in Engines : eng[e].at \in {"read", "write"} /\ eng[e].timer = Limit(eng[e].at)}

\* Those whose time is up: the read of the line, the providers' answer, the write.
Expired == {e \in Engines : eng[e].at \in {"read", "state", "write"} /\ eng[e].timer = Limit(eng[e].at)}

\* A silent client is dropped, a state request answered with an error, a reply given up.
TimesOut(e) ==
    /\ e \in Expired
    /\ IF eng[e].at = "state" THEN Turn(e, "write", "error") /\ UNCHANGED asker
                              ELSE StepTo(e, "loop") /\ Tell(e, "closed")
    /\ UNCHANGED <<engLock, sockPath, kroutes, provider, signalled, sweep, mishaps>>

\* Clients of a listener that is gone are cut off.
CutOff(gone) ==
    asker' = [c \in Askers |->
                 IF gone /\ asker[c].at # "away"
                 THEN [asker[c] EXCEPT !.at = "away", !.wait = 0,
                                       !.got = IF asker[c].at \in {"queue", "open"} THEN "closed" ELSE @]
                 ELSE asker[c]]

\* Mistake: an exit that skips the teardown.
LeavesAtOnce(e) == StepTo(e, "exit") /\ CutOff(sockPath = e)

\* serve returns, and with it the listener is gone.
ServeReturns(e) == StepTo(e, "cleanup") /\ CutOff(sockPath = e)

TakeSignal(e) ==
    /\ eng[e].at = "loop" /\ e \in signalled /\ ServeReturns(e)
    /\ UNCHANGED <<engLock, sockPath, kroutes, provider, signalled, sweep, mishaps>>

ProvidersExited(e) ==
    /\ eng[e].at = "loop" /\ provider = "gone" /\ ServeReturns(e)
    /\ UNCHANGED <<engLock, sockPath, kroutes, provider, signalled, sweep, mishaps>>

-----------------------------------------------------------------------------
(* Every exit, healthy or not: the path, the routes, the lock. *)

Cleanup(e) ==
    /\ eng[e].at = "cleanup" /\ StepTo(e, "shutdown") /\ sockPath' = NoEngine
    /\ UNCHANGED <<engLock, kroutes, provider, signalled, asker, sweep, mishaps>>

\* Northbound::shutdown waits for every provider task.
Shutdown(e) ==
    /\ eng[e].at = "shutdown" /\ provider # "hung"
    /\ StepTo(e, "exit") /\ kroutes' = kroutes \ RoutesOf(e)
    /\ UNCHANGED <<engLock, sockPath, provider, signalled, asker, sweep, mishaps>>

DropLock(e) ==
    /\ eng[e].at = "exit" /\ StepTo(e, "gone") /\ engLock' = NoEngine
    /\ UNCHANGED <<sockPath, kroutes, provider, signalled, asker, sweep, mishaps>>

Mishap == mishaps < MaxServeFaults /\ mishaps' = mishaps + 1

\* The kernel frees the flock; path and routes stay.
Dies(e) ==
    /\ StepTo(e, "gone")
    /\ engLock' = (IF engLock = e THEN NoEngine ELSE engLock)
    /\ sockPath' = (IF sockPath = e THEN Stale ELSE sockPath)
    /\ kroutes' = {[r EXCEPT !.of = IF @ = e THEN Stale ELSE @] : r \in kroutes}
    /\ CutOff(sockPath = e)

\* SIGKILL, OOM.
KillEngine(e) ==
    /\ Mishap /\ Lives(e) /\ Dies(e)
    /\ UNCHANGED <<provider, signalled, sweep>>

\* Until serve listens for it, a SIGTERM is the end.
SendSignal(e) ==
    /\ Lives(e) /\ e \notin signalled
    /\ \/ eng[e].at \in {"lock", "start"} /\ Dies(e) /\ UNCHANGED signalled
       \/ /\ eng[e].at \notin {"lock", "start"} /\ signalled' = signalled \cup {e}
          /\ UNCHANGED <<eng, engLock, sockPath, kroutes, asker>>
    /\ UNCHANGED <<provider, sweep, mishaps>>

ProviderChanges(state) ==
    /\ Mishap /\ provider' = state /\ provider # state
    /\ UNCHANGED <<eng, engLock, sockPath, kroutes, signalled, asker, sweep>>

\* Nothing is there to be done without waiting for a peer, a provider or the clock.
Resting(e) ==
    CASE eng[e].at = "loop"  -> /\ e \notin signalled /\ provider # "gone"
                                /\ \A c \in Askers : asker[c].at \notin {"queue", "deserted"}
      [] eng[e].at = "read"  -> /\ asker[eng[e].client].says = "mute"
                                /\ asker[eng[e].client].at = "open"
      [] eng[e].at = "write" -> /\ asker[eng[e].client].says = "deaf"
                                /\ asker[eng[e].client].at = "open"
      [] eng[e].at \in {"commit", "state", "change", "shutdown"} -> provider = "hung"
      [] OTHER               -> eng[e].at = "gone"

Patient == {c \in Askers : asker[c].at \in {"queue", "open"}}

\* A second passes; a commit does not count against the conversation.
ServeClock ==
    /\ Expired = {} /\ \A e \in Engines : Resting(e)
    /\ \A c \in Patient : asker[c].wait < Patience
    /\ \E e \in Engines : Lives(e)
    /\ eng' = [e \in Engines |-> IF eng[e].at \in {"read", "state", "write"}
                                THEN [eng[e] EXCEPT !.timer = @ + 1, !.away = @ + 1] ELSE eng[e]]
    /\ asker' = [c \in Askers |-> IF c \in Patient THEN [asker[c] EXCEPT !.wait = @ + 1]
                                 ELSE asker[c]]
    /\ UNCHANGED <<engLock, sockPath, kroutes, provider, signalled, sweep, mishaps>>

\* unix_request's own timeout; the engine has the connection still, or will accept it.
GivesUp(c) ==
    /\ c \in Patient /\ asker[c].wait = Patience
    /\ asker' = [asker EXCEPT ![c] =
            [@ EXCEPT !.at = IF asker[c].at = "queue" THEN "deserted" ELSE "left",
                      !.got = "timeout"]]
    /\ UNCHANGED <<eng, engLock, sockPath, kroutes, provider, signalled, sweep, mishaps>>

-----------------------------------------------------------------------------
(* sweep_routes, of a supervisor that starts or of a teardown. *)

SweepStarts ==
    /\ sweep.at = "idle"
    /\ sweep' = [at |-> "list", proto |-> 0, shown |-> {}, beside |-> {e \in Engines : Lives(e)}]
    /\ UNCHANGED <<eng, engLock, sockPath, kroutes, provider, signalled, asker, mishaps>>

\* Mistake: the range without its end.
ProtosButLast == 0..(ProtoSpan - 1)

SweepRange == Protos

\* `ip route show` of one protocol; past the last one the sweep is over.
SweepLists ==
    /\ sweep.at = "list"
    /\ sweep' = IF sweep.proto \in SweepRange
                THEN [sweep EXCEPT !.at = "delete", !.shown = {r \in kroutes : r.proto = sweep.proto}]
                ELSE [sweep EXCEPT !.at = "swept"]
    /\ UNCHANGED <<eng, engLock, sockPath, kroutes, provider, signalled, asker, mishaps>>

\* A listing that fails reads as no routes: its exit is not looked at.
SweepMisses ==
    /\ Mishap /\ sweep.at = "list" /\ sweep.proto \in SweepRange
    /\ sweep' = [sweep EXCEPT !.at = "delete", !.shown = {}, !.beside = @ \cup {NoEngine}]
    /\ UNCHANGED <<eng, engLock, sockPath, kroutes, provider, signalled, asker>>

\* `ip route del`, of what was shown: one that has gone meanwhile ends the sweep.
SweepDeletes ==
    /\ sweep.at = "delete"
    /\ \/ /\ sweep.shown = {}
          /\ sweep' = [sweep EXCEPT !.at = "list", !.proto = @ + 1] /\ UNCHANGED kroutes
       \/ \E r \in sweep.shown :
             IF r \in kroutes
             THEN kroutes' = kroutes \ {r} /\ sweep' = [sweep EXCEPT !.shown = @ \ {r}]
             ELSE sweep' = [sweep EXCEPT !.at = "failed"] /\ UNCHANGED kroutes
    /\ UNCHANGED <<eng, engLock, sockPath, provider, signalled, asker, mishaps>>

SweepOver ==
    /\ sweep.at \in {"swept", "failed"} /\ sweep' = NoSweep
    /\ UNCHANGED <<eng, engLock, sockPath, kroutes, provider, signalled, asker, mishaps>>

EngineServeNext ==
    \/ \E e \in Engines :
          \/ SpawnProcess(e) \/ HoldEngineLock(e) \/ StartProviders(e) \/ FirstCommit(e)
          \/ BindEngineSock(e) \/ ReadLine(e) \/ StateRead(e) \/ ChangeCommitted(e)
          \/ WriteReply(e) \/ TimesOut(e) \/ TakeSignal(e) \/ ProvidersExited(e)
          \/ Cleanup(e) \/ Shutdown(e) \/ DropLock(e) \/ KillEngine(e) \/ SendSignal(e)
          \/ \E c \in Askers : AcceptAsker(e, c)
    \/ \E c \in Askers : GivesUp(c) \/ \E says \in Manners : Asks(c, says)
    \/ \E state \in {"well", "hung", "gone"} : ProviderChanges(state)
    \/ ServeClock \/ SweepStarts \/ SweepLists \/ SweepMisses \/ SweepDeletes \/ SweepOver

EngineServeSpec == EngineServeInit /\ [][EngineServeNext]_esVars

-----------------------------------------------------------------------------
(* Properties. *)

Places  == Serving \cup {"gone", "lock", "start", "commit", "bind", "cleanup", "shutdown", "exit"}
Replies == {"none", "unknown-request", "document", "error", "done"}

\* The type invariant.
ServeTypeOK ==
    /\ eng \in [Engines -> [at : Places, client : Askers \cup {NoAsker}, reply : Replies,
                            timer : Nat, away : Nat]]
    /\ engLock \in Engines \cup {NoEngine} /\ sockPath \in Engines \cup {NoEngine, Stale}
    /\ kroutes \subseteq [of : Engines \cup {Stale}, proto : Protos]
    /\ provider \in {"well", "hung", "gone"} /\ signalled \subseteq Engines
    /\ asker \in [Askers -> [at : {"away", "queue", "open", "deserted", "left"},
                             says : Manners \cup {"nothing"}, wait : 0..Patience,
                             got : Replies \cup {"nothing", "closed", "timeout"},
                             met : {"nobody", "others"}]]
    /\ sweep \in [at : {"idle", "list", "delete", "swept", "failed"}, proto : Nat,
                  shown : SUBSET [of : Engines \cup {Stale}, proto : Protos],
                  beside : SUBSET (Engines \cup {NoEngine})]
    /\ mishaps \in 0..MaxServeFaults

\* "prove ownership before destroy", "Ready = the socket", "nothing can observe the lock
\* free while our socket file still exists": whoever answers holds the lock, is the one the
\* path leads to and has the private protocols to itself; a free lock leaves no path but
\* that of a process that was killed, and an orderly exit no route.
ReadyIsOwner ==
    /\ \A e \in Engines : eng[e].at \in Serving =>
          engLock = e /\ sockPath = e /\ \A r \in kroutes : r.of = e
    /\ engLock = NoEngine => sockPath \in {NoEngine, Stale} /\ \A r \in kroutes : r.of = Stale

\* "must not wedge the engine (this loop also handles SIGTERM)": a conversation keeps the
\* engine from its signals no longer than two client timeouts and a state timeout, whatever
\* clients and providers do, a commit under way excepted.
NotWedged == \A e \in Engines : eng[e].away <= 2 * ClientIO + StateTimeout

\* "so the client sees the engine's error text instead of its own timeout": who has the
\* engine to itself is answered before it gives up, providers that do not answer included.
HeardAlone ==
    \A c \in Askers : asker[c].got = "timeout" /\ asker[c].says \in {"state", "junk"} =>
                         asker[c].met = "others"

\* The conversation with a client ends in time for both: the engine is back at its signals
\* and the client, if nobody was before it, has its answer.
ConversationsEnd == NotWedged /\ HeardAlone

\* "`down` sweeps exactly this range": a sweep that no engine was beside and whose listings
\* all succeeded leaves no route of the private protocols, whatever the engines before it left.
SweepsAll == sweep.at = "swept" /\ sweep.beside = {} => kroutes = {}

\* One engine owns the member's routes, and who comes after a killed one finds none of its.
EngineOwns == ReadyIsOwner /\ SweepsAll
==============================================================================
