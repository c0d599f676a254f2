----------------------------- MODULE DhcpRelay -----------------------------
(***************************************************************************)
(* The DHCP relay task of one workload row (src/workload/relay.rs): bind   *)
(* the device-bound client socket and the server socket together with the  *)
(* leg's ifindex, serve until a socket fails or the leg's ifindex moves,   *)
(* and retry.  Around it the leg, which the forwarding watchdog deletes    *)
(* and rebuilds, a VM that keeps asking and the DHCP server.               *)
(*                                                                         *)
(* A socket bound to a deleted netdev hears nothing and reports nothing.   *)
(***************************************************************************)
EXTENDS Naturals

CONSTANTS Attempts,       \* BASELINE_BIND_ATTEMPTS
          UnknownLimit,   \* UNKNOWN_BASELINE_LIMIT
          MaxHops,        \* 16: a loop
          MaxIndex,       \* bound: ifindexes the kernel hands out
          MaxRelayFaults  \* bound: failures and changes of the host

ASSUME DhcpRelayAssumption ==
    /\ Attempts \in Nat \ {0} /\ UnknownLimit \in Nat \ {0} /\ MaxHops \in Nat \ {0}
    /\ MaxIndex \in Nat \ {0} /\ MaxRelayFaults \in Nat

None == 0   \* no netdev, no reading, no socket

VARIABLES
    ifx,       \* the leg's ifindex, None while it is not there
    ifxLast,   \* the last ifindex handed out
    legAddr,   \* the leg carries this member's address
    portHeld,  \* something else holds port 67
    relayAt,   \* "off", "start", "bind", "post", "wait", "serve" or "backoff"
    pre,       \* the reading before the bind
    tries,     \* binds done in this attempt
    sock,      \* the ifindex the client socket is bound to
    base,      \* the baseline of the presence watch
    adopted,   \* the baseline is the watch's first reading, not the bind's
    unknown,   \* polls without any reading so far
    vm,        \* the VM's exchange: "idle", "relayed" or "leased"
    request,   \* the forwarded request the server has
    claims,    \* addresses upserted into the neighbor table
    relayHits  \* failures and changes so far

legOf     == <<ifx, ifxLast, legAddr, portHeld>>
taskOf    == <<relayAt, pre, tries, sock, base, adopted, unknown>>
exchange  == <<vm, request, claims>>
relayVars == <<legOf, taskOf, exchange, relayHits>>

RelayHit == relayHits < MaxRelayFaults /\ relayHits' = relayHits + 1
RelayCalm == relayHits' = relayHits

-----------------------------------------------------------------------------
(* The forwarding decisions.                                               *)

ClientPackets == [op : {"request", "reply"}, giaddr : {"none", "leg", "other"}, hops : {0, MaxHops}]

Asked == [op |-> "request", giaddr |-> "none", hops |-> 0]

\* forward_client: {} is a drop, otherwise what goes to the server.
ForwardClient(p) ==
    IF p.op = "request" /\ p.giaddr \in {"none", "leg"} /\ p.hops < MaxHops
    THEN {[p EXCEPT !.hops = p.hops + 1, !.giaddr = "leg"]}
    ELSE {}

\* Addresses: the row's own VMs', the fabric's own, and one of another subnet.
Replies == [op : {"request", "reply"}, src : {"server", "stranger"}, giaddr : {"leg", "other"},
            ciaddr : {"none", "vm", "outside"}, yiaddr : {"none", "vm", "fabric", "outside"},
            type : {"ack", "nak"}]

\* forward_server: whether a reply goes on to the client.
ForwardServer(r) ==
    /\ r.op = "reply" /\ r.src = "server" /\ r.giaddr = "leg"
    /\ r.ciaddr # "outside" /\ r.yiaddr # "outside"

\* ack_discovery: the addresses a reply teaches.
AckDiscovery(r) ==
    IF r.type = "ack" /\ r.yiaddr = "vm" THEN {r.yiaddr} ELSE {}

\* What an honest server answers.
Answer(ci) == [op |-> "reply", src |-> "server", giaddr |-> request.giaddr,
               ciaddr |-> ci, yiaddr |-> "vm", type |-> "ack"]

-----------------------------------------------------------------------------
(* run_with_reader_via and bind_pair_with_baseline_via.                    *)

RelayInit ==
    /\ ifx \in {None, 1} /\ ifxLast = 1 /\ legAddr \in BOOLEAN /\ (legAddr => ifx # None)
    /\ portHeld \in BOOLEAN
    /\ relayAt = "off" /\ pre = None /\ tries = 0 /\ sock = None
    /\ base = None /\ adopted = FALSE /\ unknown = 0
    /\ vm = "idle" /\ request = Asked /\ claims = {}
    /\ relayHits = 0

\* The supervisor spawns the task once, when it comes up.
Spawn ==
    /\ relayAt = "off"
    /\ relayAt' = "start"
    /\ RelayCalm
    /\ UNCHANGED <<legOf, pre, tries, sock, base, adopted, unknown, exchange>>

\* Reading the leg's ifindex by name; the read itself may fail.
Reading(r) == \/ r = ifx /\ RelayCalm
              \/ r = None /\ ifx # None /\ RelayHit

ReadBefore(r) ==
    /\ relayAt = "start" /\ Reading(r)
    /\ pre' = r /\ tries' = 0 /\ relayAt' = "bind"
    /\ UNCHANGED <<legOf, sock, base, adopted, unknown, exchange>>

BindPair ==
    /\ relayAt = "bind"
    /\ IF ifx # None /\ legAddr /\ ~portHeld
       THEN sock' = ifx /\ relayAt' = "post"
       ELSE sock' = None /\ relayAt' = "wait"
    /\ RelayCalm
    /\ UNCHANGED <<legOf, pre, tries, base, adopted, unknown, exchange>>

\* Mistake: the baseline is whatever is read after the bind.
ReadAfterTrusted(r) ==
    /\ relayAt = "post" /\ Reading(r)
    /\ relayAt' = "serve" /\ base' = r /\ adopted' = FALSE /\ unknown' = 0
    /\ UNCHANGED <<legOf, pre, tries, sock, exchange>>

\* The two readings must agree; otherwise the sockets are dropped and the bind
\* is redone, and after the last attempt given up.
ReadAfter(r) ==
    /\ relayAt = "post" /\ Reading(r)
    /\ \/ /\ r = pre
          /\ relayAt' = "serve" /\ base' = r /\ adopted' = FALSE /\ unknown' = 0
          /\ UNCHANGED <<pre, tries, sock>>
       \/ /\ r # pre
          /\ pre' = r /\ tries' = tries + 1 /\ sock' = None
          /\ relayAt' = IF tries + 1 = Attempts THEN "wait" ELSE "bind"
          /\ UNCHANGED <<base, adopted, unknown>>
    /\ UNCHANGED <<legOf, exchange>>

\* wait_for_leg ends when the leg is there, and at the latest after BIND_RETRY.
WaitForLeg ==
    /\ relayAt = "wait"
    /\ relayAt' = "start"
    /\ RelayCalm
    /\ UNCHANGED <<legOf, pre, tries, sock, base, adopted, unknown, exchange>>

BackedOff ==
    /\ relayAt = "backoff"
    /\ relayAt' = "start"
    /\ RelayCalm
    /\ UNCHANGED <<legOf, pre, tries, sock, base, adopted, unknown, exchange>>

-----------------------------------------------------------------------------
(* serve                                                                   *)

\* The sockets are closed and BACKOFF begins.
ServeEnds == relayAt' = "backoff" /\ sock' = None /\ UNCHANGED <<pre, tries, base, adopted, unknown>>

\* The presence watch: an unknown baseline is adopted, a moved ifindex or too
\* many empty readings end the loop.
Poll(r) ==
    /\ relayAt = "serve" /\ Reading(r)
    /\ \/ /\ base = None /\ r # None
          /\ base' = r /\ adopted' = TRUE /\ unknown' = 0
          /\ UNCHANGED <<relayAt, pre, tries, sock>>
       \/ /\ base = None /\ r = None /\ unknown + 1 < UnknownLimit
          /\ unknown' = unknown + 1
          /\ UNCHANGED <<relayAt, pre, tries, sock, base, adopted>>
       \/ base = None /\ r = None /\ unknown + 1 = UnknownLimit /\ ServeEnds
       \/ base # None /\ r = base /\ UNCHANGED taskOf
       \/ base # None /\ r # base /\ ServeEnds
    /\ UNCHANGED <<legOf, exchange>>

\* recv_from fails on either socket.
RecvFails ==
    /\ relayAt = "serve" /\ RelayHit
    /\ ServeEnds
    /\ UNCHANGED <<legOf, exchange>>

\* The client socket hears only the netdev it is bound to.
Hears == relayAt = "serve" /\ sock = ifx /\ ifx # None

\* A VM's packet reaches the leg.  A send to the server that fails is counted
\* and the loop goes on.
ClientPacket(p, sent) ==
    /\ vm = "idle" /\ Hears
    /\ IF sent THEN RelayCalm ELSE ForwardClient(p) # {} /\ RelayHit
    /\ IF sent /\ ForwardClient(p) # {}
       THEN vm' = "relayed" /\ request' \in ForwardClient(p)
       ELSE UNCHANGED <<vm, request>>
    /\ UNCHANGED <<legOf, taskOf, claims>>

\* A reply for the leg's address.  An ACK is claimed first (the table may be
\* full), then sent on; a client send that fails is counted.  Replies other than
\* the server's answer to this request are bounded.
ServerPacket(r, admitted) ==
    LET answer == r \in {Answer("none"), Answer("vm")}
        heard  == relayAt = "serve" /\ legAddr
        passes == heard /\ ForwardServer(r)
    IN  /\ vm = "relayed"
        /\ IF answer /\ admitted THEN RelayCalm ELSE RelayHit
        /\ claims' = IF passes /\ admitted THEN claims \cup AckDiscovery(r) ELSE claims
        /\ vm' = CASE ~answer                              -> vm
                   [] answer /\ passes /\ sock = ifx       -> "leased"
                   [] answer /\ ~(passes /\ sock = ifx)    -> "idle"
        /\ UNCHANGED <<legOf, taskOf, request>>

\* The VM starts over.
VmRenews ==
    /\ vm # "idle"
    /\ IF vm = "leased" THEN RelayCalm ELSE RelayHit
    /\ vm' = "idle"
    /\ UNCHANGED <<legOf, taskOf, request, claims>>

-----------------------------------------------------------------------------
(* The leg and the port.                                                   *)

LegLost ==
    /\ ifx # None /\ RelayHit
    /\ ifx' = None /\ legAddr' = FALSE
    /\ UNCHANGED <<ifxLast, portHeld, taskOf, exchange>>

LegRebuilt ==
    /\ ifx = None /\ ifxLast < MaxIndex
    /\ ifx' = ifxLast + 1 /\ ifxLast' = ifxLast + 1
    /\ RelayCalm
    /\ UNCHANGED <<legAddr, portHeld, taskOf, exchange>>

LegAddressed ==
    /\ ifx # None /\ ~legAddr
    /\ legAddr' = TRUE
    /\ RelayCalm
    /\ UNCHANGED <<ifx, ifxLast, portHeld, taskOf, exchange>>

PortMovesHands ==
    /\ RelayHit
    /\ portHeld' = ~portHeld
    /\ UNCHANGED <<ifx, ifxLast, legAddr, taskOf, exchange>>

RelayTask ==
    \/ BindPair \/ WaitForLeg \/ BackedOff
    \/ \E r \in 0..MaxIndex : ReadBefore(r) \/ ReadAfter(r)

RelayNext ==
    \/ Spawn \/ RelayTask \/ RecvFails \/ VmRenews
    \/ \E r \in 0..MaxIndex : Poll(r)
    \/ \E p \in ClientPackets, ok \in BOOLEAN : ClientPacket(p, ok)
    \/ \E r \in Replies, ok \in BOOLEAN : ServerPacket(r, ok)
    \/ LegLost \/ LegRebuilt \/ LegAddressed \/ PortMovesHands

\* The task runs, its poll timer fires, the VM asks again and again and the
\* server answers what it gets.
RelayFairness ==
    /\ WF_relayVars(RelayTask)
    /\ WF_relayVars(\E r \in 0..MaxIndex : Poll(r))
    /\ WF_relayVars(ClientPacket(Asked, TRUE))
    /\ WF_relayVars(ServerPacket(Answer("none"), TRUE))
    /\ WF_relayVars(vm = "leased" /\ VmRenews)

RelaySpec == RelayInit /\ [][RelayNext]_relayVars
RelayLive == RelaySpec /\ RelayFairness

-----------------------------------------------------------------------------
(* Properties.                                                             *)

RelayTypeOK ==
    /\ ifx \in 0..ifxLast /\ ifxLast \in 1..MaxIndex /\ sock \in 0..ifxLast /\ base \in 0..ifxLast
    /\ pre \in 0..ifxLast
    /\ {legAddr, portHeld, adopted} \subseteq BOOLEAN
    /\ relayAt \in {"off", "start", "bind", "post", "wait", "serve", "backoff"}
    /\ tries \in 0..Attempts /\ unknown \in 0..UnknownLimit
    /\ vm \in {"idle", "relayed", "leased"} /\ request \in [op : {"request"},
           giaddr : {"none", "leg"}, hops : 0..MaxHops]
    /\ claims \subseteq {"vm"}
    /\ relayHits \in 0..MaxRelayFaults

\* relay.rs: the watch closes "the exact permanent-deafness failure mode": when
\* the leg comes to rest, present and addressed, with port 67 free, a VM that
\* keeps asking is leased an address again and again and its claim is in the
\* table.  (A baseline that was adopted instead of bound is excepted: with no
\* reading before and after the bind, the leg that was bound may be gone.)
RelayServes ==
    <>[](relayAt # "off" /\ ifx # None /\ legAddr /\ ~portHeld /\ ~adopted)
        => []<>(vm = "leased" /\ claims # {})
=============================================================================
