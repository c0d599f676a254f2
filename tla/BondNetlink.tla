----------------------------- MODULE BondNetlink -----------------------------
(***************************************************************************)
(* The prober's rtnetlink socket (src/netlink.rs): one request, one reply, *)
(* a sequence number that wraps, and a deadline that covers the answers a  *)
(* call has to discard before its own.                                     *)
(*                                                                         *)
(* rtnetlink works a request off inside send(2), so the kernel's answer is *)
(* in the receive queue, or lost to a full one, when the call begins to    *)
(* wait for it.  A netdev is its ifindex; an index is never given twice.   *)
(***************************************************************************)
EXTENDS Naturals, Sequences

CONSTANTS BondPorts,    \* names of the ports
          BondName,     \* name of the bond
          Rungs,        \* the bonding driver's link states, "up" one of them
          SeqLimit,     \* one more than the largest sequence number: 2^32
          RecvBuf,      \* answers the receive buffer holds
          CallDeadline, \* CALL_DEADLINE, in ticks of the clock
          MaxNetdevs,   \* bound: ifindexes given out
          MaxNetEvents  \* bound: what happens to netdevs and to the socket

ASSUME NetlinkAssumption ==
    /\ BondName \notin BondPorts
    /\ "up" \in Rungs /\ "none" \notin Rungs
    /\ RecvBuf \in Nat \ {0} /\ SeqLimit \in Nat /\ RecvBuf + 2 < SeqLimit
    /\ CallDeadline \in Nat \ {0} /\ MaxNetdevs \in Nat
    /\ MaxNetEvents \in Nat

VARIABLES
    netdev,   \* the kernel: index, carrier and bonding state of each name, index 0 for none
    indexes,  \* ifindexes given out
    activeIx, \* the bond's active port, by index, 0 none
    events,   \* happenings so far
    fd,       \* the socket: "none", "open", "blind" (recv gives nothing) or "overrun"
    replies,  \* its receive queue
    seq,      \* the last sequence number used
    asked,    \* the operation under way and how far it is, or NoCall
    left,     \* what is left of the call's budget
    outcome,  \* of the last operation
    \* What the properties remember; no action reads these.
    answer,   \* what the kernel answered to the call under way
    taken,    \* what the last call to be answered took for its answer
    wrote     \* the ports that bore the index the operation has made active

kernelSide == <<netdev, indexes, activeIx, events>>
ghosts     == <<answer, taken, wrote>>
nlVars     == <<kernelSide, fd, replies, seq, asked, left, outcome, ghosts>>

Names  == BondPorts \cup {BondName}
NoDev  == [ix |-> 0, lower |-> "no", rung |-> "none"]
NoWord == [kind |-> "nothing", ix |-> 0, lower |-> "no", rung |-> "none"]
NoCall   == [step |-> "idle", port |-> BondName, phase |-> "call", portIx |-> 0, bondIx |-> 0]
NoEnd  == [of |-> "none", port |-> BondName, said |-> "nothing", carrier |-> "no", link |-> "none"]

\* What a datagram says: a link, an acknowledgement or a refusal.
Link(d) == [kind |-> "link", ix |-> d.ix, lower |-> d.lower, rung |-> d.rung]
Word(k) == [NoWord EXCEPT !.kind = k]

Netdevs == [ix : 0..MaxNetdevs, lower : {"yes", "no"}, rung : Rungs \cup {"none"}]

\* The netdevs the prober finds.
NetlinkInit ==
    /\ netdev \in [Names -> Netdevs] /\ indexes \in 0..MaxNetdevs
    /\ \A n \in Names : netdev[n].ix <= indexes
    /\ \A m, n \in Names : netdev[m].ix = netdev[n].ix /\ netdev[m].ix # 0 => m = n
    /\ activeIx = 0 /\ events = 0
    /\ fd = "none" /\ replies = <<>> /\ seq = 0 /\ asked = NoCall /\ left = 0
    /\ outcome = NoEnd /\ answer = NoWord /\ taken = NoWord /\ wrote = {}

-----------------------------------------------------------------------------
(* The kernel. *)

Happens == events < MaxNetEvents /\ events' = events + 1

\* The ports the kernel takes for active: in the bond, their link up.
Usable == {p \in BondPorts : netdev[p].ix # 0 /\ netdev[p].rung = "up"}

GetLink(n)    == [type |-> "GetLink", name |-> n, bond |-> 0, port |-> 0]
NewLink(b, p) == [type |-> "NewLink", name |-> BondName, bond |-> b, port |-> p]

\* Mistake: RTM_SETLINK, which the kernel acknowledges and drops the bond's data of.
SetActiveBySetlink(b, p) == [NewLink(b, p) EXCEPT !.type = "SetLink"]

\* set_active_msg: the bond by index, its kind and its data.
SetActiveMsg(b, p) == NewLink(b, p)

\* What the kernel says to a request and the port it makes active, 0 for none.
Says(req) ==
    CASE req.type = "GetLink" ->
            IF netdev[req.name].ix = 0 THEN Word("ENODEV") ELSE Link(netdev[req.name])
      [] req.type # "GetLink" /\ netdev[BondName].ix # req.bond -> Word("ENODEV")
      [] req.type = "SetLink" /\ netdev[BondName].ix = req.bond -> Word("ack")
      [] OTHER -> IF \E p \in Usable : netdev[p].ix = req.port THEN Word("ack") ELSE Word("EINVAL")

Moves(req) == req.type = "NewLink" /\ Says(req).kind = "ack"

NetdevAppears(n) ==
    /\ Happens /\ netdev[n].ix = 0 /\ indexes < MaxNetdevs
    /\ indexes' = indexes + 1
    /\ netdev' = [netdev EXCEPT ![n] = [ix |-> indexes + 1, lower |-> "yes", rung |-> "none"]]
    /\ UNCHANGED <<activeIx, fd, replies, seq, asked, left, outcome, ghosts>>

\* The ports of a bond that goes are in none.
NetdevGoes(n) ==
    /\ Happens /\ netdev[n].ix # 0
    /\ netdev' = [m \in Names |-> CASE m = n -> NoDev
                                    [] m # n /\ n = BondName -> [netdev[m] EXCEPT !.rung = "none"]
                                    [] OTHER -> netdev[m]]
    /\ activeIx' = (IF n = BondName \/ activeIx = netdev[n].ix THEN 0 ELSE activeIx)
    /\ UNCHANGED <<indexes, fd, replies, seq, asked, left, outcome, ghosts>>

\* The cable, the driver's ladder, the port enslaved.
PortChanges(p, l, g) ==
    /\ Happens /\ netdev[p].ix # 0 /\ netdev[BondName].ix # 0
    /\ netdev' = [netdev EXCEPT ![p] = [ix |-> @.ix, lower |-> l, rung |-> g]]
    /\ activeIx' = (IF activeIx = netdev[p].ix /\ g # "up" THEN 0 ELSE activeIx)
    /\ UNCHANGED <<indexes, fd, replies, seq, asked, left, outcome, ghosts>>

\* The bond chooses for itself, at a link event.
Reselects(p) ==
    /\ Happens /\ p \in Usable /\ netdev[BondName].ix # 0 /\ activeIx' = netdev[p].ix
    /\ UNCHANGED <<netdev, indexes, fd, replies, seq, asked, left, outcome, ghosts>>

GoesBlind ==
    /\ Happens /\ fd = "open" /\ fd' = "blind"
    /\ UNCHANGED <<netdev, indexes, activeIx, replies, seq, asked, left, outcome, ghosts>>

-----------------------------------------------------------------------------
(* One call. *)

\* wrapping_add(1).max(1)
NextSeq == IF seq + 1 = SeqLimit THEN 1 ELSE seq + 1

DropsSocket(e) == e \in {"no-errno", "EAGAIN", "ETIMEDOUT", "ENOBUFS"}

\* The operation ends in an error; call_fresh drops a socket that is no use any more.
Fails(e) ==
    /\ outcome' = [NoEnd EXCEPT !.of = asked.step, !.port = asked.port, !.said = e]
    /\ asked' = NoCall
    /\ IF DropsSocket(e) THEN fd' = "none" /\ replies' = <<>> ELSE UNCHANGED <<fd, replies>>

Request ==
    IF asked.step = "write" THEN SetActiveMsg(asked.bondIx, asked.portIx)
    ELSE GetLink(IF asked.step = "bond" THEN BondName ELSE asked.port)

\* call, up to its loop: the budget starts before the socket is opened.
SendRequest ==
    /\ asked.step # "idle" /\ asked.phase = "call"
    /\ seq' = NextSeq /\ left' = CallDeadline
    /\ asked' = [asked EXCEPT !.phase = "wait"]
    /\ answer' = Says(Request)
    /\ IF Moves(Request)
       THEN activeIx' = Request.port /\ wrote' = {p \in BondPorts : netdev[p].ix = Request.port}
       ELSE UNCHANGED <<activeIx, wrote>>
    /\ \/ /\ fd \in {"none", "open"} /\ Len(replies) < RecvBuf
          /\ fd' = "open" /\ replies' = Append(replies, [seq |-> seq', word |-> answer'])
       \/ /\ fd = "open" /\ Len(replies) = RecvBuf
          /\ fd' = "overrun" /\ UNCHANGED replies
       \/ fd \in {"blind", "overrun"} /\ UNCHANGED <<fd, replies>>
    /\ UNCHANGED <<netdev, indexes, events, outcome, taken>>

\* socket(): no descriptor left; the number is spent all the same.
CannotOpen ==
    /\ asked.step # "idle" /\ asked.phase = "call" /\ fd = "none"
    /\ seq' = NextSeq /\ Fails("EMFILE")
    /\ UNCHANGED <<kernelSide, left, ghosts>>

Waiting == asked.phase = "wait"

NetlinkClock ==
    /\ Waiting /\ left > 0 /\ left' = left - 1
    /\ UNCHANGED <<kernelSide, fd, replies, seq, asked, outcome, ghosts>>

\* Mistake: whatever comes first is the answer.
StepUnmatched(reply) == IF left = 0 THEN "Expired" ELSE "Accept"

\* step: the deadline first.
StepOf(reply) ==
    CASE left = 0                        -> "Expired"
      [] left > 0 /\ reply.seq = seq     -> "Accept"
      [] left > 0 /\ reply.seq # seq     -> "Discard"

\* port_state: carrier, and the rung if the netdev is a bond port at all; a rung the
\* prober does not know stays apart from those it does.
BondLinkOf(g) == IF g \in {"none", "up", "going-back", "going-down", "down"} THEN g ELSE "unknown"

\* get_link's link, or set_active_port's acknowledgement: the next call, or the end.
Answered(word) ==
    CASE word.kind = "link" /\ asked.step = "port" ->
            /\ asked' = [asked EXCEPT !.step = "bond", !.phase = "call", !.portIx = word.ix]
            /\ UNCHANGED outcome
      [] word.kind = "link" /\ asked.step = "bond" ->
            /\ asked' = [asked EXCEPT !.step = "write", !.phase = "call", !.bondIx = word.ix]
            /\ UNCHANGED outcome
      [] word.kind = "ack" /\ asked.step # "write" ->
            /\ asked' = NoCall
            /\ outcome' = [NoEnd EXCEPT !.of = asked.step, !.port = asked.port, !.said = "no-link"]
      [] OTHER ->
            /\ asked' = NoCall
            /\ outcome' = [of |-> asked.step, port |-> asked.port, said |-> "ok",
                           carrier |-> word.lower, link |-> BondLinkOf(word.rung)]

\* The loop of call, one datagram.
Receives ==
    /\ Waiting /\ fd = "open" /\ replies # <<>>
    /\ LET reply == Head(replies)
       IN  CASE StepOf(reply) = "Expired" -> Fails("ETIMEDOUT") /\ UNCHANGED taken
             [] StepOf(reply) = "Discard" ->
                   replies' = Tail(replies) /\ UNCHANGED <<fd, asked, outcome, taken>>
             [] StepOf(reply) = "Accept" ->
                   /\ taken' = reply.word /\ replies' = Tail(replies) /\ fd' = fd
                   /\ IF reply.word.kind \in {"link", "ack"} THEN Answered(reply.word)
                      ELSE /\ outcome' = [NoEnd EXCEPT !.of = asked.step, !.port = asked.port,
                                                       !.said = reply.word.kind]
                           /\ asked' = NoCall
    /\ UNCHANGED <<kernelSide, seq, left, answer, wrote>>

\* recv(2) itself fails: nothing came in time; answers were lost; a signal; or what came
\* could not be read.
RecvFails(e) ==
    /\ Waiting
    /\ CASE e = "EAGAIN"   -> left = 0 /\ (replies = <<>> \/ fd = "blind")
         [] e = "ENOBUFS"  -> fd = "overrun"
         [] e = "EINTR"    -> left > 0
         [] e = "no-errno" -> replies # <<>> /\ fd = "open"
    /\ Fails(e)
    /\ UNCHANGED <<kernelSide, seq, left, ghosts>>

-----------------------------------------------------------------------------
(* The operations of the prober's tick. *)

Begins(step, p) ==
    /\ asked = NoCall
    /\ asked' = [NoCall EXCEPT !.step = step, !.port = p]
    /\ outcome' = NoEnd /\ answer' = NoWord /\ taken' = NoWord /\ wrote' = {}
    /\ UNCHANGED <<kernelSide, fd, replies, seq, left>>

PortState(p)     == Begins("state", p)
SetActivePort(p) == Begins("port", p)

NetlinkNext ==
    \/ \E n \in Names : NetdevAppears(n) \/ NetdevGoes(n)
    \/ \E p \in BondPorts : \/ Reselects(p) \/ PortState(p) \/ SetActivePort(p)
                            \/ \E l \in {"yes", "no"}, g \in Rungs : PortChanges(p, l, g)
    \/ GoesBlind \/ SendRequest \/ CannotOpen \/ NetlinkClock \/ Receives
    \/ \E e \in {"EAGAIN", "ENOBUFS", "EINTR", "no-errno"} : RecvFails(e)

NetlinkSpec == NetlinkInit /\ [][NetlinkNext]_nlVars

-----------------------------------------------------------------------------
(* Properties. *)

Errnos == {"ENODEV", "EINVAL", "EAGAIN", "ETIMEDOUT", "ENOBUFS", "EINTR", "EMFILE", "no-errno"}
Steps  == {"state", "port", "bond", "write"}
Words  == [kind : Errnos \cup {"nothing", "link", "ack"}, ix : 0..MaxNetdevs,
           lower : {"yes", "no"}, rung : Rungs \cup {"none"}]

\* The type invariant.
NetlinkTypeOK ==
    /\ netdev \in [Names -> Netdevs] /\ events \in 0..MaxNetEvents
    /\ indexes \in 0..MaxNetdevs /\ activeIx \in 0..MaxNetdevs
    /\ fd \in {"none", "open", "blind", "overrun"} /\ Len(replies) <= RecvBuf
    /\ replies \in Seq([seq : 1..(SeqLimit - 1), word : Words])
    /\ seq \in 0..(SeqLimit - 1) /\ left \in 0..CallDeadline
    /\ asked \in [step : Steps \cup {"idle"}, port : Names, phase : {"call", "wait"},
                  portIx : 0..MaxNetdevs, bondIx : 0..MaxNetdevs]
    /\ outcome \in [of : Steps \cup {"none"}, port : Names,
                    said : Errnos \cup {"nothing", "ok", "no-link"}, carrier : {"yes", "no"},
                    link : {"none", "up", "going-back", "going-down", "down", "unknown"}]
    /\ answer \in Words /\ taken \in Words /\ wrote \subseteq BondPorts

\* An operation that has just ended in an answer of the kernel's, and not of the socket's.
Heard == outcome.said \in {"ok", "no-link", "ENODEV", "EINVAL"}

\* "The sequence match is not bookkeeping": what ends an operation is what the kernel
\* answered to its last request and to no other, however many answers interrupted calls left
\* in the queue and however often the number has wrapped; a call that was answered leaves
\* nothing behind, and a socket on which an answer was lost, came late or never came is not
\* used again ("rather than inheriting a wedged fd").
OwnAnswer ==
    /\ Heard => taken = answer /\ replies = <<>>
    /\ outcome.said \in {"EAGAIN", "ETIMEDOUT", "ENOBUFS", "no-errno"} /\ asked = NoCall => fd = "none"

\* A move that is reported done was done, and to the netdev that bore the port's name when
\* the bond was told, though its index was asked for two requests earlier and netdevs go and
\* come back under the same name; one the kernel is reported to have refused did not happen.
MovesAsAsked ==
    outcome.of \in {"port", "bond", "write"} =>
        /\ outcome.said = "ok" => wrote = {outcome.port}
        /\ outcome.said \in {"no-link", "ENODEV", "EINVAL", "EMFILE"} => wrote = {}

\* What the prober is told of its bond is the kernel's word on what it asked.
KernelTalkSound == OwnAnswer /\ MovesAsAsked
==============================================================================
