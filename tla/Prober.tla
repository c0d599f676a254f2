------------------------------- MODULE Prober -------------------------------
(***************************************************************************)
(* One leg of the prober: an active-backup bond over several wires, ticked *)
(* every PROBE_INTERVAL by the supervisor's main task.  The kernel judges  *)
(* the bond's ports by carrier alone; the prober adds whether anything is  *)
(* reachable over them.  An ingress leg asks the router on every port; the *)
(* fallback leg listens for OSPF hellos and asks its peers only about a    *)
(* port that is silent while a sibling is not.  The bond, its netdevs and  *)
(* the wires change by themselves between any two steps of a tick, so what *)
(* a tick read may be stale when it writes.  Time is counted in ticks.     *)
(***************************************************************************)
EXTENDS Integers

CONSTANTS
    N,        \* ports, numbered in join order
    Rank,     \* the place of each port's wire in the zone's preference order
    Home,     \* the port on the leg's home wire
    Hello,    \* [ospf] hello, in ticks
    Dead,     \* [ospf] dead, in ticks
    MaxFault  \* bound: things that go wrong outside the prober

Ports == 1..N
None == 0     \* a bond without an active port, or without a primary
Unread == -1  \* bonding/active_slave could not be read

ASSUME ProberAssumption ==
    /\ N \in Nat /\ Home \in Ports /\ Rank \in [Ports -> Nat]
    /\ Hello \in Nat \ {0} /\ Dead \in Nat \ {0} /\ MaxFault \in Nat

HYSTERESIS == 3

\* Windows::from_ospf: a hello and a half on the active port, the dead interval
\* on a backup; Never is an age past every window, also of what was never heard.
ActiveWindow == Hello + Hello \div 2
Never == 1 + (IF Dead > ActiveWindow THEN Dead ELSE ActiveWindow)

VARIABLES
    kind,     \* ingress, fallback, or alone: a fallback leg that has no peers
    dev,      \* each port's netdev: gone, down (no carrier), back (updelay) or up
    wire,     \* what passes each wire: ok, mute (unicast only) or dead
    active, primary,  \* the bond, in the kernel
    port,     \* the prober's ports
    held,     \* the port `primary` must name
    refused,  \* the <<target, active>> of the last refused write, or NoTry
    at,       \* the active port as this tick read it
    deaf,     \* no tap of the leg could be opened
    pc,       \* the tick's next step
    faults

kernel == <<dev, active, primary>>
prober == <<port, held, refused, at, deaf, pc>>
vars == <<kind, kernel, wire, prober, faults>>

NoTry == <<None, None>>
Fresh ==
    [reachable |-> TRUE, streak |-> 0, probed |-> FALSE, present |-> FALSE, fit |-> FALSE,
     peer |-> Never, self |-> Never, grace |-> 0, escalating |-> FALSE,
     hello_dead |-> FALSE, wait |-> 0]

\* apply has built the bond on its home port.
Init ==
    /\ kind \in {"ingress", "fallback", "alone"}
    /\ dev = [p \in Ports |-> "up"] /\ wire = [p \in Ports |-> "ok"]
    /\ active = Home /\ primary = Home
    /\ port = [p \in Ports |-> Fresh]
    /\ held = Home /\ refused = NoTry /\ at = None /\ deaf = FALSE
    /\ pc = "read" /\ faults = 0

Fault == faults < MaxFault /\ faults' = faults + 1

-----------------------------------------------------------------------------
(* The kernel's bond and the wires under it.                               *)

Up(d) == {p \in Ports : d[p] = "up"}
Carries(p) == dev[p] \in {"back", "up"}

\* primary_reselect=always: the primary if it is up, else stay, else any port.
Reselect(d, prim) ==
    IF prim \in Up(d) THEN {prim}
    ELSE IF active \in Up(d) THEN {active}
    ELSE IF Up(d) = {} THEN {None} ELSE Up(d)

\* A netdev that goes may take a primary that names it along.
LinkEvent(p, to) ==
    /\ dev' = [dev EXCEPT ![p] = to]
    /\ UNCHANGED primary \/ (to = "gone" /\ primary = p /\ primary' = None)
    /\ active' \in Reselect(dev', primary')
    /\ UNCHANGED <<kind, wire, prober>>

CarrierLost(p) == Carries(p) /\ LinkEvent(p, "down") /\ Fault
Vanish(p) == dev[p] # "gone" /\ LinkEvent(p, "gone") /\ Fault
CarrierBack(p) == dev[p] = "down" /\ LinkEvent(p, "back") /\ UNCHANGED faults
UpDelayEnds(p) == dev[p] = "back" /\ LinkEvent(p, "up") /\ UNCHANGED faults

\* Only Observe looks at the wires, so they change between ticks.
WireFails(p) ==
    /\ pc = "read"
    /\ \E w \in {"mute", "dead"} \ {wire[p]} : wire' = [wire EXCEPT ![p] = w]
    /\ Fault /\ UNCHANGED <<kind, kernel, prober>>
WireHeals(p) ==
    /\ pc = "read" /\ wire[p] # "ok" /\ wire' = [wire EXCEPT ![p] = "ok"]
    /\ UNCHANGED <<kind, kernel, prober, faults>>

\* Mutant: the declared home is put back.
WantPrimaryHome == Home

\* want_primary(): the port the prober holds, not the declared home.
WantPrimary == held

\* The forwarding watchdog puts back the port of a netdev that has returned. It
\* runs on the task that ticks the prober, so never inside a tick.
Rebuild(p) ==
    /\ pc = "read" /\ dev[p] = "gone"
    /\ dev' = [dev EXCEPT ![p] = "back"]
    /\ primary' = IF p = WantPrimary THEN p ELSE primary
    /\ UNCHANGED <<kind, wire, active, prober, faults>>

-----------------------------------------------------------------------------
(* Hysteresis.                                                             *)

\* observe(): HYSTERESIS observations in a row against the state turn it.
Fold(s, replied) ==
    IF replied = s.reachable THEN [s EXCEPT !.streak = 0]
    ELSE IF s.streak + 1 >= HYSTERESIS THEN [s EXCEPT !.reachable = replied, !.streak = 0]
    ELSE [s EXCEPT !.streak = @ + 1]

Heard(s) == [s EXCEPT !.reachable = TRUE, !.streak = 0]
Precharge(s) == IF s.reachable THEN [s EXCEPT !.streak = HYSTERESIS - 1] ELSE s

-----------------------------------------------------------------------------
(* A tick reads where the bond is, observes its ports, then acts and asks.  *)

\* Another tick has passed since everything that is dated.
Older(age) == IF age < Never THEN age + 1 ELSE Never
Left(n) == IF n > 0 THEN n - 1 ELSE 0
Aged(s) == [s EXCEPT !.peer = Older(@), !.self = Older(@), !.grace = Left(@), !.wait = Left(@)]

Read ==
    /\ pc = "read" /\ pc' = "observe"
    /\ \/ at' = active /\ UNCHANGED faults
       \/ at' = Unread /\ Fault
    /\ port' = [p \in Ports |-> Aged(port[p])]
    /\ UNCHANGED <<kind, kernel, wire, held, refused, deaf>>

GraceOf == IF kind = "ingress" THEN 0 ELSE Dead

\* Mutant: a port that appears has no grace period.
SeeAtOnce(s, there, fit) == [s EXCEPT !.present = there, !.fit = fit]

\* bond_port_state(): fit is carrier and the driver's link up. A port that has
\* just appeared is left alone for a while.
See(s, there, fit) ==
    [s EXCEPT !.present = there, !.fit = fit,
              !.grace = IF there /\ ~s.present THEN GraceOf ELSE @]

\* What has arrived on a port since the last tick. Peers, and this member by
\* the reflection of its own hello through the backbone, say hello every Hello.
PeerHello(p) ==
    kind = "fallback" /\ Carries(p) /\ wire[p] = "ok" /\ port[p].peer >= Hello
Reflection(p) ==
    /\ kind # "ingress" /\ Carries(p) /\ wire[p] = "ok" /\ port[p].self >= Hello
    /\ p # active /\ active \in Ports /\ Carries(active) /\ wire[active] = "ok"
Answer(p) == port[p].probed /\ Carries(p) /\ wire[p] # "dead"

\* The first hello on a port that has just appeared takes up to Hello.
MayBeLate(p) == port[p].peer = Never /\ (port[p].present => port[p].grace + Hello > Dead)

\* An ingress port is judged by its replies alone.
FoldReply(s, replied) == IF s.probed THEN Fold(s, replied) ELSE s

\* Only a frame that arrived makes a wire live again, and only a hello clears
\* hello_dead. The reflection is evidence for a backup port only.
FoldFrames(s, p, peer, self) ==
    LET heard == peer \/ (self /\ p # at)
        replied == s.escalating /\ Answer(p)
        t == [s EXCEPT !.peer = IF peer THEN 0 ELSE @, !.self = IF self THEN 0 ELSE @,
                       !.hello_dead = @ /\ ~heard]
    IN  IF heard \/ replied THEN [Heard(t) EXCEPT !.escalating = FALSE, !.wait = 0]
        ELSE IF s.escalating /\ s.probed THEN Fold(t, FALSE) ELSE t

\* passive::verdicts, of the ports f of the leg together.
Last(f, p) == IF p # at /\ f[p].self < f[p].peer THEN f[p].self ELSE f[p].peer
Good(f, p) == Last(f, p) <= (IF p = at THEN ActiveWindow ELSE Dead)
Verdict(f, p) ==
    IF Good(f, p) THEN "good"
    ELSE IF f[p].grace > 0 \/ kind = "alone" THEN "watch"
    ELSE IF \E q \in Ports : Good(f, q) THEN "suspect" ELSE "quiet"

\* Mutant: a wire that answers ARP is not put to the engine.
SilentUnreachable(f, p) == Verdict(f, p) = "suspect" /\ p = at /\ ~f[p].reachable

\* F27: past the dead interval, silence on the active port is put to the engine.
Silent(f, p) == Verdict(f, p) = "suspect" /\ ~f[p].hello_dead /\ p = at /\ f[p].peer > Dead

\* Mutant: evidence inside its window makes a wire live.
SettleGoodIsLive(s, v) ==
    IF v = "good" THEN Heard([s EXCEPT !.escalating = FALSE, !.probed = FALSE, !.wait = 0])
    ELSE IF v = "suspect" /\ ~s.escalating
    THEN Precharge([s EXCEPT !.escalating = TRUE, !.probed = FALSE, !.wait = 0])
    ELSE s

\* What a verdict changes: a suspect is asked about, anything settled is not.
Settle(s, v) ==
    IF v \in {"good", "quiet"} \/ (v = "suspect" /\ s.hello_dead)
    THEN [s EXCEPT !.escalating = FALSE, !.probed = FALSE, !.wait = 0]
    ELSE IF v = "suspect" /\ ~s.escalating
    THEN Precharge([s EXCEPT !.escalating = TRUE, !.probed = FALSE, !.wait = 0])
    ELSE s

\* Every port read and heard: those of blind could not be read, the taps of
\* shut not opened, and the first hello of those of late has yet to arrive.
Observed(blind, shut, late) ==
    [p \in Ports |->
        LET s == See(port[p], dev[p] # "gone" /\ p \notin blind, dev[p] = "up" /\ p \notin blind)
        IN  IF kind = "ingress" THEN FoldReply(s, Answer(p))
            ELSE IF p \in shut THEN s
            ELSE FoldFrames(s, p, PeerHello(p) /\ p \notin late, Reflection(p))]

\* What the engine says of the peers on this bond: hellos may be arriving again.
EngineSays == IF at \in Ports /\ wire[at] = "ok" THEN {"two-way", "below"} ELSE {"below"}

Judge(f, below) ==
    [p \in Ports |-> LET s == [f[p] EXCEPT !.hello_dead = @ \/ (below /\ Silent(f, p))]
                     IN  Settle(s, Verdict(f, p))]

Observe ==
    /\ pc = "observe" /\ pc' = "actuate"
    /\ \E blind \in SUBSET Ports, shut \in SUBSET {p \in Ports : dev[p] = "gone"},
          late \in SUBSET {p \in Ports : MayBeLate(p) /\ PeerHello(p)},
          said \in EngineSays \union {"unreadable"} :
          LET f == Observed(blind, shut, late)
              asked == \E p \in Ports : Silent(f, p)
          IN  /\ kind = "ingress" => shut = {}
              /\ ~asked => said = "below"
              /\ IF blind # {} \/ said = "unreadable" THEN Fault ELSE UNCHANGED faults
              /\ deaf' = (kind # "ingress" /\ shut = Ports)
              /\ port' = IF kind = "ingress" \/ deaf' THEN f ELSE Judge(f, said = "below")
    /\ UNCHANGED <<kind, kernel, wire, held, refused, at>>

-----------------------------------------------------------------------------
(* Asking, which ends the tick.                                            *)

CanSend(p) == dev[p] # "gone"

AskRouter(s, p) ==
    IF CanSend(p) THEN [s EXCEPT !.probed = TRUE] ELSE Fold([s EXCEPT !.probed = FALSE], FALSE)

\* Only a suspect is asked about, and one that is confirmed dead once per hello
\* interval (F28). A suspect that cannot be asked about has missed.
AskPeers(s, p) ==
    IF ~s.escalating THEN s
    ELSE IF ~s.reachable /\ s.wait > 0 THEN [s EXCEPT !.probed = FALSE]
    ELSE LET t == IF s.reachable THEN s ELSE [s EXCEPT !.wait = Hello]
             missed == Fold([t EXCEPT !.probed = FALSE], FALSE)
         IN  IF CanSend(p) THEN [t EXCEPT !.probed = TRUE]
             ELSE [missed EXCEPT !.escalating = missed.reachable,
                                 !.wait = IF missed.reachable THEN @ ELSE 0]

Asked(f) ==
    [p \in Ports |-> IF kind = "ingress" THEN AskRouter(f[p], p) ELSE AskPeers(f[p], p)]

-----------------------------------------------------------------------------
(* The decision, and the two writes that carry it out.                     *)

Usable(p) == port[p].reachable /\ ~port[p].hello_dead /\ port[p].fit
Better(p, q) == Rank[p] < Rank[q] \/ (Rank[p] = Rank[q] /\ p <= q)

Best == CHOOSE p \in Ports : Usable(p) /\ \A q \in Ports : Usable(q) => Better(p, q)

\* decide(): the best usable port, unless the bond is on one as good.
Target ==
    IF \A p \in Ports : ~Usable(p) THEN None
    ELSE IF at \in Ports /\ Usable(at) /\ Rank[at] <= Rank[Best] THEN None ELSE Best

Attempt == <<Target, at>>

\* The tick goes on with what the leg knows, f, and ends by asking.
Finish(f) ==
    /\ pc = "actuate" /\ pc' = "read" /\ at' = None
    /\ port' = Asked(f) /\ UNCHANGED <<kind, dev, wire, deaf>>

\* A leg that cannot be read or heard is left alone; so is one that is where it
\* belongs, and one whose last write from here was refused.
Stay ==
    /\ at = Unread \/ deaf \/ Target = None \/ refused = Attempt
    /\ UNCHANGED <<active, primary, held, refused, faults>>
    /\ Finish(port)

Tries == at # Unread /\ ~deaf /\ Target # None /\ refused # Attempt

\* The port that takes over has a grace period.
Promoted(t) == [port EXCEPT ![t].grace = GraceOf]

Move ==
    /\ Tries /\ dev[Target] = "up"
    /\ primary' = Target /\ active' = Target /\ held' = Target /\ refused' = NoTry
    /\ Finish(Promoted(Target)) /\ UNCHANGED faults

\* The link went down after it was read, or a write fails for another reason:
\* `primary`, written first, takes effect if only the active port is refused.
Refused ==
    /\ Tries
    /\ IF dev[Target] = "up" THEN Fault ELSE UNCHANGED faults
    /\ \/ primary' = Target
       \/ dev[Target] \in {"gone", "up"} /\ UNCHANGED primary
    /\ refused' = Attempt
    /\ Finish(port) /\ UNCHANGED <<active, held>>

-----------------------------------------------------------------------------
Tick == Read \/ Observe \/ Stay \/ Move \/ Refused
World(p) ==
    \/ CarrierLost(p) \/ Vanish(p) \/ CarrierBack(p) \/ UpDelayEnds(p)
    \/ WireFails(p) \/ WireHeals(p) \/ Rebuild(p)
Next == Tick \/ \E p \in Ports : World(p)

\* The tick is an arm of the main loop; updelay runs out.
Fairness == WF_vars(Tick) /\ \A p \in Ports : WF_vars(UpDelayEnds(p))

Spec == Init /\ [][Next]_vars /\ Fairness

-----------------------------------------------------------------------------
PortState ==
    [reachable : BOOLEAN, streak : 0..(HYSTERESIS - 1), probed : BOOLEAN, present : BOOLEAN,
     fit : BOOLEAN, peer : 0..Never, self : 0..Never, grace : 0..Dead,
     escalating : BOOLEAN, hello_dead : BOOLEAN, wait : 0..Hello]

\* Every variable keeps its type; in particular no streak reaches HYSTERESIS and
\* no age, grace or wait passes its limit.
TypeOK ==
    /\ kind \in {"ingress", "fallback", "alone"}
    /\ dev \in [Ports -> {"gone", "down", "back", "up"}]
    /\ wire \in [Ports -> {"ok", "mute", "dead"}]
    /\ active \in Ports \union {None} /\ primary \in Ports \union {None}
    /\ port \in [Ports -> PortState]
    /\ held \in Ports /\ refused \in (Ports \union {None}) \X (Ports \union {None})
    /\ at \in Ports \union {None, Unread} /\ deaf \in BOOLEAN
    /\ pc \in {"read", "observe", "actuate"} /\ faults \in 0..MaxFault

\* A healthy leg is left alone: while nothing has gone wrong no wire is condemned,
\* called unreachable or asked about, though the first hello takes longer to reach
\* one port than another.
HealthyStays ==
    faults = 0 /\ pc = "read" => /\ active = Home /\ refused = NoTry
                               /\ \A p \in Ports : /\ port[p].reachable /\ ~port[p].hello_dead
                                                   /\ ~port[p].escalating

\* Time alone rehabilitates nothing: a wire that was confirmed dead is reachable
\* again only by a frame that has just arrived on it, and one condemned for its
\* silence (F27) only by a hello, however readily it answers ARP. The stale date
\* of a demoted port, whose window widens, is no such frame.
OnlyAFrameRevives ==
    [][\A p \in Ports :
          LET hello == port'[p].peer = 0 \/ (port'[p].self = 0 /\ at # p)
          IN  /\ port[p].hello_dead /\ ~port'[p].hello_dead => hello
              /\ ~port[p].reachable /\ port'[p].reachable =>
                    \/ hello
                    \/ port[p].probed /\ Carries(p) /\ wire[p] # "dead"]_vars

\* The prober owns `primary`: between ticks it names the port the prober holds,
\* unless its netdev took it along or a write was refused half way. Otherwise the
\* next link event would take the bond back to a wire the prober had left.
PrimaryIsHeld == pc = "read" => primary \in {held, None} \/ refused # NoTry

\* No flapping: once the world stays as it is, the prober stops moving the bond,
\* also off and on a wire that answers ARP but carries no hello.
Settles == <>[][~Move]_vars

Failed(p) == IF kind = "ingress" THEN wire[p] = "dead" ELSE wire[p] # "ok"
Misplaced ==
    /\ kind # "alone" /\ active \in Ports /\ Failed(active)
    /\ \E q \in Ports : wire[q] = "ok" /\ dev[q] = "up"

\* The bond is not left for ever on a wire that has failed while another is sound,
\* also when the failed wire answers ARP, except after a refused write; a lone
\* member cannot tell.
LeavesFailedWire == []<>(~Misplaced \/ refused # NoTry)

\* The two together: decide() and the escalation bring the bond to a sound wire
\* and leave it there.
FindsItsWire == Settles /\ LeavesFailedWire
=============================================================================
