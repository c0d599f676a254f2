---------------------------- MODULE ProberProofs ----------------------------
(***************************************************************************)
(* What a leg of the prober guarantees for every number of ports, every    *)
(* preference order, every hello and dead interval and every number of     *)
(* faults: it is well typed, it keeps the bond's `primary` where it holds  *)
(* it, only a frame that arrived revives a wire, and, on a fabric whose    *)
(* dead interval is no shorter than its hello, a healthy leg stays put.    *)
(***************************************************************************)
EXTENDS Prober, WellFoundedInduction, TLAPS

\* The two parts of TypeOK: what the prober knows of its ports, and the rest.
PortsOK == port \in [Ports -> PortState]
RestOK ==
    /\ kind \in {"ingress", "fallback", "alone"}
    /\ dev \in [Ports -> {"gone", "down", "back", "up"}]
    /\ wire \in [Ports -> {"ok", "mute", "dead"}]
    /\ active \in Ports \union {None} /\ primary \in Ports \union {None}
    /\ held \in Ports /\ refused \in (Ports \union {None}) \X (Ports \union {None})
    /\ at \in Ports \union {None, Unread} /\ deaf \in BOOLEAN
    /\ pc \in {"read", "observe", "actuate"} /\ faults \in 0..MaxFault

\* TypeOK is its two parts.
LEMMA TypeParts == TypeOK <=> PortsOK /\ RestOK
  BY DEF TypeOK, PortsOK, RestOK

\* The windows are natural numbers, and Never lies past all of them.
LEMMA Windows ==
  /\ N \in Nat /\ Home \in Ports /\ Hello \in Nat /\ Dead \in Nat /\ MaxFault \in Nat
  /\ Hello > 0 /\ Dead > 0 /\ ActiveWindow \in Nat /\ Never \in Nat
  /\ ActiveWindow >= Hello /\ Never > Dead /\ Never > ActiveWindow
<1>1. /\ N \in Nat /\ Home \in Ports /\ Hello \in Nat /\ Dead \in Nat /\ MaxFault \in Nat
      /\ Hello > 0 /\ Dead > 0
  BY ProberAssumption
<1>2. Hello \div 2 \in Nat
  BY <1>1
<1>3. ActiveWindow \in Nat /\ ActiveWindow >= Hello
  BY <1>1, <1>2 DEF ActiveWindow
<1>4. Never \in Nat /\ Never > Dead /\ Never > ActiveWindow
  BY <1>1, <1>3 DEF Never
<1> QED BY <1>1, <1>3, <1>4

-----------------------------------------------------------------------------
(* The functions a tick applies to a port.                                 *)

\* Time passing keeps a port well formed and changes no verdict on it.
LEMMA AgedPort ==
  ASSUME NEW s \in PortState
  PROVE  /\ Aged(s) \in PortState
         /\ Aged(s).peer = Older(s.peer) /\ Aged(s).grace = Left(s.grace)
         /\ Aged(s).present = s.present /\ Aged(s).hello_dead = s.hello_dead
         /\ Aged(s).reachable = s.reachable /\ Aged(s).escalating = s.escalating
<1>1. /\ Older(s.peer) \in 0..Never /\ Older(s.self) \in 0..Never
      /\ Left(s.grace) \in 0..Dead /\ Left(s.wait) \in 0..Hello
  BY Windows DEF PortState, Older, Left
<1> QED BY <1>1 DEF PortState, Aged

\* What a step that folds in an observation, or asks, leaves as it was.
Keeps(s, t) ==
    /\ t.present = s.present /\ t.fit = s.fit /\ t.grace = s.grace
    /\ t.peer = s.peer /\ t.self = s.self /\ t.hello_dead = s.hello_dead

\* The hysteresis keeps a port well formed; it turns only to what it saw last.
LEMMA FoldPort ==
  ASSUME NEW s \in PortState, NEW r \in BOOLEAN
  PROVE  /\ Fold(s, r) \in PortState /\ Keeps(s, Fold(s, r))
         /\ Fold(s, r).escalating = s.escalating
         /\ Fold(s, r).reachable => s.reachable \/ r
         /\ s.reachable /\ r => Fold(s, r).reachable
<1>0. s.streak \in 0..2 /\ s.reachable \in BOOLEAN /\ 0 \in 0..(HYSTERESIS - 1)
  BY DEF PortState, HYSTERESIS
<1>1. CASE r = s.reachable
  BY <1>1 DEF Fold, PortState, HYSTERESIS, Keeps
<1>2. CASE r # s.reachable /\ s.streak + 1 >= HYSTERESIS
  <2>1. Fold(s, r) = [s EXCEPT !.reachable = r, !.streak = 0]
    BY <1>2 DEF Fold
  <2>2. Fold(s, r) \in PortState /\ Keeps(s, Fold(s, r))
    BY <2>1, <1>0 DEF PortState, Keeps
  <2>3. Fold(s, r).reachable = r /\ Fold(s, r).escalating = s.escalating
    BY <2>1 DEF PortState
  <2> QED BY <2>2, <2>3
<1>3. CASE r # s.reachable /\ ~(s.streak + 1 >= HYSTERESIS)
  <2>1. Fold(s, r) = [s EXCEPT !.streak = s.streak + 1]
    BY <1>3 DEF Fold, PortState
  <2>2. s.streak + 1 \in 0..(HYSTERESIS - 1)
    BY <1>0, <1>3 DEF HYSTERESIS
  <2> QED BY <2>1, <2>2, <1>3 DEF PortState, Keeps
<1> QED BY <1>1, <1>2, <1>3

\* What is seen of a netdev concerns its presence, its fitness and its grace.
LEMMA SeePort ==
  ASSUME NEW s \in PortState, NEW there \in BOOLEAN, NEW fit \in BOOLEAN
  PROVE  LET r == See(s, there, fit)
         IN  /\ r \in PortState /\ r.present = there /\ r.fit = fit
             /\ r.grace = IF there /\ ~s.present THEN GraceOf ELSE s.grace
             /\ r.peer = s.peer /\ r.self = s.self /\ r.hello_dead = s.hello_dead
             /\ r.reachable = s.reachable /\ r.escalating = s.escalating /\ r.probed = s.probed
<1> DEFINE g == IF there /\ ~s.present THEN GraceOf ELSE s.grace
<1>1. GraceOf \in 0..Dead /\ s.grace \in 0..Dead
  BY Windows DEF GraceOf, PortState
<1>2. See(s, there, fit) = [s EXCEPT !.present = there, !.fit = fit, !.grace = g]
  BY DEF See
<1>3. g \in 0..Dead
  BY <1>1
<1> HIDE DEF g
<1>4. LET r == [s EXCEPT !.present = there, !.fit = fit, !.grace = g]
      IN  /\ r \in PortState /\ r.present = there /\ r.fit = fit /\ r.grace = g
          /\ r.peer = s.peer /\ r.self = s.self /\ r.hello_dead = s.hello_dead
          /\ r.reachable = s.reachable /\ r.escalating = s.escalating /\ r.probed = s.probed
  BY <1>3 DEF PortState
<1> QED BY <1>2, <1>4 DEF g

\* A port of an ingress leg is revived by a reply only.
LEMMA ReplyPort ==
  ASSUME NEW s \in PortState, NEW r \in BOOLEAN
  PROVE  /\ FoldReply(s, r) \in PortState /\ Keeps(s, FoldReply(s, r))
         /\ FoldReply(s, r).escalating = s.escalating
         /\ FoldReply(s, r).reachable => s.reachable \/ (s.probed /\ r)
         /\ s.reachable /\ (s.probed => r) => FoldReply(s, r).reachable
  BY FoldPort DEF FoldReply, Keeps

\* The evidence that revives a wire: a hello that has just arrived on the port.
Evidence(s, p) == s.peer = 0 \/ (s.self = 0 /\ at # p)

\* What the frames make of a port s: it is revived by a hello, or by the reply to
\* a question, which does not clear hello_dead.
Folded(s, p, peer, r) ==
    /\ r.present = s.present /\ r.fit = s.fit /\ r.grace = s.grace
    /\ peer => r.peer = 0
    /\ ~peer => r.peer = s.peer
    /\ r.hello_dead => s.hello_dead
    /\ s.hello_dead /\ ~r.hello_dead => Evidence(r, p)
    /\ r.escalating => s.escalating
    /\ r.reachable => s.reachable \/ Evidence(r, p) \/ Answer(p)
    /\ s.reachable /\ ~s.escalating => r.reachable

\* FoldFrames does that.
LEMMA FramesPort ==
  ASSUME NEW s \in PortState, NEW p, NEW peer \in BOOLEAN, NEW self \in BOOLEAN,
         NEW r, r = FoldFrames(s, p, peer, self)
  PROVE  r \in PortState /\ Folded(s, p, peer, r)
<1> DEFINE heard == peer \/ (self /\ p # at)
           replied == s.escalating /\ Answer(p)
           t == [s EXCEPT !.peer = IF peer THEN 0 ELSE s.peer,
                          !.self = IF self THEN 0 ELSE s.self,
                          !.hello_dead = s.hello_dead /\ ~heard]
<1>0. /\ s.peer \in 0..Never /\ s.self \in 0..Never /\ s.hello_dead \in BOOLEAN
      /\ 0 \in 0..Never /\ 0 \in 0..Hello /\ 0 \in 0..(HYSTERESIS - 1)
  BY Windows DEF PortState, HYSTERESIS
<1>1. t \in PortState
  <2>1. /\ (IF peer THEN 0 ELSE s.peer) \in 0..Never /\ (IF self THEN 0 ELSE s.self) \in 0..Never
        /\ (s.hello_dead /\ ~heard) \in BOOLEAN
    BY <1>0
  <2> HIDE DEF heard
  <2> QED BY <2>1 DEF PortState
<1>2. /\ t.reachable = s.reachable /\ t.escalating = s.escalating
      /\ t.present = s.present /\ t.fit = s.fit /\ t.grace = s.grace
      /\ t.peer = (IF peer THEN 0 ELSE s.peer) /\ t.self = (IF self THEN 0 ELSE s.self)
      /\ t.hello_dead = (s.hello_dead /\ ~heard)
  BY DEF PortState
<1>3. r = IF heard \/ replied THEN [Heard(t) EXCEPT !.escalating = FALSE, !.wait = 0]
          ELSE IF s.escalating /\ s.probed THEN Fold(t, FALSE) ELSE t
  BY DEF FoldFrames
<1> HIDE DEF t
<1>4. /\ r \in PortState /\ Keeps(t, r)
      /\ r.escalating => t.escalating
      /\ r.reachable => t.reachable \/ heard \/ replied
      /\ t.reachable /\ ~t.escalating => r.reachable
  <2>1. CASE heard \/ replied
    <3>1. r = [t EXCEPT !.reachable = TRUE, !.streak = 0, !.escalating = FALSE, !.wait = 0]
      BY <1>1, <1>3, <2>1 DEF Heard, PortState
    <3> HIDE DEF heard, replied
    <3> QED BY <3>1, <1>0, <1>1, <2>1 DEF PortState, Keeps
  <2>2. CASE ~(heard \/ replied)
    <3>1. (r = Fold(t, FALSE) /\ s.escalating) \/ r = t
      BY <1>3, <2>2
    <3>2. CASE r = Fold(t, FALSE) /\ s.escalating
      <4>1. /\ Fold(t, FALSE) \in PortState /\ Keeps(t, Fold(t, FALSE))
            /\ Fold(t, FALSE).escalating = t.escalating
            /\ Fold(t, FALSE).reachable => t.reachable
        BY <1>1, FoldPort
      <4> QED BY <1>2, <3>2, <4>1
    <3>3. CASE r = t
      BY <1>1, <3>3 DEF Keeps
    <3> QED BY <3>1, <3>2, <3>3
  <2> QED BY <2>1, <2>2
<1>5. heard => Evidence(t, p)
  BY <1>2 DEF Evidence
<1>6. Evidence(t, p) => Evidence(r, p)
  BY <1>4 DEF Evidence, Keeps
<1> QED BY <1>0, <1>2, <1>4, <1>5, <1>6 DEF Keeps, Folded

\* What is made of a verdict changes what is asked, not what is known.
LEMMA SettlePort ==
  ASSUME NEW s \in PortState, NEW v
  PROVE  /\ Settle(s, v) \in PortState /\ Keeps(s, Settle(s, v))
         /\ Settle(s, v).reachable = s.reachable
         /\ v # "suspect" /\ ~s.escalating => ~Settle(s, v).escalating
<1> DEFINE off == [s EXCEPT !.escalating = FALSE, !.probed = FALSE, !.wait = 0]
           on == [s EXCEPT !.escalating = TRUE, !.probed = FALSE, !.wait = 0]
<1>0. 0 \in 0..Hello /\ HYSTERESIS - 1 \in 0..(HYSTERESIS - 1)
  BY Windows DEF HYSTERESIS
<1>1. off \in PortState /\ Keeps(s, off) /\ off.reachable = s.reachable /\ ~off.escalating
  BY <1>0 DEF PortState, Keeps
<1>2. on \in PortState /\ Keeps(s, on) /\ on.reachable = s.reachable
  BY <1>0 DEF PortState, Keeps
<1> HIDE DEF on
<1>3. /\ Precharge(on) \in PortState /\ Keeps(on, Precharge(on))
      /\ Precharge(on).reachable = on.reachable
  BY <1>0, <1>2 DEF Precharge, PortState, Keeps
<1>4. Settle(s, v) \in {off, Precharge(on), s}
  BY DEF Settle, on
<1>5. v # "suspect" => Settle(s, v) \in {off, s}
  BY DEF Settle
<1> QED BY <1>1, <1>2, <1>3, <1>4, <1>5 DEF Keeps

\* Asking revives nothing, and a port that can be asked about misses nothing.
LEMMA AskPort ==
  ASSUME NEW s \in PortState, NEW p, NEW r \in {AskRouter(s, p), AskPeers(s, p)}
  PROVE  /\ r \in PortState /\ Keeps(s, r)
         /\ r.reachable => s.reachable
         /\ r.escalating => s.escalating
         /\ CanSend(p) => r.reachable = s.reachable
<1>1. \A c \in BOOLEAN : LET u == [s EXCEPT !.probed = c]
         IN  /\ u \in PortState /\ Keeps(s, u)
             /\ u.reachable = s.reachable /\ u.escalating = s.escalating
  BY DEF PortState, Keeps
<1>2. CASE r = AskRouter(s, p)
  BY <1>1, <1>2, FoldPort DEF AskRouter, Keeps
<1>3. CASE r = AskPeers(s, p)
  <2> DEFINE t == IF s.reachable THEN s ELSE [s EXCEPT !.wait = Hello]
             m == Fold([t EXCEPT !.probed = FALSE], FALSE)
  <2>1. /\ t \in PortState /\ Keeps(s, t)
        /\ t.reachable = s.reachable /\ t.escalating = s.escalating
    BY Windows DEF PortState, Keeps
  <2> HIDE DEF t
  <2>2. \A c \in BOOLEAN : LET u == [t EXCEPT !.probed = c]
           IN  /\ u \in PortState /\ Keeps(s, u)
               /\ u.reachable = s.reachable /\ u.escalating = s.escalating
    BY <2>1 DEF PortState, Keeps
  <2>3. /\ m \in PortState /\ Keeps(s, m)
        /\ m.reachable => s.reachable
    BY <2>2, FoldPort DEF Keeps
  <2> HIDE DEF m
  <2>4. m.reachable \in BOOLEAN /\ (IF m.reachable THEN m.wait ELSE 0) \in 0..Hello
    BY <2>3, Windows DEF PortState
  <2>5. LET u == [m EXCEPT !.escalating = m.reachable, !.wait = IF m.reachable THEN m.wait ELSE 0]
        IN  /\ u \in PortState /\ Keeps(s, u)
            /\ u.reachable = m.reachable /\ u.escalating = m.reachable
    BY <2>3, <2>4 DEF PortState, Keeps
  <2>6. r = IF ~s.escalating THEN s
            ELSE IF ~s.reachable /\ s.wait > 0 THEN [s EXCEPT !.probed = FALSE]
            ELSE IF CanSend(p) THEN [t EXCEPT !.probed = TRUE]
            ELSE [m EXCEPT !.escalating = m.reachable, !.wait = IF m.reachable THEN m.wait ELSE 0]
    BY <1>3 DEF AskPeers, t, m
  <2> QED BY <1>1, <2>2, <2>3, <2>5, <2>6 DEF Keeps
<1> QED BY <1>2, <1>3

-----------------------------------------------------------------------------
(* The steps of a tick.                                                    *)

\* The state of a port after it was read and heard.
LEMMA ObservedPort ==
  ASSUME PortsOK, NEW blind \in SUBSET Ports, NEW shut, NEW late, NEW p \in Ports
  PROVE  LET r == Observed(blind, shut, late)[p]
         IN  /\ r \in PortState
             /\ r.hello_dead => port[p].hello_dead
             /\ port[p].hello_dead /\ ~r.hello_dead => Evidence(r, p)
             /\ r.reachable => port[p].reachable \/ Evidence(r, p) \/ Answer(p)
<1> DEFINE there == dev[p] # "gone" /\ p \notin blind
           fit == dev[p] = "up" /\ p \notin blind
           s == See(port[p], there, fit)
           heard == PeerHello(p) /\ p \notin late
           r == Observed(blind, shut, late)[p]
<1>1. port[p] \in PortState
  BY DEF PortsOK
<1>2. s \in PortState /\ s.reachable = port[p].reachable /\ s.hello_dead = port[p].hello_dead
  <2>1. there \in BOOLEAN /\ fit \in BOOLEAN
    OBVIOUS
  <2> HIDE DEF there, fit
  <2> QED BY <1>1, <2>1, SeePort
<1>3. r = IF kind = "ingress" THEN FoldReply(s, Answer(p))
          ELSE IF p \in shut THEN s ELSE FoldFrames(s, p, heard, Reflection(p))
  BY DEF Observed
<1>4. Answer(p) \in BOOLEAN /\ heard \in BOOLEAN /\ Reflection(p) \in BOOLEAN
  BY DEF Answer, PeerHello, Reflection
<1> HIDE DEF s, heard, r
<1>5. CASE kind = "ingress"
  <2>1. r = FoldReply(s, Answer(p))
    BY <1>3, <1>5
  <2>2. /\ r \in PortState /\ r.hello_dead = s.hello_dead
        /\ r.reachable => s.reachable \/ Answer(p)
    BY <1>2, <1>4, <2>1, ReplyPort DEF Keeps
  <2> QED BY <1>2, <2>2 DEF r
<1>6. CASE kind # "ingress" /\ p \in shut
  <2>1. r = s
    BY <1>3, <1>6
  <2>2. /\ r \in PortState /\ r.hello_dead = port[p].hello_dead
        /\ r.reachable = port[p].reachable
    BY <1>2, <2>1
  <2> QED BY <2>2 DEF r
<1>7. CASE kind # "ingress" /\ p \notin shut
  <2>1. r = FoldFrames(s, p, heard, Reflection(p))
    BY <1>3, <1>7
  <2>2. /\ r \in PortState
        /\ r.hello_dead => s.hello_dead
        /\ s.hello_dead /\ ~r.hello_dead => Evidence(r, p)
        /\ r.reachable => s.reachable \/ Evidence(r, p) \/ Answer(p)
    <3>1. r \in PortState /\ Folded(s, p, heard, r)
      BY <1>2, <1>4, <2>1, FramesPort
    <3> QED BY <3>1 DEF Folded
  <2> QED BY <1>2, <2>2 DEF r
<1> QED BY <1>5, <1>6, <1>7

\* What Observe makes of a port.
LEMMA ObservePort ==
  ASSUME TypeOK, Observe, NEW p \in Ports
  PROVE  /\ port'[p] \in PortState
         /\ port[p].hello_dead /\ ~port'[p].hello_dead => Evidence(port'[p], p)
         /\ port'[p].reachable => port[p].reachable \/ Evidence(port'[p], p) \/ Answer(p)
<1>1. PICK blind \in SUBSET Ports, shut \in SUBSET Ports, late \in SUBSET Ports,
             said \in {"two-way", "below", "unreadable"} :
         port' = LET f == Observed(blind, shut, late)
                 IN  IF kind = "ingress" \/ deaf' THEN f ELSE Judge(f, said = "below")
  BY DEF Observe, EngineSays
<1> DEFINE f == Observed(blind, shut, late)
           r == f[p]
           below == said = "below"
           s == [r EXCEPT !.hello_dead = @ \/ (below /\ Silent(f, p))]
<1>2. /\ r \in PortState
      /\ r.hello_dead => port[p].hello_dead
      /\ port[p].hello_dead /\ ~r.hello_dead => Evidence(r, p)
      /\ r.reachable => port[p].reachable \/ Evidence(r, p) \/ Answer(p)
  BY TypeParts, ObservedPort
<1>3. port'[p] = r \/ port'[p] = Settle(s, Verdict(f, p))
  BY <1>1 DEF Judge
<1> HIDE DEF r
<1>4. /\ s \in PortState /\ s.reachable = r.reachable /\ s.peer = r.peer /\ s.self = r.self
      /\ r.hello_dead => s.hello_dead
  <2>1. (r.hello_dead \/ (below /\ Silent(f, p))) \in BOOLEAN
    BY <1>2 DEF PortState
  <2>2. s = [r EXCEPT !.hello_dead = r.hello_dead \/ (below /\ Silent(f, p))]
    BY <1>2 DEF PortState
  <2> HIDE DEF below, f
  <2> QED BY <1>2, <2>1, <2>2 DEF PortState
<1> HIDE DEF s, f
<1>5. LET t == Settle(s, Verdict(f, p))
      IN  t \in PortState /\ Keeps(s, t) /\ t.reachable = s.reachable
  BY <1>4, SettlePort
<1> QED BY <1>2, <1>3, <1>4, <1>5 DEF Evidence, Keeps

\* The end of a tick revives nothing and changes no date.
LEMMA FinishPort ==
  ASSUME NEW f \in [Ports -> PortState], Finish(f), NEW p \in Ports
  PROVE  /\ port'[p] \in PortState /\ Keeps(f[p], port'[p])
         /\ port'[p].reachable => f[p].reachable
         /\ port'[p].escalating => f[p].escalating
         /\ CanSend(p) => port'[p].reachable = f[p].reachable
<1>1. port'[p] \in {AskRouter(f[p], p), AskPeers(f[p], p)} /\ f[p] \in PortState
  BY DEF Finish, Asked
<1> QED BY <1>1, AskPort

\* Among the usable ports one is the best.
LEMMA BestPort ==
  ASSUME NEW q \in Ports, Usable(q)
  PROVE  Best \in Ports /\ Usable(Best) /\ \A p \in Ports : Usable(p) => Better(Best, p)
<1> DEFINE U == {p \in Ports : Usable(p)}
           R == {Rank[p] : p \in U}
           less == {ss \in Nat \X Nat : ss[1] < ss[2]}
<1>a. \A i, j \in Nat : ~(<<i, j>> \in less) => j <= i
  OBVIOUS
<1>0. IsWellFoundedOn(less, Nat)
  BY NatLessThanWellFounded, Zenon DEF OpToRel
<1>1. R \subseteq Nat /\ R # {}
  BY ProberAssumption
<1>2. PICK k \in R : \A j \in R : ~(<<j, k>> \in less)
  <2> HIDE DEF R, less
  <2> QED BY <1>0, <1>1, WFMin
<1>3. \A j \in R : k <= j
  <2> HIDE DEF R, less
  <2> QED BY <1>1, <1>2, <1>a
<1> DEFINE V == {p \in U : Rank[p] = k}
<1>4. V \subseteq Nat /\ V # {}
  <2>1. Ports \subseteq Nat
    BY ProberAssumption DEF Ports
  <2> QED BY <1>2, <2>1
<1>5. PICK p \in V : \A o \in V : ~(<<o, p>> \in less)
  <2> HIDE DEF V, less
  <2> QED BY <1>0, <1>4, WFMin
<1>6. \A o \in V : p <= o
  <2> HIDE DEF V, less
  <2> QED BY <1>4, <1>5, <1>a
<1>7. \A o \in Ports : Usable(o) => Better(p, o)
  <2> SUFFICES ASSUME NEW o \in Ports, Usable(o) PROVE Better(p, o)
    OBVIOUS
  <2>1. Rank[o] \in R /\ Rank[p] = k /\ Rank[o] \in Nat /\ k \in Nat
    BY <1>1, ProberAssumption
  <2>2. k <= Rank[o]
    BY <1>3, <2>1
  <2>3. CASE Rank[o] = k
    BY <2>1, <2>3, <1>6 DEF Better
  <2>4. CASE Rank[o] # k
    BY <2>1, <2>2, <2>4 DEF Better
  <2> QED BY <2>3, <2>4
<1>8. p \in Ports /\ Usable(p)
  OBVIOUS
<1> QED BY <1>7, <1>8 DEF Best

\* The decision names a port or nothing.
LEMMA TargetPort == Target \in Ports \union {None}
  BY BestPort DEF Target

-----------------------------------------------------------------------------
(* Types.                                                                  *)

\* A step outside the prober keeps the types, and the prober's state.
LEMMA WorldTypes ==
  ASSUME TypeOK, NEW p \in Ports, World(p)
  PROVE  TypeOK' /\ UNCHANGED <<port, held, refused, at, pc>>
<1>0. PortsOK /\ RestOK
  BY TypeParts
<1>1. \A to \in {"gone", "down", "back", "up"} : LinkEvent(p, to) =>
         /\ UNCHANGED <<kind, wire, prober>>
         /\ dev' \in [Ports -> {"gone", "down", "back", "up"}]
         /\ active' \in Ports \union {None} /\ primary' \in Ports \union {None}
  <2> SUFFICES ASSUME NEW to \in {"gone", "down", "back", "up"}, LinkEvent(p, to)
               PROVE  /\ UNCHANGED <<kind, wire, prober>>
                      /\ dev' \in [Ports -> {"gone", "down", "back", "up"}]
                      /\ active' \in Ports \union {None} /\ primary' \in Ports \union {None}
    OBVIOUS
  <2>1. active' \in Reselect(dev', primary')
    BY DEF LinkEvent
  <2>2. Reselect(dev', primary') \subseteq Ports \union {None}
    BY <1>0 DEF Reselect, Up, RestOK
  <2> QED BY <1>0, <2>1, <2>2 DEF LinkEvent, RestOK
<1>2. Fault => faults' \in 0..MaxFault
  BY <1>0, Windows DEF Fault, RestOK
<1>3. UNCHANGED prober => PortsOK' /\ UNCHANGED <<port, held, refused, at, deaf, pc>>
  BY <1>0 DEF prober, PortsOK, PortState
<1>4. CASE CarrierLost(p) \/ Vanish(p) \/ CarrierBack(p) \/ UpDelayEnds(p)
  <2>1. /\ UNCHANGED <<kind, wire, prober>> /\ faults' \in 0..MaxFault
        /\ dev' \in [Ports -> {"gone", "down", "back", "up"}]
        /\ active' \in Ports \union {None} /\ primary' \in Ports \union {None}
    BY <1>0, <1>1, <1>2, <1>4 DEF CarrierLost, Vanish, CarrierBack, UpDelayEnds, RestOK
  <2>2. PortsOK' /\ RestOK'
    BY <1>0, <1>3, <2>1 DEF RestOK
  <2>3. TypeOK'
    BY <2>2, TypeParts, PTL
  <2> QED BY <1>3, <2>1, <2>3
<1>5. CASE WireFails(p) \/ WireHeals(p)
  <2>1. /\ UNCHANGED <<kind, kernel, prober>> /\ faults' \in 0..MaxFault
        /\ wire' \in [Ports -> {"ok", "mute", "dead"}]
    BY <1>0, <1>2, <1>5 DEF WireFails, WireHeals, RestOK
  <2>2. PortsOK' /\ RestOK'
    BY <1>0, <1>3, <2>1 DEF RestOK, kernel
  <2>3. TypeOK'
    BY <2>2, TypeParts, PTL
  <2> QED BY <1>3, <2>1, <2>3
<1>6. CASE Rebuild(p)
  <2>1. /\ UNCHANGED <<kind, wire, active, prober, faults>>
        /\ dev' \in [Ports -> {"gone", "down", "back", "up"}]
        /\ primary' \in Ports \union {None}
    BY <1>0, <1>6 DEF Rebuild, RestOK
  <2>2. PortsOK' /\ RestOK'
    BY <1>0, <1>3, <2>1 DEF RestOK
  <2>3. TypeOK'
    BY <2>2, TypeParts, PTL
  <2> QED BY <1>3, <2>1, <2>3
<1> QED BY <1>4, <1>5, <1>6 DEF World

\* The ports after Read.
LEMMA ReadTypes ==
  ASSUME TypeOK, Read
  PROVE  TypeOK'
<1>0. PortsOK /\ RestOK
  BY TypeParts
<1>1. PortsOK'
  BY <1>0, AgedPort DEF Read, PortsOK
<1>2. RestOK'
  BY <1>0, Windows DEF Read, Fault, kernel, RestOK
<1> QED BY <1>1, <1>2, TypeParts, PTL

\* The ports after Observe.
LEMMA ObserveTypes ==
  ASSUME TypeOK, Observe
  PROVE  TypeOK'
<1>0. PortsOK /\ RestOK
  BY TypeParts
<1>1. \A p \in Ports : port'[p] \in PortState
  BY ObservePort
<1>2. port' = [p \in Ports |-> port'[p]]
  <2>1. \E blind \in SUBSET Ports, shut \in SUBSET Ports, late \in SUBSET Ports,
           said \in {"two-way", "below", "unreadable"} :
           \/ port' = Observed(blind, shut, late)
           \/ port' = Judge(Observed(blind, shut, late), said = "below")
    BY DEF Observe, EngineSays
  <2> QED BY <2>1 DEF Observed, Judge
<1>3. PortsOK'
  BY <1>1, <1>2 DEF PortsOK
<1>4. RestOK'
  BY <1>0, Windows DEF Observe, Fault, kernel, RestOK
<1> QED BY <1>3, <1>4, TypeParts, PTL

\* A port that takes over is well formed.
LEMMA PromotedPorts ==
  ASSUME PortsOK, NEW t \in Ports
  PROVE  /\ Promoted(t) \in [Ports -> PortState]
         /\ \A p \in Ports : /\ Promoted(t)[p].reachable = port[p].reachable
                             /\ Promoted(t)[p].hello_dead = port[p].hello_dead
<1>1. GraceOf \in 0..Dead
  BY Windows DEF GraceOf
<1>2. [port[t] EXCEPT !.grace = GraceOf] \in PortState
  BY <1>1 DEF PortsOK, PortState
<1>3. /\ [port[t] EXCEPT !.grace = GraceOf].reachable = port[t].reachable
      /\ [port[t] EXCEPT !.grace = GraceOf].hello_dead = port[t].hello_dead
  BY DEF PortsOK, PortState
<1>4. Promoted(t) = [port EXCEPT ![t] = [port[t] EXCEPT !.grace = GraceOf]]
  BY DEF Promoted
<1> QED BY <1>2, <1>3, <1>4 DEF PortsOK

\* The end of a tick: the ports it goes on with, and the rest.
LEMMA FinishTypes ==
  ASSUME TypeOK, NEW f \in [Ports -> PortState], Finish(f),
         active' \in Ports \union {None}, primary' \in Ports \union {None}, held' \in Ports,
         refused' \in (Ports \union {None}) \X (Ports \union {None}), faults' \in 0..MaxFault
  PROVE  TypeOK'
<1>0. PortsOK /\ RestOK
  BY TypeParts
<1>1. PortsOK'
  BY FinishPort DEF PortsOK, Finish, Asked
<1>2. RestOK'
  BY <1>0 DEF Finish, RestOK
<1> QED BY <1>1, <1>2, TypeParts, PTL

\* What a tick that acts leaves behind.
LEMMA ActTypes ==
  ASSUME TypeOK, Stay \/ Move \/ Refused
  PROVE  /\ TypeOK'
         /\ \E f \in [Ports -> PortState] :
               /\ Finish(f)
               /\ \A p \in Ports : /\ f[p].reachable = port[p].reachable
                                   /\ f[p].hello_dead = port[p].hello_dead
<1>0. PortsOK /\ RestOK
  BY TypeParts
<1>1. CASE Stay
  BY <1>0, <1>1, FinishTypes DEF Stay, PortsOK, RestOK
<1>2. CASE Move
  <2>1. Target \in Ports
    BY <1>2, TargetPort DEF Move, Tries
  <2>2. Promoted(Target) \in [Ports -> PortState]
    BY <1>0, <2>1, PromotedPorts
  <2>3. TypeOK'
    BY <1>0, <1>2, <2>1, <2>2, FinishTypes DEF Move, NoTry, RestOK
  <2> QED BY <1>0, <1>2, <2>1, <2>2, <2>3, PromotedPorts DEF Move
<1>3. CASE Refused
  <2>1. Target \in Ports /\ at \in Ports \union {None}
    BY <1>0, <1>3, TargetPort DEF Refused, Tries, RestOK
  <2>2. faults' \in 0..MaxFault /\ primary' \in Ports \union {None}
    BY <1>0, <1>3, <2>1, Windows DEF Refused, Fault, RestOK
  <2>3. TypeOK'
    BY <1>0, <1>3, <2>1, <2>2, FinishTypes DEF Refused, Attempt, PortsOK, RestOK
  <2> QED BY <1>0, <1>3, <2>3 DEF Refused, PortsOK
<1> QED BY <1>1, <1>2, <1>3

\* Every step keeps the types.
LEMMA NextTypes ==
  ASSUME TypeOK, [Next]_vars
  PROVE  TypeOK'
<1>1. CASE Next
  BY <1>1, WorldTypes, ReadTypes, ObserveTypes, ActTypes DEF Next, Tick
<1>2. CASE UNCHANGED vars
  BY <1>2 DEF vars, kernel, prober, TypeOK, PortState
<1> QED BY <1>1, <1>2

\* The prober is well typed: no streak reaches HYSTERESIS, no age runs past
\* Never, and the decision always names a port of the leg.
THEOREM TypeCorrect == Spec => []TypeOK
<1>1. Init => TypeOK
  <2> SUFFICES ASSUME Init PROVE TypeOK
    OBVIOUS
  <2>1. Fresh \in PortState
    BY Windows DEF Fresh, PortState, HYSTERESIS
  <2>2. PortsOK
    BY <2>1 DEF Init, PortsOK
  <2>3. RestOK
    <3>1. NoTry \in (Ports \union {None}) \X (Ports \union {None}) /\ 0 \in 0..MaxFault
      BY Windows DEF NoTry
    <3> QED BY <3>1, Windows DEF Init, RestOK
  <2> QED BY <2>2, <2>3, TypeParts
<1>2. TypeOK /\ [Next]_vars => TypeOK'
  BY NextTypes
<1> QED BY <1>1, <1>2, PTL DEF Spec

-----------------------------------------------------------------------------
(* What only a frame can do.                                               *)

\* Nothing but a frame that has just arrived makes a confirmed-dead wire
\* reachable again, and nothing but a hello clears hello_dead: not the passing of
\* time, not the wider window of a demoted port, not the port's return.
THEOREM FrameRevives == Spec => OnlyAFrameRevives
<1> DEFINE Revive ==
      \A p \in Ports :
         LET hello == port'[p].peer = 0 \/ (port'[p].self = 0 /\ at # p)
         IN  /\ port[p].hello_dead /\ ~port'[p].hello_dead => hello
             /\ ~port[p].reachable /\ port'[p].reachable =>
                   \/ hello
                   \/ port[p].probed /\ Carries(p) /\ wire[p] # "dead"
<1>1. ASSUME TypeOK, [Next]_vars PROVE [Revive]_vars
  <2>0. PortsOK
    BY <1>1, TypeParts
  <2>1. CASE \E p \in Ports : World(p)
    BY <1>1, <2>1, WorldTypes
  <2>2. CASE Read
    <3>1. \A p \in Ports : port'[p] = Aged(port[p]) /\ port[p] \in PortState
      BY <2>0, <2>2 DEF Read, PortsOK
    <3>2. \A p \in Ports : /\ port'[p].reachable = port[p].reachable
                           /\ port'[p].hello_dead = port[p].hello_dead
      BY <3>1, AgedPort
    <3> QED BY <3>2
  <2>3. CASE Observe
    BY <1>1, <2>3, ObservePort DEF Evidence, Answer
  <2>4. CASE Stay \/ Move \/ Refused
    <3>1. PICK f \in [Ports -> PortState] :
             /\ Finish(f)
             /\ \A p \in Ports : /\ f[p].reachable = port[p].reachable
                                 /\ f[p].hello_dead = port[p].hello_dead
      BY <1>1, <2>4, ActTypes
    <3>2. \A p \in Ports : /\ port'[p].reachable => f[p].reachable
                           /\ port'[p].hello_dead = f[p].hello_dead
      BY <3>1, FinishPort DEF Keeps
    <3> QED BY <3>1, <3>2
  <2> QED BY <1>1, <2>1, <2>2, <2>3, <2>4 DEF Next, Tick
<1>2. TypeOK /\ [Next]_vars => [Revive]_vars
  BY <1>1
<1> QED BY <1>2, TypeCorrect, PTL DEF Spec, OnlyAFrameRevives

-----------------------------------------------------------------------------
(* The bond's `primary`.                                                   *)

\* PrimaryIsHeld at every point of a tick.
HeldInv == primary \in {held, None} \/ refused # NoTry

\* Whatever refuses, vanishes, returns or is rebuilt, `primary` names the port
\* the prober holds, or none, or a write has been refused since the last move.
THEOREM PrimaryHeld == Spec => []PrimaryIsHeld
<1>1. Init => HeldInv
  BY DEF Init, HeldInv
<1>2. ASSUME TypeOK, HeldInv, [Next]_vars PROVE HeldInv'
  <2>1. ASSUME NEW p \in Ports, World(p) PROVE HeldInv'
    <3>1. UNCHANGED <<held, refused>>
      BY <1>2, <2>1, WorldTypes
    <3>2. primary' \in {primary, None, held}
      BY <2>1 DEF World, CarrierLost, Vanish, CarrierBack, UpDelayEnds, LinkEvent,
                  WireFails, WireHeals, Rebuild, WantPrimary, kernel
    <3> QED BY <1>2, <3>1, <3>2 DEF HeldInv
  <2>2. CASE Read \/ Observe
    BY <1>2, <2>2 DEF Read, Observe, kernel, HeldInv
  <2>3. CASE Stay
    BY <1>2, <2>3 DEF Stay, HeldInv
  <2>4. CASE Move
    BY <2>4 DEF Move, HeldInv
  <2>5. CASE Refused
    BY <2>5 DEF Refused, Tries, Attempt, NoTry, HeldInv
  <2>6. CASE UNCHANGED vars
    BY <1>2, <2>6 DEF vars, kernel, prober, HeldInv
  <2> QED BY <1>2, <2>1, <2>2, <2>3, <2>4, <2>5, <2>6 DEF Next, Tick
<1>3. HeldInv => PrimaryIsHeld
  BY DEF HeldInv, PrimaryIsHeld
<1> QED BY <1>1, <1>2, <1>3, TypeCorrect, PTL DEF Spec

-----------------------------------------------------------------------------
(* A healthy leg.                                                          *)

\* What a declaration must give: the dead interval is no shorter than the hello,
\* and the leg's home wire is first in the zone's order.
Sensible == Hello <= Dead /\ \A p \in Ports : Rank[Home] <= Rank[p]

\* A peer's hello is recent, due at this very tick, or the first has yet to come
\* and the port's grace period covers the wait.
OnTime(s) ==
    \/ s.peer < Hello
    \/ pc = "observe" /\ s.peer = Hello
    \/ /\ s.peer = Never
       /\ s.present => /\ s.grace + Hello >= Dead
                       /\ pc # "observe" => s.grace + Hello > Dead

\* Nothing is held against the port.
Clear(s) == s.reachable /\ ~s.hello_dead /\ ~s.escalating

Healthy ==
    /\ \A p \in Ports : dev[p] = "up" /\ wire[p] = "ok"
    /\ active = Home /\ refused = NoTry /\ deaf = FALSE
    /\ pc # "read" => at = Home
    /\ pc = "actuate" => \A p \in Ports : port[p].fit
    /\ \A p \in Ports : Clear(port[p])
    /\ kind = "fallback" => \A p \in Ports : OnTime(port[p])

HealthInv == faults = 0 => Healthy

\* On a healthy leg nothing happens outside the prober without a fault.
LEMMA HealthyWorld ==
  ASSUME TypeOK, Healthy, NEW p \in Ports, World(p)
  PROVE  faults' # 0
  BY DEF Healthy, World, CarrierLost, Vanish, CarrierBack, UpDelayEnds, WireFails, WireHeals,
         Rebuild, Fault, Carries, TypeOK

\* A healthy leg is read as it is.
LEMMA HealthyRead ==
  ASSUME TypeOK, Healthy, Read, faults' = 0
  PROVE  Healthy'
<1>0. PortsOK /\ RestOK
  BY TypeParts
<1>1. /\ pc' = "observe" /\ at' = Home /\ pc = "read"
      /\ UNCHANGED <<kind, dev, wire, active, refused, deaf>>
  BY <1>0 DEF Read, Healthy, Fault, kernel, RestOK
<1>2. \A p \in Ports : port'[p] = Aged(port[p]) /\ port[p] \in PortState
  BY <1>0 DEF Read, PortsOK
<1>3. \A p \in Ports : Clear(port'[p])
  BY <1>2, AgedPort DEF Clear, Healthy
<1>4. ASSUME kind = "fallback", NEW p \in Ports PROVE OnTime(port[p])'
  <2>1. /\ port'[p].peer = Older(port[p].peer) /\ port'[p].grace = Left(port[p].grace)
        /\ port'[p].present = port[p].present
        /\ port[p].peer \in 0..Never /\ port[p].grace \in 0..Dead
    BY <1>2, AgedPort DEF PortState
  <2>2. OnTime(port[p])
    BY <1>4 DEF Healthy
  <2>3. CASE port[p].peer < Hello
    BY <1>1, <2>1, <2>3, Windows DEF OnTime, Older
  <2>4. CASE ~(port[p].peer < Hello)
    <3>1. /\ port[p].peer = Never
          /\ port[p].present => port[p].grace + Hello > Dead
      BY <1>1, <2>2, <2>4 DEF OnTime
    <3>2. port'[p].peer = Never
      BY <2>1, <3>1, Windows DEF Older
    <3>3. port'[p].present => port'[p].grace + Hello >= Dead
      BY <2>1, <3>1, Windows DEF Left
    <3> QED BY <1>1, <3>2, <3>3 DEF OnTime
  <2> QED BY <2>3, <2>4
<1> QED BY <1>1, <1>3, <1>4 DEF Healthy

\* What a healthy port looks like once it was read and heard.
LEMMA HealthyObserved ==
  ASSUME TypeOK, Sensible, Healthy, pc = "observe", NEW late \in SUBSET Ports,
         \A p \in late : MayBeLate(p), NEW p \in Ports
  PROVE  LET r == Observed({}, {}, late)[p]
         IN  /\ r \in PortState /\ r.fit /\ Clear(r)
             /\ kind = "fallback" => \/ r.peer < Hello
                                     \/ r.peer = Never /\ r.grace > 0 /\ r.grace + Hello > Dead
<1> DEFINE s == See(port[p], TRUE, TRUE)
           heard == PeerHello(p) /\ p \notin late
           self == Reflection(p)
           r == Observed({}, {}, late)[p]
<1>0. port[p] \in PortState /\ dev[p] = "up" /\ wire[p] = "ok" /\ Clear(port[p])
  BY TypeParts DEF PortsOK, Healthy
<1>1. /\ s \in PortState /\ s.present /\ s.fit
      /\ s.grace = (IF ~port[p].present THEN GraceOf ELSE port[p].grace)
      /\ s.peer = port[p].peer /\ s.probed = port[p].probed /\ Clear(s)
  BY <1>0, SeePort DEF Clear
<1>2. r = IF kind = "ingress" THEN FoldReply(s, Answer(p)) ELSE FoldFrames(s, p, heard, self)
  BY <1>0 DEF Observed
<1>3. Answer(p) \in BOOLEAN /\ heard \in BOOLEAN /\ self \in BOOLEAN
  BY DEF Answer, PeerHello, Reflection
<1>4. port[p].probed => Answer(p)
  BY <1>0 DEF Answer, Carries
<1>5. kind = "fallback" => (heard <=> port[p].peer >= Hello /\ p \notin late)
  BY <1>0 DEF PeerHello, Carries
<1> HIDE DEF s, heard, self, r
<1>6. CASE kind = "ingress"
  <2>1. r \in PortState /\ Keeps(s, r) /\ r.escalating = s.escalating /\ r.reachable
    BY <1>1, <1>2, <1>3, <1>4, <1>6, ReplyPort DEF Clear
  <2>2. r.fit /\ Clear(r)
    BY <1>1, <2>1 DEF Clear, Keeps
  <2> QED BY <1>6, <2>1, <2>2 DEF r
<1>7. CASE kind # "ingress"
  <2>0. PICK h \in BOOLEAN, z \in BOOLEAN : r = FoldFrames(s, p, h, z) /\ (h <=> heard)
    BY <1>2, <1>3, <1>7
  <2>1. /\ r \in PortState /\ r.fit = s.fit /\ r.grace = s.grace
        /\ h => r.peer = 0
        /\ ~h => r.peer = s.peer
        /\ r.hello_dead => s.hello_dead
        /\ r.escalating => s.escalating
        /\ s.reachable /\ ~s.escalating => r.reachable
    <3>1. r \in PortState /\ Folded(s, p, h, r)
      BY <1>1, <2>0, FramesPort
    <3> QED BY <3>1 DEF Folded
  <2>2. r.fit /\ Clear(r)
    BY <1>1, <2>1 DEF Clear
  <2>3. ASSUME kind = "fallback"
        PROVE  r.peer < Hello \/ (r.peer = Never /\ r.grace > 0 /\ r.grace + Hello > Dead)
    <3>0. port[p].peer \in 0..Never /\ port[p].grace \in 0..Dead /\ GraceOf = Dead
      BY <1>0, <2>3 DEF PortState, GraceOf
    <3>1. CASE heard \/ port[p].peer < Hello
      BY <1>1, <2>0, <2>1, <3>0, <3>1, Windows
    <3>2. CASE ~heard /\ ~(port[p].peer < Hello)
      <4>1. MayBeLate(p)
        BY <1>5, <2>3, <3>0, <3>2, Windows
      <4>2. r.peer = Never /\ r.grace + Hello > Dead
        BY <1>1, <2>0, <2>1, <3>0, <3>2, <4>1, Windows DEF MayBeLate
      <4>3. r.grace \in Nat
        BY <2>1, Windows DEF PortState
      <4> QED BY <4>2, <4>3, Windows DEF Sensible
    <3> QED BY <3>1, <3>2
  <2> QED BY <1>7, <2>1, <2>2, <2>3 DEF r
<1> QED BY <1>6, <1>7

\* A healthy leg is found healthy: no port of it is a suspect.
LEMMA HealthyObserve ==
  ASSUME TypeOK, Sensible, Healthy, Observe, faults' = 0
  PROVE  Healthy'
<1>0. RestOK /\ pc = "observe" /\ pc' = "actuate" /\ at = Home /\ at' = at
      /\ UNCHANGED <<kind, dev, wire, active, refused>>
  BY TypeParts DEF Observe, Healthy, kernel
<1>1. PICK late \in SUBSET Ports, said \in {"two-way", "below", "unreadable"} :
         /\ \A p \in late : MayBeLate(p)
         /\ deaf' = (kind # "ingress" /\ {} = Ports)
         /\ port' = LET f == Observed({}, {}, late)
                    IN  IF kind = "ingress" \/ deaf' THEN f ELSE Judge(f, said = "below")
  <2>1. PICK blind \in SUBSET Ports, shut \in SUBSET {p \in Ports : dev[p] = "gone"},
             late \in SUBSET {p \in Ports : MayBeLate(p) /\ PeerHello(p)},
             said \in EngineSays \union {"unreadable"} :
             /\ IF blind # {} \/ said = "unreadable" THEN Fault ELSE UNCHANGED faults
             /\ deaf' = (kind # "ingress" /\ shut = Ports)
             /\ port' = LET f == Observed(blind, shut, late)
                        IN  IF kind = "ingress" \/ deaf' THEN f ELSE Judge(f, said = "below")
    BY DEF Observe
  <2>2. blind = {}
    BY <1>0, <2>1 DEF Fault, RestOK
  <2>3. shut = {}
    BY <2>1 DEF Healthy
  <2> QED BY <2>1, <2>2, <2>3 DEF EngineSays
<1> DEFINE f == Observed({}, {}, late)
           below == said = "below"
<1>2. \A p \in Ports : /\ f[p] \in PortState /\ f[p].fit /\ Clear(f[p])
                       /\ kind = "fallback" => \/ f[p].peer < Hello
                                               \/ /\ f[p].peer = Never /\ f[p].grace > 0
                                                  /\ f[p].grace + Hello > Dead
  BY <1>0, <1>1, HealthyObserved
<1>3. deaf' = FALSE
  BY <1>1, Windows
<1> HIDE DEF f, below
<1>4. \A p \in Ports : kind # "ingress" => Verdict(f, p) # "suspect"
  <2> SUFFICES ASSUME NEW p \in Ports, kind # "ingress" PROVE Verdict(f, p) # "suspect"
    OBVIOUS
  <2>1. CASE kind = "fallback" /\ f[p].peer < Hello
    <3>1. /\ f[p].peer \in Int /\ f[p].self \in Int
      BY <1>2, Windows DEF PortState
    <3>2. Last(f, p) <= f[p].peer
      BY <3>1 DEF Last
    <3>3. Last(f, p) \in Int
      BY <3>1 DEF Last
    <3>4. Good(f, p)
      BY <2>1, <3>1, <3>2, <3>3, Windows DEF Good, Sensible
    <3> QED BY <3>4 DEF Verdict
  <2>2. CASE kind = "fallback" /\ f[p].grace > 0
    BY <2>2 DEF Verdict
  <2>3. CASE kind = "alone"
    BY <2>3 DEF Verdict
  <2> QED BY <1>0, <1>2, <2>1, <2>2, <2>3 DEF RestOK
<1>5. \A p \in Ports : /\ port'[p].fit /\ Clear(port'[p])
                       /\ port'[p].peer = f[p].peer /\ port'[p].grace = f[p].grace
  <2>1. CASE kind = "ingress"
    BY <1>1, <1>2, <2>1 DEF f
  <2>2. CASE kind # "ingress"
    <3> SUFFICES ASSUME NEW p \in Ports
                 PROVE  /\ port'[p].fit /\ Clear(port'[p])
                        /\ port'[p].peer = f[p].peer /\ port'[p].grace = f[p].grace
      OBVIOUS
    <3> DEFINE s == [f[p] EXCEPT !.hello_dead = @ \/ (below /\ Silent(f, p))]
    <3>1. port'[p] = Settle(s, Verdict(f, p))
      BY <1>1, <1>3, <2>2 DEF Judge, f, below
    <3>2. s = [f[p] EXCEPT !.hello_dead = FALSE]
      BY <1>2, <1>4, <2>2 DEF Silent, Clear, PortState
    <3>3. /\ s \in PortState /\ s.fit /\ Clear(s)
          /\ s.peer = f[p].peer /\ s.grace = f[p].grace
      BY <1>2, <3>2 DEF Clear, PortState
    <3> HIDE DEF s
    <3> QED BY <1>4, <2>2, <3>1, <3>3, SettlePort DEF Clear, Keeps
  <2> QED BY <2>1, <2>2
<1>6. ASSUME kind = "fallback", NEW p \in Ports PROVE OnTime(port[p])'
  <2>1. \/ port'[p].peer < Hello
        \/ port'[p].peer = Never /\ port'[p].grace + Hello > Dead
    BY <1>2, <1>5, <1>6
  <2>2. port'[p].grace \in Int
    BY <1>2, <1>5, Windows DEF PortState
  <2> QED BY <1>0, <2>1, <2>2, Windows DEF OnTime
<1> QED BY <1>0, <1>3, <1>5, <1>6 DEF Healthy

\* A healthy leg is where it belongs, and its tick only asks.
LEMMA HealthyAct ==
  ASSUME TypeOK, Sensible, Healthy, Stay \/ Move \/ Refused
  PROVE  Healthy'
<1>0. PortsOK /\ RestOK /\ pc = "actuate" /\ at = Home
  BY TypeParts DEF Stay, Move, Refused, Finish, Healthy
<1>1. \A p \in Ports : Usable(p)
  BY <1>0 DEF Healthy, Usable, Clear
<1>2. Target = None
  BY <1>0, <1>1, Windows, BestPort DEF Target, Sensible
<1>3. Finish(port) /\ UNCHANGED <<active, refused>>
  BY <1>2 DEF Stay, Move, Refused, Tries
<1>4. /\ pc' = "read" /\ UNCHANGED <<kind, dev, wire, deaf>>
  BY <1>3 DEF Finish
<1>5. \A p \in Ports : /\ port'[p] \in PortState /\ Keeps(port[p], port'[p])
                       /\ Clear(port'[p])
  BY <1>0, <1>3, FinishPort DEF PortsOK, Healthy, Clear, CanSend, Keeps
<1>6. ASSUME kind = "fallback", NEW p \in Ports PROVE OnTime(port[p])'
  <2>1. OnTime(port[p])
    BY <1>6 DEF Healthy
  <2> QED BY <1>0, <1>4, <1>5, <2>1 DEF OnTime, Keeps
<1> QED BY <1>3, <1>4, <1>5, <1>6 DEF Healthy

\* While nothing has gone wrong the bond stays on its home wire and no wire is
\* called dead or asked about, for every number of ports, every interval and every
\* delay of the first hello.
THEOREM HealthyLegStays == ASSUME Sensible PROVE Spec => []HealthyStays
<1>1. Init => HealthInv
  BY Windows DEF Init, HealthInv, Healthy, Clear, OnTime, Fresh
<1>2. ASSUME TypeOK, HealthInv, [Next]_vars PROVE HealthInv'
  <2> SUFFICES ASSUME faults' = 0 PROVE Healthy'
    BY DEF HealthInv
  <2>0. faults' \in {faults, faults + 1} /\ faults \in Nat
    <3>1. faults \in Nat
      BY <1>2, Windows DEF TypeOK
    <3> QED BY <1>2, <3>1
        DEF Next, Tick, World, Read, Observe, Stay, Move, Refused, CarrierLost, Vanish,
            CarrierBack, UpDelayEnds, WireFails, WireHeals, Rebuild, Fault, vars
  <2>1. Healthy
    BY <1>2, <2>0 DEF HealthInv
  <2>2. CASE UNCHANGED vars
    BY <2>1, <2>2 DEF vars, kernel, prober, Healthy, Clear, OnTime
  <2> QED BY <1>2, <2>1, <2>2, HealthyWorld, HealthyRead, HealthyObserve, HealthyAct DEF Next, Tick
<1>3. HealthInv => HealthyStays
  BY DEF HealthInv, HealthyStays, Healthy, Clear
<1> QED BY <1>1, <1>2, <1>3, TypeCorrect, PTL DEF Spec
=============================================================================
