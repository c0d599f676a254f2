------------------------------ MODULE ConfSync ------------------------------
(***************************************************************************)
(* The cluster configuration protocol of `cfab conf-sync`: a publisher     *)
(* puts a fabric.toml and a generation counter into pmxcfs, every member's *)
(* daemon installs it, asks its own supervisor to re-apply, checks status, *)
(* writes an ack, and keeps the conf only when a different member's fresh  *)
(* ack witnesses it.  The supervisor is modelled as far as the protocol    *)
(* reaches it: a `reapply` of an equal fabric is done in place, a changed  *)
(* one tears the fabric down, stops the daemon, removes the run directory  *)
(* (where the daemon keeps its two counters) and restarts.                 *)
(*                                                                         *)
(* Time: TimePasses is one completed 1 s sleep of everybody who sleeps.  A *)
(* sleep takes a little longer than it says, so an ack that is W ticks old *)
(* is older than the witness window of W polls.                            *)
(***************************************************************************)
EXTENDS Naturals, FiniteSets

CONSTANTS
    Members,     \* cluster members, each running one conf-sync daemon
    Confs,       \* texts a fabric.toml can have
    Base,        \* the text every member starts on
    FabricOf,    \* the derived fabric of a text (comments do not count)
    Torn,        \* what a write cut short by a crash leaves behind
    Valid,       \* the texts that pass the full gate on each member
    Carries,     \* fabrics under which a member can reach status 0 or 1
    MaxGen,      \* bound: publishes
    W,           \* WITNESS_POLLS
    MaxSever,    \* bound: how often members lose the quorate partition
    MaxCrash,    \* bound: publisher, daemon, supervisor and host crashes
    MaxLate      \* bound: requests a busy supervisor lets time out at once

ASSUME ConfAssumption ==
    /\ Base \in Confs /\ Torn \in Confs /\ Carries \subseteq STRING
    /\ Valid \in [Members -> SUBSET Confs]
    /\ \A m \in Members : Base \in Valid[m] /\ Torn \notin Valid[m]
    /\ FabricOf \in [Confs -> STRING] /\ FabricOf[Base] \in Carries
    /\ IsFiniteSet(Members) /\ Members # {}
    /\ MaxGen \in Nat /\ W \in Nat \ {0}
    /\ MaxSever \in Nat /\ MaxCrash \in Nat /\ MaxLate \in Nat

Gens == 1..MaxGen
Absent == W                \* an ack file that is missing, or older than the window
AckTable == [Gens -> [Members -> 0..W]]

VARIABLES
    gen,         \* cfab/gen: the published generation counter
    conf,        \* cfab/fabric.toml: the published text
    acks,        \* cfab/acks/<gen>/<member>: age of each ack file
    publishing,  \* the publisher between its conf rename and its gen rename
    linked,      \* members in the partition that can still talk
    frozen,      \* what a member outside the quorate partition still reads
    local,       \* /etc/cfab/fabric.toml of each member
    prev,        \* /etc/cfab/fabric.toml.prev
    attempted,   \* <run_dir>/conf-sync-attempted
    committed,   \* <run_dir>/conf-sync-committed
    sup,         \* the supervisor: running, in its stop sequence, or down
    running,     \* the fabric the supervisor was started with
    late,        \* reapply requests it has not taken up though the asker gave up
    pc,          \* where the daemon is in handle_new_generation
    cur,         \* the generation the daemon works on
    text,        \* the published text it read for that generation
    polls,       \* witness polls it still has
    acked,       \* it has written its own ack in this window
    slept,       \* its last sleep(TICK) is over
    severs, crashes,
    \* What the properties remember of the past; no action reads these.
    good,        \* the text each member last committed
    outcome,     \* how the last attempt ended
    ackText,     \* the text a member had installed when it acked a generation
    tried        \* generations attempted since the run directory was last lost

shared == <<gen, conf, acks, publishing>>
net == <<linked, frozen, severs>>
files == <<local, prev, attempted, committed>>
daemon == <<pc, cur, text, polls, acked, slept>>
history == <<good, outcome, ackText, tried>>
supervisor == <<sup, running, late>>
vars == <<shared, net, files, supervisor, daemon, crashes, history>>

NoOutcome == [gen |-> 0, kind |-> "none", by |-> {}]

Init ==
    /\ gen = 0 /\ conf = Base /\ publishing = {}
    /\ acks = [g \in Gens |-> [m \in Members |-> Absent]]
    /\ linked = Members /\ severs = 0 /\ crashes = 0
    /\ frozen = [m \in Members |-> [conf |-> conf, acks |-> acks]]
    /\ local = [m \in Members |-> Base] /\ prev = [m \in Members |-> Base]
    /\ attempted = [m \in Members |-> 0] /\ committed = [m \in Members |-> 0]
    /\ sup = [m \in Members |-> "run"]
    /\ running = [m \in Members |-> FabricOf[Base]] /\ late = [m \in Members |-> 0]
    /\ pc = [m \in Members |-> "idle"] /\ cur = [m \in Members |-> 0]
    /\ text = [m \in Members |-> Base] /\ polls = [m \in Members |-> 0]
    /\ acked = [m \in Members |-> FALSE] /\ slept = [m \in Members |-> TRUE]
    /\ good = [m \in Members |-> Base]
    /\ outcome = [m \in Members |-> NoOutcome]
    /\ ackText = [g \in Gens |-> [m \in Members |-> {}]]
    /\ tried = [m \in Members |-> {}]

-----------------------------------------------------------------------------
(* pmxcfs, as the code in src/ relies on it.                               *)

Quorate(m) == m \in linked /\ 2 * Cardinality(linked) > Cardinality(Members)

\* A member outside the quorate partition reads the copy it had when it left.
SeenConf(m) == IF Quorate(m) THEN conf ELSE frozen[m].conf
SeenAcks(m) == IF Quorate(m) THEN acks ELSE frozen[m].acks

Fresh(age) == age < W

Aged(table) == [g \in Gens |-> [m \in Members |->
                   IF table[g][m] < W THEN table[g][m] + 1 ELSE W]]

Sever(m) ==
    /\ severs < MaxSever /\ m \in linked
    /\ severs' = severs + 1
    /\ linked' = linked \ {m}
    /\ frozen' = [n \in Members |-> IF Quorate(n) THEN [conf |-> conf, acks |-> acks]
                                    ELSE frozen[n]]
    /\ UNCHANGED <<shared, files, supervisor, daemon, crashes, history>>

Rejoin(m) ==
    /\ m \notin linked
    /\ linked' = linked \union {m}
    /\ UNCHANGED <<shared, frozen, severs, files, supervisor, daemon, crashes, history>>

TimePasses ==
    /\ acks' = Aged(acks)
    /\ frozen' = [m \in Members |-> [frozen[m] EXCEPT !.acks = Aged(@)]]
    /\ slept' = [m \in Members |-> TRUE]
    /\ UNCHANGED <<gen, conf, publishing, linked, severs, files, supervisor,
                   pc, cur, text, polls, acked, crashes, history>>

-----------------------------------------------------------------------------
(* `cfab conf publish`, under the cluster lock cfab-conf: the text is      *)
(* renamed in first, then the counter; then ack directories older than the *)
(* previous generation are removed.  A publisher may die or lose quorum in *)
(* between.                                                                *)

PublishConf(p, c) ==
    /\ publishing = {} /\ gen < MaxGen
    /\ Quorate(p) /\ c \in Valid[p]
    /\ publishing' = {p}
    /\ conf' = c
    /\ UNCHANGED <<gen, acks, net, files, supervisor, daemon, crashes, history>>

PublishGen(p) ==
    /\ p \in publishing /\ Quorate(p)
    /\ publishing' = {}
    /\ gen' = gen + 1
    /\ acks' = [g \in Gens |-> IF g < gen THEN [m \in Members |-> Absent] ELSE acks[g]]
    /\ UNCHANGED <<conf, net, files, supervisor, daemon, crashes, history>>

PublisherFails(p) ==
    /\ p \in publishing
    /\ \/ crashes < MaxCrash /\ crashes' = crashes + 1
       \/ ~Quorate(p) /\ UNCHANGED crashes
    /\ publishing' = {}
    /\ UNCHANGED <<gen, conf, acks, net, files, supervisor, daemon, history>>

-----------------------------------------------------------------------------
(* The daemon.  Each action ends at a step another process or a crash can  *)
(* observe: a durable write, a read of shared state, a reply or a sleep.   *)

Goto(m, l) == pc' = [pc EXCEPT ![m] = l]

Ended(m, kind, by) ==
    outcome' = [outcome EXCEPT ![m] = [gen |-> cur[m], kind |-> kind, by |-> by]]

\* Mutant: the attempt is not recorded.
SetAttemptedForgotten(m) == gen > 0 /\ attempted' = [attempted EXCEPT ![m] = @]

SetAttempted(m) == attempted' = [attempted EXCEPT ![m] = gen]

\* tick(): quorum, counter against committed and attempted, then the attempt
\* is recorded before anything is installed.
StartAttempt(m) ==
    /\ pc[m] = "idle" /\ Quorate(m)
    /\ gen > committed[m] /\ gen # attempted[m]
    /\ SetAttempted(m)
    /\ cur' = [cur EXCEPT ![m] = gen]
    /\ tried' = [tried EXCEPT ![m] = @ \union {gen}]
    /\ outcome' = [outcome EXCEPT ![m] = NoOutcome]
    /\ Goto(m, "gate")
    /\ UNCHANGED <<shared, net, local, prev, committed, supervisor, text, polls, acked,
                   slept, crashes, good, ackText>>

Refuse(m) ==
    /\ pc[m] = "gate" /\ SeenConf(m) \notin Valid[m]
    /\ Goto(m, "idle") /\ Ended(m, "refused", {})
    /\ UNCHANGED <<shared, net, files, supervisor, cur, text, polls, acked, slept,
                   crashes, good, ackText, tried>>

\* An ack write lands exactly while this member is quorate.
WriteAck(m) ==
    IF Quorate(m)
    THEN /\ acks' = [acks EXCEPT ![cur[m]][m] = 0]
         /\ ackText' = [ackText EXCEPT ![cur[m]][m] = {local[m]}]
    ELSE UNCHANGED <<acks, ackText>>

SetCommitted(m) ==
    /\ committed' = [committed EXCEPT ![m] = cur[m]]
    /\ good' = [good EXCEPT ![m] = local[m]]

\* The published text is the one already installed: ack and commit, no witness.
CommitIdentical(m) ==
    /\ pc[m] = "gate" /\ SeenConf(m) \in Valid[m] /\ SeenConf(m) = local[m]
    /\ WriteAck(m) /\ SetCommitted(m)
    /\ Goto(m, "idle") /\ Ended(m, "identical", {})
    /\ UNCHANGED <<gen, conf, publishing, net, local, prev, attempted, supervisor, cur,
                   text, polls, acked, slept, crashes, tried>>

\* Mutant: the revert target is cached after the new text is in place.
SaveLocalTooLate(m) == prev' = [prev EXCEPT ![m] = SeenConf(m)]

SaveLocal(m) == prev' = [prev EXCEPT ![m] = local[m]]

SavePrev(m) ==
    /\ pc[m] = "gate" /\ SeenConf(m) \in Valid[m] /\ SeenConf(m) # local[m]
    /\ text' = [text EXCEPT ![m] = SeenConf(m)]
    /\ SaveLocal(m)
    /\ Goto(m, "install")
    /\ UNCHANGED <<shared, net, local, attempted, committed, supervisor, cur, polls, acked,
                   slept, crashes, history>>

Install(m) ==
    /\ pc[m] = "install"
    /\ local' = [local EXCEPT ![m] = text[m]]
    /\ Goto(m, "reapply")
    /\ UNCHANGED <<shared, net, prev, attempted, committed, supervisor, cur, text, polls,
                   acked, slept, crashes, history>>

\* The supervisor's side of a request: it re-reads the file and classifies it.
\* Equal fabric: re-applied in place.  Changed fabric: the stop sequence begins.
\* A file it cannot use: an error, and the running fabric stays.
Restarts(m) == local[m] \in Valid[m] /\ FabricOf[local[m]] # running[m]

TakeRequest(m) == sup' = [sup EXCEPT ![m] = IF Restarts(m) THEN "stop" ELSE @]

\* The daemon's side.  Requests are served in order; a changed fabric is
\* answered Ok at once, an equal one Ok or with the error of the apply.  The
\* client waits 5 s, far less than an apply may take, so any request can also
\* end in a timeout that the daemon counts as a refusal: of a request already
\* taken up, or of one that stays queued and is served after all.
Request(m, ok, refused) ==
    \/ /\ sup[m] = "run" /\ late[m] = 0
       /\ TakeRequest(m)
       /\ \/ local[m] \in Valid[m] /\ Goto(m, ok)
          \/ ~Restarts(m) /\ Goto(m, refused)
       /\ UNCHANGED late
    \/ /\ sup[m] = "run" /\ late[m] < MaxLate
       /\ late' = [late EXCEPT ![m] = @ + 1]
       /\ Goto(m, refused)
       /\ UNCHANGED sup
    \/ /\ sup[m] = "stop"
       /\ Goto(m, refused)
       /\ UNCHANGED <<sup, late>>

ServeLate(m) ==
    /\ sup[m] = "run" /\ late[m] > 0
    /\ late' = [late EXCEPT ![m] = @ - 1]
    /\ TakeRequest(m)
    /\ UNCHANGED <<shared, net, files, running, daemon, crashes, history>>

Reapply(m) ==
    /\ pc[m] = "reapply"
    /\ Request(m, "status", "retract")
    /\ UNCHANGED <<shared, net, files, running, cur, text, polls, acked, slept, crashes, history>>

\* `status --wait`: 0 or 1 opens the witness window, more reverts.  While the
\* stop sequence runs it describes a fabric that is going away: either answer.
StatusOk(m) == running[m] \in Carries \/ sup[m] = "stop"

Status(m) ==
    /\ pc[m] = "status"
    /\ \/ /\ StatusOk(m)
          /\ Goto(m, "ack")
          /\ polls' = [polls EXCEPT ![m] = W]
          /\ acked' = [acked EXCEPT ![m] = FALSE]
       \/ /\ Goto(m, "retract")
          /\ UNCHANGED <<polls, acked>>
    /\ UNCHANGED <<shared, net, files, supervisor, cur, text, slept, crashes, history>>

PollsLeft(m) == polls[m] > 0

\* One witness poll: the ack is (re)tried until it lands ...
PollAck(m) ==
    /\ pc[m] = "ack" /\ slept[m] /\ PollsLeft(m)
    /\ IF acked[m]
       THEN UNCHANGED <<acks, acked, ackText>>
       ELSE WriteAck(m) /\ acked' = [acked EXCEPT ![m] = Quorate(m)]
    /\ Goto(m, "peer")
    /\ UNCHANGED <<gen, conf, publishing, net, files, supervisor, cur, text, polls, slept,
                   crashes, good, outcome, tried>>

\* Mutant: a member's own ack counts.
PeerAcksSelf(m) == {p \in Members : Fresh(SeenAcks(m)[cur[m]][p])}

\* peer_ack(): members other than this one whose ack is fresh.
PeerAcks(m) == {p \in Members \ {m} : Fresh(SeenAcks(m)[cur[m]][p])}

Single == Cardinality(Members) = 1

\* Mutant: the loop goes on after the commit.
PollCommitNoReturn(m) ==
    /\ pc[m] = "peer" /\ acked[m]
    /\ PeerAcks(m) # {}
    /\ SetCommitted(m)
    /\ Goto(m, "ack")
    /\ polls' = [polls EXCEPT ![m] = @ - 1]
    /\ slept' = [slept EXCEPT ![m] = FALSE]
    /\ UNCHANGED <<shared, net, local, prev, attempted, supervisor, cur, text, acked,
                   crashes, outcome, ackText, tried>>

\* ... then a witness, or a single-member cluster, commits ...
PollCommit(m) ==
    /\ pc[m] = "peer" /\ acked[m]
    /\ \/ Single /\ Ended(m, "single", {})
       \/ ~Single /\ \E p \in PeerAcks(m) : Ended(m, "witnessed", {p})
    /\ SetCommitted(m)
    /\ Goto(m, "idle")
    /\ UNCHANGED <<shared, net, local, prev, attempted, supervisor, cur, text, polls, acked,
                   slept, crashes, ackText, tried>>

\* Mutant: the window never gets shorter.
SpendPollNot(m) == polls' = [polls EXCEPT ![m] = @]

SpendPoll(m) == polls' = [polls EXCEPT ![m] = @ - 1]

\* ... or the poll is spent ...
PollSleep(m) ==
    /\ pc[m] = "peer"
    /\ ~(acked[m] /\ (Single \/ PeerAcks(m) # {}))
    /\ SpendPoll(m)
    /\ slept' = [slept EXCEPT ![m] = FALSE]
    /\ Goto(m, "ack")
    /\ UNCHANGED <<shared, net, files, supervisor, cur, text, acked, crashes, history>>

\* ... and after the last one the attempt is reverted.
WindowCloses(m) ==
    /\ pc[m] = "ack" /\ slept[m] /\ polls[m] = 0
    /\ Goto(m, "retract")
    /\ UNCHANGED <<shared, net, files, supervisor, cur, text, polls, acked, slept,
                   crashes, history>>

RetractAck(m) ==
    acks' = IF Quorate(m) THEN [acks EXCEPT ![cur[m]][m] = Absent] ELSE acks

\* revert(): the ack goes first, as far as pmxcfs lets it ...
Retract(m) ==
    /\ pc[m] = "retract"
    /\ RetractAck(m)
    /\ Goto(m, "restore")
    /\ UNCHANGED <<gen, conf, publishing, net, files, supervisor, cur, text, polls, acked,
                   slept, crashes, history>>

\* ... then the previous text is put back ...
Restore(m) ==
    /\ pc[m] = "restore"
    /\ local' = [local EXCEPT ![m] = prev[m]]
    /\ Goto(m, "again") /\ Ended(m, "reverted", {})
    /\ UNCHANGED <<shared, net, prev, attempted, committed, supervisor, cur, text, polls,
                   acked, slept, crashes, good, ackText, tried>>

\* ... and re-applied; a refusal is only logged.
ReapplyPrev(m) ==
    /\ pc[m] = "again"
    /\ Request(m, "idle", "idle")
    /\ UNCHANGED <<shared, net, files, running, cur, text, polls, acked, slept, crashes, history>>

-----------------------------------------------------------------------------
(* The supervisor's end of it, and what systemd does with its exit.        *)

LoseRunDir(m) ==
    /\ attempted' = [attempted EXCEPT ![m] = 0]
    /\ committed' = [committed EXCEPT ![m] = 0]
    /\ tried' = [tried EXCEPT ![m] = {}]

KeepRunDir == UNCHANGED <<attempted, committed, tried>>

\* std::fs::write truncates before it writes: a daemon killed inside the write
\* of fabric.toml leaves a torn file.
CutShort(m) ==
    \/ UNCHANGED local
    \/ pc[m] \in {"install", "restore"} /\ local' = [local EXCEPT ![m] = Torn]

\* The stop sequence: the daemon is terminated or killed, then teardown
\* removes the run directory unless one of its earlier steps fails.
Teardown(m) ==
    /\ sup[m] = "stop"
    /\ sup' = [sup EXCEPT ![m] = "down"]
    /\ late' = [late EXCEPT ![m] = 0]
    /\ Goto(m, "dead")
    /\ CutShort(m)
    /\ LoseRunDir(m) \/ KeepRunDir
    /\ UNCHANGED <<shared, net, prev, running, cur, text, polls, acked, slept, crashes,
                   good, outcome, ackText>>

\* systemd starts it again (exit 6): the file on disk is what it runs.
SupervisorStarts(m) ==
    /\ sup[m] = "down" /\ local[m] \in Valid[m]
    /\ sup' = [sup EXCEPT ![m] = "run"]
    /\ running' = [running EXCEPT ![m] = FabricOf[local[m]]]
    /\ Goto(m, "idle")
    /\ UNCHANGED <<shared, net, files, late, cur, text, polls, acked, slept, crashes, history>>

\* SIGKILL of the daemon, or an error that ends its tick early (`?`): the next
\* tick, in the same process or in a respawned one, has only the two files.
DaemonCrash(m) ==
    /\ crashes < MaxCrash /\ sup[m] = "run" /\ pc[m] # "idle"
    /\ crashes' = crashes + 1
    /\ Goto(m, "idle")
    /\ CutShort(m)
    /\ UNCHANGED <<shared, net, prev, attempted, committed, supervisor, cur, text, polls,
                   acked, slept, history>>

\* SIGKILL of the supervisor takes the daemon with it (parent-death signal)
\* and leaves the run directory; a reboot loses that too (tmpfs).
HostCrash(m) ==
    /\ crashes < MaxCrash /\ sup[m] # "down"
    /\ crashes' = crashes + 1
    /\ sup' = [sup EXCEPT ![m] = "down"]
    /\ late' = [late EXCEPT ![m] = 0]
    /\ Goto(m, "dead")
    /\ CutShort(m)
    /\ LoseRunDir(m) \/ KeepRunDir
    /\ UNCHANGED <<shared, net, prev, running, cur, text, polls, acked, slept,
                   good, outcome, ackText>>

-----------------------------------------------------------------------------
DaemonStep(m) ==
    \/ StartAttempt(m) \/ Refuse(m) \/ CommitIdentical(m) \/ SavePrev(m) \/ Install(m)
    \/ Reapply(m) \/ Status(m) \/ PollAck(m) \/ PollCommit(m) \/ PollSleep(m)
    \/ WindowCloses(m) \/ Retract(m) \/ Restore(m) \/ ReapplyPrev(m)

SupervisorStep(m) == ServeLate(m) \/ Teardown(m) \/ SupervisorStarts(m)

Next ==
    \/ TimePasses
    \/ \E m \in Members :
         \/ \E c \in Confs : PublishConf(m, c)
         \/ PublishGen(m) \/ PublisherFails(m)
         \/ Sever(m) \/ Rejoin(m)
         \/ DaemonStep(m) \/ SupervisorStep(m)
         \/ DaemonCrash(m) \/ HostCrash(m)

\* The daemon's loop and the supervisor keep running, the clock advances,
\* and systemd restarts the unit (RestartForceExitStatus=6).
Fairness ==
    /\ WF_vars(TimePasses)
    /\ \A m \in Members : WF_vars(DaemonStep(m)) /\ WF_vars(SupervisorStep(m))

Spec == Init /\ [][Next]_vars /\ Fairness

-----------------------------------------------------------------------------
PCs == {"idle", "gate", "install", "reapply", "status", "ack", "peer", "retract",
        "restore", "again", "dead"}
Kinds == {"none", "refused", "identical", "single", "witnessed", "reverted"}
Counters == [Members -> 0..MaxGen]

SharedOK ==
    gen \in 0..MaxGen /\ conf \in Confs /\ acks \in AckTable /\ publishing \subseteq Members
NetOK ==
    /\ linked \subseteq Members /\ severs \in 0..MaxSever /\ crashes \in 0..MaxCrash
    /\ frozen \in [Members -> [conf : Confs, acks : AckTable]]
FilesOK ==
    /\ local \in [Members -> Confs] /\ prev \in [Members -> Confs]
    /\ attempted \in Counters /\ committed \in Counters
SupervisorOK ==
    /\ sup \in [Members -> {"run", "stop", "down"}]
    /\ running \in [Members -> STRING] /\ late \in [Members -> 0..MaxLate]
DaemonOK ==
    /\ pc \in [Members -> PCs] /\ cur \in Counters /\ text \in [Members -> Confs]
    /\ polls \in [Members -> 0..W]
    /\ acked \in [Members -> BOOLEAN] /\ slept \in [Members -> BOOLEAN]
HistoryOK ==
    /\ good \in [Members -> Confs]
    /\ outcome \in [Members -> [gen : 0..MaxGen, kind : Kinds, by : SUBSET Members]]
    /\ ackText \in [Gens -> [Members -> SUBSET Confs]]
    /\ tried \in [Members -> SUBSET Gens]

\* Every variable keeps its type; in particular the two counter files hold
\* published generations and the poll counter never wraps below zero.
TypeOK == SharedOK /\ NetOK /\ FilesOK /\ SupervisorOK /\ DaemonOK /\ HistoryOK

Busy(m) == pc[m] \notin {"idle", "dead"}
Attempts(m) == pc[m] = "idle" /\ pc'[m] = "gate"
CommitsOn(m, p) == pc[m] = "peer" /\ pc'[m] = "idle" /\ outcome'[m].by = {p}

\* peer_ack(): a commit that claims a witness has one: another member, which
\* wrote an ack for this very generation, and this member wrote its own first.
WitnessedByPeer ==
    \A m \in Members : outcome[m].kind = "witnessed" =>
        \E p \in outcome[m].by : /\ p # m
                                 /\ ackText[outcome[m].gen][p] # {}
                                 /\ ackText[outcome[m].gen][m] # {}

\* revert(): what it puts back is the text this member last committed, never
\* one that an earlier attempt left behind.
RevertsToGood == \A m \in Members : pc[m] = "again" => local[m] = good[m]

\* set_attempted() before the apply: while the run directory survives, crashes
\* and reverts included, no generation is attempted a second time.
AttemptOnce == [][\A m \in Members : Attempts(m) => gen \notin tried[m]]_vars

\* A commit is final: the local text only changes in the course of a generation
\* this member has not committed, so no late revert undoes a committed one.
CommitStands ==
    [][\A m \in Members : local'[m] # local[m] => cur[m] > committed[m]]_vars

\* A generation is dealt with once: neither a crash nor a late request makes
\* reconcile() attempt it again, and what it committed stays.
GenerationOnce == AttemptOnce /\ CommitStands

\* revert() and peer_ack(): nobody commits on the ack of a member that has
\* already gone back on the generation.
WitnessStands ==
    [][\A m, p \in Members : CommitsOn(m, p) =>
          ~(outcome[p].gen = cur[m] /\ outcome[p].kind = "reverted")]_vars

\* handle_new_generation() ends: every attempt commits, refuses, reverts or is
\* cut short with the process, whatever the partition does.
AttemptEnds == \A m \in Members : Busy(m) ~> ~Busy(m)

\* A text under which no member can carry traffic does not stay installed.
SelfHeals == []<>(\A m \in Members : FabricOf[local[m]] \in Carries)
=============================================================================
