--------------------------- MODULE ConfSyncProofs ---------------------------
(***************************************************************************)
(* What the cluster protocol guarantees for every number of members, texts *)
(* and generations, every window length and every bound on failures.  The  *)
(* argument is one inductive invariant in layers: types and the poll       *)
(* counter; the order of the two counter files; what an ack in the table,  *)
(* or in a severed member's copy of it, says about its writer.             *)
(***************************************************************************)
EXTENDS ConfSync, TLAPS

\* A window with a poll to spend, a counter with room for the next publish.
Ranges ==
    /\ \A m \in Members : pc[m] = "peer" => polls[m] > 0
    /\ publishing # {} => gen < MaxGen

TypeInv == TypeOK /\ Ranges

\* Freshly started daemons and an unpublished cluster are well typed.
LEMMA InitTypes == Init => TypeInv
  <1> SUFFICES ASSUME Init PROVE TypeInv
    OBVIOUS
  <1> USE ConfAssumption
  <1>1. acks \in AckTable
    BY DEF Init, AckTable, Absent, Gens
  <1>2. frozen \in [Members -> [conf : Confs, acks : AckTable]]
    BY <1>1 DEF Init
  <1>3. outcome \in [Members -> [gen : 0..MaxGen, kind : Kinds, by : SUBSET Members]]
    BY DEF Init, NoOutcome, Kinds
  <1>4. /\ ackText \in [Gens -> [Members -> SUBSET Confs]]
        /\ tried \in [Members -> SUBSET Gens]
    BY DEF Init
  <1>5. Ranges
    BY DEF Init, Ranges
  <1>6. /\ running \in [Members -> STRING] /\ late \in [Members -> 0..MaxLate]
        /\ linked \subseteq Members
        /\ pc \in [Members -> PCs] /\ sup \in [Members -> {"run", "stop", "down"}]
    BY DEF Init, PCs
  <1>7. SharedOK /\ NetOK
    <2>1. publishing \subseteq Members /\ conf \in Confs
      BY DEF Init
    <2>2. gen \in 0..MaxGen /\ severs \in 0..MaxSever /\ crashes \in 0..MaxCrash
      BY DEF Init
    <2> QED
      BY <1>1, <1>2, <1>6, <2>1, <2>2 DEF SharedOK, NetOK
  <1>8. FilesOK /\ SupervisorOK /\ HistoryOK
    BY <1>3, <1>4, <1>6 DEF Init, FilesOK, SupervisorOK, HistoryOK, Counters
  <1>9. DaemonOK
    BY <1>6 DEF Init, DaemonOK, Counters
  <1> QED
    BY <1>5, <1>7, <1>8, <1>9 DEF TypeInv, TypeOK

\* Time passing over an ack directory leaves ages within the window.
LEMMA AgedType == ASSUME NEW table \in AckTable PROVE Aged(table) \in AckTable
  BY ConfAssumption DEF AckTable, Aged, Gens

\* write_ack() keeps the ack directory and its record well typed.
LEMMA WriteAckType ==
    ASSUME SharedOK, FilesOK, HistoryOK, NEW m \in Members, WriteAck(m)
    PROVE  acks' \in AckTable /\ ackText' \in [Gens -> [Members -> SUBSET Confs]]
  <1>1. CASE Quorate(m)
    <2>1. 0 \in 0..W /\ {local[m]} \in SUBSET Confs
      BY ConfAssumption DEF FilesOK
    <2>2. acks' = [acks EXCEPT ![cur[m]][m] = 0]
          /\ ackText' = [ackText EXCEPT ![cur[m]][m] = {local[m]}]
      BY <1>1 DEF WriteAck
    <2>3. acks' \in AckTable
      BY <2>1, <2>2 DEF SharedOK, AckTable
    <2>4. ackText' \in [Gens -> [Members -> SUBSET Confs]]
      BY <2>1, <2>2 DEF HistoryOK
    <2> QED
      BY <2>3, <2>4
  <1>2. CASE ~Quorate(m)
    BY <1>2 DEF WriteAck, SharedOK, HistoryOK
  <1> QED
    BY <1>1, <1>2

\* revert()'s removal of the ack file keeps the ack directory well typed.
LEMMA RetractAckType ==
    ASSUME SharedOK, NEW m \in Members, RetractAck(m) PROVE acks' \in AckTable
  <1>1. Absent \in 0..W
    BY ConfAssumption DEF Absent
  <1> QED
    BY <1>1 DEF RetractAck, SharedOK, AckTable

\* No step of daemon, supervisor, publisher, network or clock breaks the types.
LEMMA StepTypes == TypeInv /\ [Next]_vars => TypeInv'
  <1> SUFFICES ASSUME TypeOK, Ranges, [Next]_vars PROVE TypeInv'
    BY DEF TypeInv
  <1> USE ConfAssumption DEF TypeInv, TypeOK
  <1>1. CASE UNCHANGED vars
    BY <1>1 DEF vars, shared, net, files, supervisor, daemon, history, SharedOK, NetOK,
       FilesOK, SupervisorOK, DaemonOK, HistoryOK, Ranges
  <1>2. CASE TimePasses
    <2> USE <1>2 DEF TimePasses, files, supervisor, history
    <2>1. acks' \in AckTable /\ frozen' \in [Members -> [conf : Confs, acks : AckTable]]
      BY AgedType DEF SharedOK, NetOK
    <2>2. SharedOK' /\ NetOK' /\ FilesOK' /\ SupervisorOK'
      BY <2>1 DEF SharedOK, NetOK, FilesOK, SupervisorOK
    <2>3. DaemonOK' /\ HistoryOK' /\ Ranges'
      BY DEF DaemonOK, HistoryOK, Ranges
    <2> QED
      BY <2>2, <2>3
  <1>3. CASE \E p \in Members : PublisherFails(p)
    <2> USE <1>3 DEF PublisherFails, net, files, supervisor, daemon, history
    <2>1. publishing' \subseteq Members
      OBVIOUS
    <2>2. SharedOK' /\ NetOK' /\ FilesOK' /\ SupervisorOK'
      BY <2>1 DEF SharedOK, NetOK, FilesOK, SupervisorOK
    <2>3. DaemonOK' /\ HistoryOK' /\ Ranges'
      BY DEF DaemonOK, HistoryOK, Ranges
    <2> QED
      BY <2>2, <2>3
  <1>4. ASSUME NEW m \in Members, Sever(m) PROVE TypeInv'
    <2> USE <1>4 DEF Sever, shared, files, supervisor, daemon, history
    <2>1. SharedOK' /\ FilesOK' /\ SupervisorOK' /\ DaemonOK' /\ HistoryOK'
      BY DEF SharedOK, FilesOK, SupervisorOK, DaemonOK, HistoryOK
    <2>2. NetOK'
      BY DEF SharedOK, NetOK
    <2>3. Ranges'
      BY DEF DaemonOK, Ranges
    <2> QED
      BY <2>1, <2>2, <2>3
  <1>5. ASSUME NEW m \in Members, Rejoin(m) PROVE TypeInv'
    <2> USE <1>5 DEF Rejoin, shared, files, supervisor, daemon, history
    <2>1. SharedOK' /\ FilesOK' /\ SupervisorOK' /\ DaemonOK' /\ HistoryOK'
      BY DEF SharedOK, FilesOK, SupervisorOK, DaemonOK, HistoryOK
    <2>2. NetOK'
      BY DEF NetOK
    <2>3. Ranges'
      BY DEF DaemonOK, Ranges
    <2> QED
      BY <2>1, <2>2, <2>3
  <1>6. ASSUME NEW m \in Members, NEW c \in Confs, PublishConf(m, c) PROVE TypeInv'
    <2> USE <1>6 DEF PublishConf, net, files, supervisor, daemon, history
    <2>1. NetOK' /\ FilesOK' /\ SupervisorOK' /\ DaemonOK' /\ HistoryOK'
      BY DEF NetOK, FilesOK, SupervisorOK, DaemonOK, HistoryOK
    <2>2. SharedOK'
      BY DEF SharedOK
    <2>3. Ranges'
      BY DEF DaemonOK, Ranges, SharedOK
    <2> QED
      BY <2>1, <2>2, <2>3
  <1>7. ASSUME NEW m \in Members, PublishGen(m) PROVE TypeInv'
    <2> USE <1>7 DEF PublishGen, net, files, supervisor, daemon, history
    <2>1. NetOK' /\ FilesOK' /\ SupervisorOK' /\ DaemonOK' /\ HistoryOK'
      BY DEF NetOK, FilesOK, SupervisorOK, DaemonOK, HistoryOK
    <2>2. gen' \in 0..MaxGen
      BY DEF SharedOK, Ranges
    <2>3. acks' \in AckTable
      BY DEF SharedOK, AckTable, Absent
    <2>4. publishing' \subseteq Members
      OBVIOUS
    <2>5. SharedOK'
      BY <2>2, <2>3, <2>4 DEF SharedOK
    <2>6. Ranges'
      BY DEF DaemonOK, Ranges, SharedOK
    <2> QED
      BY <2>1, <2>5, <2>6
  <1>8. ASSUME NEW m \in Members, StartAttempt(m) PROVE TypeInv'
    <2> USE <1>8 DEF StartAttempt, shared, net, supervisor
    <2>1. SharedOK' /\ NetOK' /\ SupervisorOK'
      BY DEF SharedOK, NetOK, SupervisorOK
    <2>2. FilesOK'
      BY DEF SharedOK, FilesOK, SetAttempted, Counters
    <2>3. DaemonOK'
      BY DEF SharedOK, DaemonOK, Goto, PCs, Counters
    <2>4. HistoryOK'
      BY DEF SharedOK, FilesOK, HistoryOK, NoOutcome, Kinds, Gens, Counters
    <2>5. Ranges'
      BY DEF DaemonOK, Ranges, Goto
    <2> QED
      BY <2>1, <2>2, <2>3, <2>4, <2>5
  <1>9. ASSUME NEW m \in Members, Refuse(m) PROVE TypeInv'
    <2> USE <1>9 DEF Refuse, shared, net, files, supervisor
    <2>1. SharedOK' /\ NetOK' /\ FilesOK' /\ SupervisorOK'
      BY DEF SharedOK, NetOK, FilesOK, SupervisorOK
    <2>2. DaemonOK'
      BY DEF DaemonOK, Goto, PCs
    <2>3. HistoryOK'
      BY DEF DaemonOK, HistoryOK, Ended, Kinds, Counters
    <2>4. Ranges'
      BY DEF DaemonOK, Ranges, Goto
    <2> QED
      BY <2>1, <2>2, <2>3, <2>4
  <1>10. ASSUME NEW m \in Members, CommitIdentical(m) PROVE TypeInv'
    <2> USE <1>10 DEF CommitIdentical, net, supervisor
    <2>1. NetOK' /\ SupervisorOK'
      BY DEF NetOK, SupervisorOK
    <2>2. acks' \in AckTable
      BY WriteAckType
    <2>3. SharedOK'
      BY <2>2 DEF SharedOK
    <2>4. FilesOK'
      BY DEF DaemonOK, FilesOK, SetCommitted, Counters
    <2>5. DaemonOK'
      BY DEF DaemonOK, Goto, PCs
    <2>6. ackText' \in [Gens -> [Members -> SUBSET Confs]]
      BY WriteAckType
    <2>7. outcome' \in [Members -> [gen : 0..MaxGen, kind : Kinds, by : SUBSET Members]]
      BY DEF DaemonOK, HistoryOK, Ended, Kinds, Counters
    <2>8. HistoryOK'
      BY <2>6, <2>7 DEF FilesOK, HistoryOK, SetCommitted
    <2>9. Ranges'
      BY DEF DaemonOK, Ranges, Goto
    <2> QED
      BY <2>1, <2>3, <2>4, <2>5, <2>8, <2>9
  <1>11. ASSUME NEW m \in Members, SavePrev(m) PROVE TypeInv'
    <2> USE <1>11 DEF SavePrev, shared, net, supervisor, history
    <2>1. SharedOK' /\ NetOK' /\ SupervisorOK' /\ HistoryOK'
      BY DEF SharedOK, NetOK, SupervisorOK, HistoryOK
    <2>2. FilesOK'
      BY DEF FilesOK, SaveLocal
    <2>3. DaemonOK'
      BY DEF SharedOK, NetOK, DaemonOK, SeenConf, Goto, PCs
    <2>4. Ranges'
      BY DEF DaemonOK, Ranges, Goto
    <2> QED
      BY <2>1, <2>2, <2>3, <2>4
  <1>12. ASSUME NEW m \in Members, Install(m) PROVE TypeInv'
    <2> USE <1>12 DEF Install, shared, net, supervisor, history
    <2>1. SharedOK' /\ NetOK' /\ SupervisorOK' /\ HistoryOK'
      BY DEF SharedOK, NetOK, SupervisorOK, HistoryOK
    <2>2. FilesOK'
      BY DEF FilesOK, DaemonOK
    <2>3. DaemonOK'
      BY DEF DaemonOK, Goto, PCs
    <2>4. Ranges'
      BY DEF DaemonOK, Ranges, Goto
    <2> QED
      BY <2>1, <2>2, <2>3, <2>4
  <1>13. ASSUME NEW m \in Members, Reapply(m) PROVE TypeInv'
    <2> USE <1>13 DEF Reapply, shared, net, files, history
    <2>1. SharedOK' /\ NetOK' /\ FilesOK' /\ HistoryOK'
      BY DEF SharedOK, NetOK, FilesOK, HistoryOK
    <2>2. SupervisorOK'
      BY DEF SupervisorOK, Request, TakeRequest
    <2>3. DaemonOK'
      BY DEF DaemonOK, Request, Goto, PCs
    <2>4. Ranges'
      BY DEF DaemonOK, Ranges, Request, Goto
    <2> QED
      BY <2>1, <2>2, <2>3, <2>4
  <1>14. ASSUME NEW m \in Members, Status(m) PROVE TypeInv'
    <2> USE <1>14 DEF Status, shared, net, files, supervisor, history
    <2>1. SharedOK' /\ NetOK' /\ FilesOK' /\ SupervisorOK' /\ HistoryOK'
      BY DEF SharedOK, NetOK, FilesOK, SupervisorOK, HistoryOK
    <2>2. polls' \in [Members -> 0..W] /\ pc' \in [Members -> PCs]
      BY DEF DaemonOK, Goto, PCs
    <2>3. acked' \in [Members -> BOOLEAN]
      BY DEF DaemonOK
    <2>4. DaemonOK'
      BY <2>2, <2>3 DEF DaemonOK
    <2>5. Ranges'
      BY DEF DaemonOK, Ranges, Goto
    <2> QED
      BY <2>1, <2>4, <2>5
  <1>15. ASSUME NEW m \in Members, PollAck(m) PROVE TypeInv'
    <2> USE <1>15 DEF PollAck, net, files, supervisor
    <2>1. NetOK' /\ FilesOK' /\ SupervisorOK'
      BY DEF NetOK, FilesOK, SupervisorOK
    <2>2. acks' \in AckTable
      BY WriteAckType DEF SharedOK
    <2>3. SharedOK'
      BY <2>2 DEF SharedOK
    <2>4. pc' \in [Members -> PCs]
      BY DEF DaemonOK, Goto, PCs
    <2>5. acked' \in [Members -> BOOLEAN]
      BY DEF DaemonOK, Quorate
    <2>6. DaemonOK'
      BY <2>4, <2>5 DEF DaemonOK
    <2>7. ackText' \in [Gens -> [Members -> SUBSET Confs]]
      BY WriteAckType DEF HistoryOK
    <2>8. HistoryOK'
      BY <2>7 DEF HistoryOK
    <2>9. Ranges'
      BY DEF DaemonOK, Ranges, Goto, PollsLeft
    <2> QED
      BY <2>1, <2>3, <2>6, <2>8, <2>9
  <1>16. ASSUME NEW m \in Members, PollCommit(m) PROVE TypeInv'
    <2> USE <1>16 DEF PollCommit, shared, net, supervisor
    <2>1. SharedOK' /\ NetOK' /\ SupervisorOK'
      BY DEF SharedOK, NetOK, SupervisorOK
    <2>2. FilesOK'
      BY DEF DaemonOK, FilesOK, SetCommitted, Counters
    <2>3. DaemonOK'
      BY DEF DaemonOK, Goto, PCs
    <2>4. outcome' \in [Members -> [gen : 0..MaxGen, kind : Kinds, by : SUBSET Members]]
      <3>1. PICK kind \in Kinds, by \in SUBSET Members : Ended(m, kind, by)
        BY DEF Kinds, PeerAcks
      <3> QED
        BY <3>1 DEF DaemonOK, HistoryOK, Ended, Counters
    <2>5. HistoryOK'
      BY <2>4 DEF FilesOK, HistoryOK, SetCommitted
    <2>6. Ranges'
      BY DEF DaemonOK, Ranges, Goto
    <2> QED
      BY <2>1, <2>2, <2>3, <2>5, <2>6
  <1>17. ASSUME NEW m \in Members, PollSleep(m) PROVE TypeInv'
    <2> USE <1>17 DEF PollSleep, shared, net, files, supervisor, history
    <2>1. SharedOK' /\ NetOK' /\ FilesOK' /\ SupervisorOK' /\ HistoryOK'
      BY DEF SharedOK, NetOK, FilesOK, SupervisorOK, HistoryOK
    <2>2. DaemonOK'
      BY DEF DaemonOK, Ranges, SpendPoll, Goto, PCs
    <2>3. Ranges'
      BY DEF DaemonOK, Ranges, SpendPoll, Goto
    <2> QED
      BY <2>1, <2>2, <2>3
  <1>18. ASSUME NEW m \in Members, WindowCloses(m) PROVE TypeInv'
    <2> USE <1>18 DEF WindowCloses, shared, net, files, supervisor, history
    <2>1. SharedOK' /\ NetOK' /\ FilesOK' /\ SupervisorOK' /\ HistoryOK'
      BY DEF SharedOK, NetOK, FilesOK, SupervisorOK, HistoryOK
    <2>2. DaemonOK'
      BY DEF DaemonOK, Goto, PCs
    <2>3. Ranges'
      BY DEF DaemonOK, Ranges, Goto
    <2> QED
      BY <2>1, <2>2, <2>3
  <1>19. ASSUME NEW m \in Members, Retract(m) PROVE TypeInv'
    <2> USE <1>19 DEF Retract, net, files, supervisor, history
    <2>1. NetOK' /\ FilesOK' /\ SupervisorOK' /\ HistoryOK'
      BY DEF NetOK, FilesOK, SupervisorOK, HistoryOK
    <2>2. acks' \in AckTable
      BY RetractAckType
    <2>3. SharedOK'
      BY <2>2 DEF SharedOK
    <2>4. DaemonOK'
      BY DEF DaemonOK, Goto, PCs
    <2>5. Ranges'
      BY DEF DaemonOK, Ranges, Goto
    <2> QED
      BY <2>1, <2>3, <2>4, <2>5
  <1>20. ASSUME NEW m \in Members, Restore(m) PROVE TypeInv'
    <2> USE <1>20 DEF Restore, shared, net, supervisor
    <2>1. SharedOK' /\ NetOK' /\ SupervisorOK'
      BY DEF SharedOK, NetOK, SupervisorOK
    <2>2. FilesOK'
      BY DEF FilesOK
    <2>3. DaemonOK'
      BY DEF DaemonOK, Goto, PCs
    <2>4. HistoryOK'
      BY DEF DaemonOK, HistoryOK, Ended, Kinds, Counters
    <2>5. Ranges'
      BY DEF DaemonOK, Ranges, Goto
    <2> QED
      BY <2>1, <2>2, <2>3, <2>4, <2>5
  <1>21. ASSUME NEW m \in Members, ReapplyPrev(m) PROVE TypeInv'
    <2> USE <1>21 DEF ReapplyPrev, shared, net, files, history
    <2>1. SharedOK' /\ NetOK' /\ FilesOK' /\ HistoryOK'
      BY DEF SharedOK, NetOK, FilesOK, HistoryOK
    <2>2. SupervisorOK'
      BY DEF SupervisorOK, Request, TakeRequest
    <2>3. DaemonOK'
      BY DEF DaemonOK, Request, Goto, PCs
    <2>4. Ranges'
      BY DEF DaemonOK, Ranges, Request, Goto
    <2> QED
      BY <2>1, <2>2, <2>3, <2>4
  <1>22. ASSUME NEW m \in Members, ServeLate(m) PROVE TypeInv'
    <2> USE <1>22 DEF ServeLate, shared, net, files, daemon, history
    <2>1. SharedOK' /\ NetOK' /\ FilesOK' /\ DaemonOK' /\ HistoryOK'
      BY DEF SharedOK, NetOK, FilesOK, DaemonOK, HistoryOK
    <2>2. SupervisorOK'
      BY DEF SupervisorOK, TakeRequest
    <2>3. Ranges'
      BY DEF DaemonOK, Ranges
    <2> QED
      BY <2>1, <2>2, <2>3
  <1>23. ASSUME NEW m \in Members, Teardown(m) PROVE TypeInv'
    <2> USE <1>23 DEF Teardown, shared, net
    <2>1. SharedOK' /\ NetOK'
      BY DEF SharedOK, NetOK
    <2>2. FilesOK'
      BY DEF FilesOK, CutShort, LoseRunDir, KeepRunDir, Counters
    <2>3. SupervisorOK'
      BY DEF SupervisorOK
    <2>4. DaemonOK'
      BY DEF DaemonOK, Goto, PCs
    <2>5. HistoryOK'
      BY DEF HistoryOK, LoseRunDir, KeepRunDir
    <2>6. Ranges'
      BY DEF DaemonOK, Ranges, Goto
    <2> QED
      BY <2>1, <2>2, <2>3, <2>4, <2>5, <2>6
  <1>24. ASSUME NEW m \in Members, SupervisorStarts(m) PROVE TypeInv'
    <2> USE <1>24 DEF SupervisorStarts, shared, net, files, history
    <2>1. SharedOK' /\ NetOK' /\ FilesOK' /\ HistoryOK'
      BY DEF SharedOK, NetOK, FilesOK, HistoryOK
    <2>2. SupervisorOK'
      BY DEF SupervisorOK, FilesOK
    <2>3. DaemonOK'
      BY DEF DaemonOK, Goto, PCs
    <2>4. Ranges'
      BY DEF DaemonOK, Ranges, Goto
    <2> QED
      BY <2>1, <2>2, <2>3, <2>4
  <1>25. ASSUME NEW m \in Members, DaemonCrash(m) PROVE TypeInv'
    <2> USE <1>25 DEF DaemonCrash, shared, net, supervisor, history
    <2>1. SharedOK' /\ SupervisorOK' /\ HistoryOK'
      BY DEF SharedOK, SupervisorOK, HistoryOK
    <2>2. NetOK'
      BY DEF NetOK
    <2>3. FilesOK'
      BY DEF FilesOK, CutShort
    <2>4. DaemonOK'
      BY DEF DaemonOK, Goto, PCs
    <2>5. Ranges'
      BY DEF DaemonOK, Ranges, Goto
    <2> QED
      BY <2>1, <2>2, <2>3, <2>4, <2>5
  <1>26. ASSUME NEW m \in Members, HostCrash(m) PROVE TypeInv'
    <2> USE <1>26 DEF HostCrash, shared, net
    <2>1. SharedOK'
      BY DEF SharedOK
    <2>2. NetOK'
      BY DEF NetOK
    <2>3. FilesOK'
      BY DEF FilesOK, CutShort, LoseRunDir, KeepRunDir, Counters
    <2>4. SupervisorOK'
      BY DEF SupervisorOK
    <2>5. DaemonOK'
      BY DEF DaemonOK, Goto, PCs
    <2>6. HistoryOK'
      BY DEF HistoryOK, LoseRunDir, KeepRunDir
    <2>7. Ranges'
      BY DEF DaemonOK, Ranges, Goto
    <2> QED
      BY <2>1, <2>2, <2>3, <2>4, <2>5, <2>6, <2>7
  <1> QED
    BY <1>1, <1>2, <1>3, <1>4, <1>5, <1>6, <1>7, <1>8, <1>9, <1>10, <1>11, <1>12, <1>13,
       <1>14, <1>15, <1>16, <1>17, <1>18, <1>19, <1>20, <1>21, <1>22, <1>23, <1>24,
       <1>25, <1>26 DEF Next, DaemonStep, SupervisorStep

\* Every reachable state of the protocol is well typed, whatever the number of
\* members, generations and failures: the counters of conf-sync stay within
\* what was published and its poll counter does not run below zero.
THEOREM TypeCorrect == Spec => []TypeOK
  BY InitTypes, StepTypes, PTL DEF Spec, TypeInv

-----------------------------------------------------------------------------
(* The order of the two counter files.                                     *)

\* attempted never runs ahead of the published counter and bounds everything
\* tried since the run directory was last lost; an attempt under way is the
\* recorded one and is not committed.
CounterInv ==
    /\ \A m \in Members : attempted[m] <= gen
    /\ \A m \in Members : \A g \in tried[m] : g <= attempted[m]
    /\ \A m \in Members : Busy(m) => cur[m] = attempted[m] /\ committed[m] < cur[m]

\* What most steps have in common: no counter moves and no attempt begins.
QuietStep ==
    /\ UNCHANGED <<gen, attempted, committed, tried, cur>>
    /\ \A n \in Members : Busy(n)' => Busy(n)

CountingStep(m) ==
    \/ PublishGen(m) \/ StartAttempt(m) \/ CommitIdentical(m) \/ PollCommit(m)
    \/ Teardown(m) \/ HostCrash(m)

\* Only a publish, an attempt, a commit or the loss of a run directory touches
\* the generation counters; every other step leaves them and what is busy alone.
LEMMA StepKinds ==
    ASSUME TypeOK, [Next]_vars
    PROVE  QuietStep \/ \E m \in Members : CountingStep(m)
  <1> USE DEF TypeOK, DaemonOK, QuietStep, Busy, Goto
  <1>1. CASE UNCHANGED vars
    BY <1>1 DEF vars, shared, net, files, supervisor, daemon, history
  <1>2. CASE TimePasses
    BY <1>2 DEF TimePasses, files, history
  <1>3. CASE \E p \in Members : PublisherFails(p)
    BY <1>3 DEF PublisherFails, net, files, daemon, history
  <1>4. ASSUME NEW m \in Members, Sever(m) PROVE QuietStep
    BY <1>4 DEF Sever, shared, files, daemon, history
  <1>5. ASSUME NEW m \in Members, Rejoin(m) PROVE QuietStep
    BY <1>5 DEF Rejoin, shared, files, daemon, history
  <1>6. ASSUME NEW m \in Members, NEW c \in Confs, PublishConf(m, c) PROVE QuietStep
    BY <1>6 DEF PublishConf, files, daemon, history
  <1>7. ASSUME NEW m \in Members, Refuse(m) PROVE QuietStep
    BY <1>7 DEF Refuse, shared, files
  <1>8. ASSUME NEW m \in Members, SavePrev(m) PROVE QuietStep
    BY <1>8 DEF SavePrev, shared, history
  <1>9. ASSUME NEW m \in Members, Install(m) PROVE QuietStep
    BY <1>9 DEF Install, shared, history
  <1>10. ASSUME NEW m \in Members, Reapply(m) PROVE QuietStep
    BY <1>10 DEF Reapply, Request, shared, files, history
  <1>11. ASSUME NEW m \in Members, Status(m) PROVE QuietStep
    BY <1>11 DEF Status, shared, files, history
  <1>12. ASSUME NEW m \in Members, PollAck(m) PROVE QuietStep
    BY <1>12 DEF PollAck, files
  <1>13. ASSUME NEW m \in Members, PollSleep(m) PROVE QuietStep
    BY <1>13 DEF PollSleep, shared, files, history
  <1>14. ASSUME NEW m \in Members, WindowCloses(m) PROVE QuietStep
    BY <1>14 DEF WindowCloses, shared, files, history
  <1>15. ASSUME NEW m \in Members, Retract(m) PROVE QuietStep
    BY <1>15 DEF Retract, files, history
  <1>16. ASSUME NEW m \in Members, Restore(m) PROVE QuietStep
    BY <1>16 DEF Restore, shared
  <1>17. ASSUME NEW m \in Members, ReapplyPrev(m) PROVE QuietStep
    BY <1>17 DEF ReapplyPrev, Request, shared, files, history
  <1>18. ASSUME NEW m \in Members, ServeLate(m) PROVE QuietStep
    BY <1>18 DEF ServeLate, shared, files, daemon, history
  <1>19. ASSUME NEW m \in Members, SupervisorStarts(m) PROVE QuietStep
    BY <1>19 DEF SupervisorStarts, shared, files, history
  <1>20. ASSUME NEW m \in Members, DaemonCrash(m) PROVE QuietStep
    BY <1>20 DEF DaemonCrash, shared, history
  <1> HIDE DEF QuietStep
  <1> QED
    BY <1>1, <1>2, <1>3, <1>4, <1>5, <1>6, <1>7, <1>8, <1>9, <1>10, <1>11, <1>12,
       <1>13, <1>14, <1>15, <1>16, <1>17, <1>18, <1>19, <1>20 DEF Next, DaemonStep,
       SupervisorStep, CountingStep

\* At the start nothing was attempted.
LEMMA InitCounters == Init => CounterInv
  BY DEF Init, CounterInv, Busy

\* The attempted counter bounds every generation tried and stays ahead of the
\* committed one while an attempt is under way, across commits and crashes.
LEMMA StepCounters == TypeInv /\ CounterInv /\ [Next]_vars => CounterInv'
  <1> SUFFICES ASSUME TypeOK, CounterInv, [Next]_vars PROVE CounterInv'
    BY DEF TypeInv
  <1> USE DEF CounterInv, Busy, TypeOK, SharedOK, FilesOK, DaemonOK, HistoryOK, Counters
  <1>1. CASE QuietStep
    BY <1>1 DEF QuietStep
  <1>2. ASSUME NEW m \in Members, PublishGen(m) PROVE CounterInv'
    BY <1>2, ConfAssumption DEF PublishGen, files, daemon, history
  <1>3. ASSUME NEW m \in Members, StartAttempt(m) PROVE CounterInv'
    <2> USE <1>3, ConfAssumption DEF StartAttempt, SetAttempted, Goto, shared
    <2>1. \A n \in Members : attempted'[n] <= gen'
      OBVIOUS
    <2>2. \A n \in Members : \A g \in tried'[n] : g <= attempted'[n]
      BY SMTT(60) DEF Gens
    <2>3. \A n \in Members : Busy(n)' => cur'[n] = attempted'[n] /\ committed'[n] < cur'[n]
      OBVIOUS
    <2> QED
      BY <2>1, <2>2, <2>3
  <1>4. ASSUME NEW m \in Members, CommitIdentical(m) \/ PollCommit(m) PROVE CounterInv'
    <2>1. /\ UNCHANGED <<gen, attempted, tried, cur>>
          /\ pc' = [pc EXCEPT ![m] = "idle"]
          /\ committed' = [committed EXCEPT ![m] = cur[m]]
      BY <1>4 DEF CommitIdentical, PollCommit, SetCommitted, Goto, shared
    <2> QED
      BY <2>1
  <1>5. ASSUME NEW m \in Members, Teardown(m) \/ HostCrash(m) PROVE CounterInv'
    <2>1. /\ gen' = gen /\ cur' = cur /\ pc' = [pc EXCEPT ![m] = "dead"]
          /\ LoseRunDir(m) \/ KeepRunDir
      BY <1>5 DEF Teardown, HostCrash, Goto, shared
    <2>2. CASE LoseRunDir(m)
      BY <2>1, <2>2 DEF LoseRunDir
    <2>3. CASE KeepRunDir
      BY <2>1, <2>3 DEF KeepRunDir
    <2> QED
      BY <2>1, <2>2, <2>3
  <1> QED
    BY <1>1, <1>2, <1>3, <1>4, <1>5, StepKinds DEF CountingStep

\* The three layers so far, of every reachable state.
LEMMA CountersHold == Spec => [](TypeInv /\ CounterInv)
  BY InitTypes, StepTypes, InitCounters, StepCounters, PTL DEF Spec

\* A generation is attempted at most once while the run directory survives:
\* tick() compares the counter with what set_attempted() wrote, and that bounds
\* every generation tried before, however daemon and supervisor crash.
THEOREM AttemptedOnce == Spec => AttemptOnce
  <1>1. ASSUME TypeInv, CounterInv, [Next]_vars, NEW m \in Members, Attempts(m)
        PROVE  gen \notin tried[m]
    <2> USE <1>1 DEF TypeInv, CounterInv, Attempts
    <2>1. pc[m] = "idle" /\ pc'[m] = "gate"
      OBVIOUS
    <2>2. ~QuietStep
      BY <2>1 DEF QuietStep, Busy
    <2>3. PICK n \in Members : CountingStep(n)
      BY <2>2, StepKinds
    <2>4. StartAttempt(n)
      BY <2>1, <2>3 DEF CountingStep, PublishGen, CommitIdentical, PollCommit, Teardown,
         HostCrash, Goto, daemon, TypeOK, DaemonOK
    <2>5. n = m
      BY <2>1, <2>4 DEF StartAttempt, Goto, TypeOK, DaemonOK
    <2>6. gen # attempted[m]
      BY <2>4, <2>5 DEF StartAttempt
    <2> QED
      BY <2>6 DEF TypeOK, SharedOK, FilesOK, Counters, HistoryOK, Gens
  <1>2. TypeInv /\ CounterInv /\ [Next]_vars
          => [\A m \in Members : Attempts(m) => gen \notin tried[m]]_vars
    BY <1>1
  <1> QED
    BY <1>2, CountersHold, PTL DEF Spec, AttemptOnce

\* Only a member with an attempt under way changes its fabric.toml.
LEMMA LocalChanges ==
    ASSUME TypeOK, [Next]_vars, NEW n \in Members, local'[n] # local[n]
    PROVE  Busy(n)
  <1> USE DEF TypeOK, FilesOK, Busy
  <1>1. CASE UNCHANGED vars
    BY <1>1 DEF vars, files
  <1>2. CASE TimePasses \/ \E p \in Members : PublisherFails(p)
    BY <1>2 DEF TimePasses, PublisherFails, files
  <1>3. ASSUME NEW m \in Members, NEW c \in Confs, PublishConf(m, c) PROVE Busy(n)
    BY <1>3 DEF PublishConf, files
  <1>4. ASSUME NEW m \in Members,
               PublishGen(m) \/ Sever(m) \/ Rejoin(m) \/ SupervisorStep(m)
        PROVE  Busy(n)
    BY <1>4 DEF PublishGen, Sever, Rejoin, SupervisorStep, ServeLate, SupervisorStarts,
       Teardown, CutShort, files
  <1>5. ASSUME NEW m \in Members, DaemonStep(m) PROVE Busy(n)
    BY <1>5 DEF DaemonStep, StartAttempt, Refuse, CommitIdentical, SavePrev, Install, Reapply,
       Status, PollAck, PollCommit, PollSleep, WindowCloses, Retract, Restore, ReapplyPrev,
       files
  <1>6. ASSUME NEW m \in Members, DaemonCrash(m) \/ HostCrash(m) PROVE Busy(n)
    BY <1>6 DEF DaemonCrash, HostCrash, CutShort
  <1> QED
    BY <1>1, <1>2, <1>3, <1>4, <1>5, <1>6 DEF Next

\* What a member has committed stays installed: every write to the local text,
\* a torn one included, belongs to an attempt of a later generation.
THEOREM CommitsStand == Spec => CommitStands
  <1>1. ASSUME TypeInv, CounterInv, [Next]_vars, NEW m \in Members, local'[m] # local[m]
        PROVE  cur[m] > committed[m]
    BY <1>1, LocalChanges DEF TypeInv, CounterInv, TypeOK, FilesOK, DaemonOK, Counters
  <1>2. TypeInv /\ CounterInv /\ [Next]_vars
          => [\A m \in Members : local'[m] # local[m] => cur[m] > committed[m]]_vars
    BY <1>1
  <1> QED
    BY <1>2, CountersHold, PTL DEF Spec, CommitStands

\* Neither crashes nor late requests make a member attempt a generation twice or go
\* back on one it committed.
THEOREM GenerationsOnce == Spec => GenerationOnce
  BY AttemptedOnce, CommitsStand, PTL DEF GenerationOnce

-----------------------------------------------------------------------------
(* What an ack says about its writer.                                      *)

InWindow(m) == pc[m] \in {"ack", "peer"} /\ acked[m]

\* A fresh ack, in the table or in a severed member's copy of it, was written;
\* a member that believes its ack landed did write it; a claimed witness is one.
AckInv ==
    /\ \A g \in Gens, p \in Members : Fresh(acks[g][p]) => ackText[g][p] # {}
    /\ \A n \in Members, g \in Gens, p \in Members :
          Fresh(frozen[n].acks[g][p]) => ackText[g][p] # {}
    /\ \A m \in Members : InWindow(m) => ackText[cur[m]][m] # {}
    /\ \A m \in Members : outcome[m].kind = "witnessed" => outcome[m].gen \in Gens
    /\ WitnessedByPeer

\* What most steps have in common: acks only grow older or disappear, copies
\* are taken of the table as it is, and nobody gains an ack or a witness.
NoNewAck ==
    /\ UNCHANGED ackText
    /\ \A g \in Gens, p \in Members : Fresh(acks'[g][p]) => Fresh(acks[g][p])
    /\ \A n \in Members, g \in Gens, p \in Members :
          Fresh(frozen'[n].acks[g][p]) => Fresh(frozen[n].acks[g][p]) \/ Fresh(acks[g][p])
    /\ \A n \in Members : InWindow(n)' => InWindow(n) /\ cur'[n] = cur[n]
    /\ \A n \in Members : outcome'[n] = outcome[n] \/ outcome'[n].kind # "witnessed"

AckingStep(m) == CommitIdentical(m) \/ PollAck(m) \/ PollCommit(m)

\* An ack that is fresh after a tick was fresh before it.
LEMMA AgedFresh ==
    ASSUME NEW table \in AckTable, NEW g \in Gens, NEW p \in Members, Fresh(Aged(table)[g][p])
    PROVE  Fresh(table[g][p])
  BY ConfAssumption DEF Fresh, Aged, AckTable

\* Only a commit or a witness poll produces an ack or ends an attempt with one.
LEMMA AckKinds ==
    ASSUME TypeOK, [Next]_vars
    PROVE  NoNewAck \/ \E m \in Members : AckingStep(m)
  <1> USE DEF TypeOK, SharedOK, NetOK, DaemonOK, HistoryOK, NoNewAck, InWindow
  <1>1. CASE UNCHANGED vars
    BY <1>1 DEF vars, shared, net, daemon, history
  <1>2. CASE TimePasses
    BY <1>2, AgedFresh DEF TimePasses, history
  <1>3. CASE \E p \in Members : PublisherFails(p)
    BY <1>3 DEF PublisherFails, net, daemon, history
  <1>4. ASSUME NEW m \in Members, Sever(m) PROVE NoNewAck
    BY <1>4 DEF Sever, shared, daemon, history
  <1>5. ASSUME NEW m \in Members, Rejoin(m) PROVE NoNewAck
    BY <1>5 DEF Rejoin, shared, daemon, history
  <1>6. ASSUME NEW m \in Members, NEW c \in Confs, PublishConf(m, c) PROVE NoNewAck
    BY <1>6 DEF PublishConf, net, daemon, history
  <1>7. ASSUME NEW m \in Members, PublishGen(m) PROVE NoNewAck
    BY <1>7, ConfAssumption DEF PublishGen, net, daemon, history, Absent, Fresh, AckTable
  <1>8. ASSUME NEW m \in Members, StartAttempt(m) PROVE NoNewAck
    BY <1>8 DEF StartAttempt, shared, net, Goto, NoOutcome
  <1>9. ASSUME NEW m \in Members, Refuse(m) PROVE NoNewAck
    BY <1>9 DEF Refuse, shared, net, Goto, Ended
  <1>10. ASSUME NEW m \in Members, SavePrev(m) PROVE NoNewAck
    BY <1>10 DEF SavePrev, shared, net, history, Goto
  <1>11. ASSUME NEW m \in Members, Install(m) PROVE NoNewAck
    BY <1>11 DEF Install, shared, net, history, Goto
  <1>12. ASSUME NEW m \in Members, Reapply(m) PROVE NoNewAck
    BY <1>12 DEF Reapply, shared, net, history, Request, Goto
  <1>13. ASSUME NEW m \in Members, Status(m) PROVE NoNewAck
    BY <1>13 DEF Status, shared, net, history, Goto
  <1>14. ASSUME NEW m \in Members, PollSleep(m) PROVE NoNewAck
    BY <1>14 DEF PollSleep, shared, net, history, Goto
  <1>15. ASSUME NEW m \in Members, WindowCloses(m) PROVE NoNewAck
    BY <1>15 DEF WindowCloses, shared, net, history, Goto
  <1>16. ASSUME NEW m \in Members, Retract(m) PROVE NoNewAck
    BY <1>16, ConfAssumption DEF Retract, net, history, RetractAck, Goto, Absent, Fresh, AckTable
  <1>17. ASSUME NEW m \in Members, Restore(m) PROVE NoNewAck
    BY <1>17 DEF Restore, shared, net, Goto, Ended
  <1>18. ASSUME NEW m \in Members, ReapplyPrev(m) PROVE NoNewAck
    BY <1>18 DEF ReapplyPrev, shared, net, history, Request, Goto
  <1>19. ASSUME NEW m \in Members, ServeLate(m) PROVE NoNewAck
    BY <1>19 DEF ServeLate, shared, net, daemon, history
  <1>20. ASSUME NEW m \in Members, Teardown(m) PROVE NoNewAck
    BY <1>20 DEF Teardown, shared, net, Goto
  <1>21. ASSUME NEW m \in Members, SupervisorStarts(m) PROVE NoNewAck
    BY <1>21 DEF SupervisorStarts, shared, net, history, Goto
  <1>22. ASSUME NEW m \in Members, DaemonCrash(m) PROVE NoNewAck
    BY <1>22 DEF DaemonCrash, shared, net, history, Goto
  <1>23. ASSUME NEW m \in Members, HostCrash(m) PROVE NoNewAck
    BY <1>23 DEF HostCrash, shared, net, Goto
  <1> HIDE DEF NoNewAck
  <1> QED
    BY <1>1, <1>2, <1>3, <1>4, <1>5, <1>6, <1>7, <1>8, <1>9, <1>10, <1>11, <1>12,
       <1>13, <1>14, <1>15, <1>16, <1>17, <1>18, <1>19, <1>20, <1>21, <1>22, <1>23 DEF
       Next, DaemonStep, SupervisorStep, AckingStep

\* At the start there are no acks and nothing has ended.
LEMMA InitAcks == Init => AckInv
  BY ConfAssumption DEF Init, AckInv, InWindow, WitnessedByPeer, Fresh, Absent, NoOutcome

\* An ack that lands is on record with the text it stands for.
LEMMA WriteAckFresh ==
    ASSUME TypeOK, AckInv, NEW m \in Members, WriteAck(m), cur[m] \in Gens
    PROVE  /\ \A g \in Gens, p \in Members : Fresh(acks'[g][p]) => ackText'[g][p] # {}
           /\ \A g \in Gens, p \in Members : ackText[g][p] # {} => ackText'[g][p] # {}
           /\ Quorate(m) => ackText'[cur[m]][m] # {}
  <1> USE DEF TypeOK, SharedOK, HistoryOK, AckTable, AckInv
  <1>1. CASE Quorate(m)
    <2>1. acks' = [acks EXCEPT ![cur[m]][m] = 0]
          /\ ackText' = [ackText EXCEPT ![cur[m]][m] = {local[m]}]
      BY <1>1 DEF WriteAck
    <2>2. \A g \in Gens, p \in Members : ~(g = cur[m] /\ p = m) =>
            acks'[g][p] = acks[g][p] /\ ackText'[g][p] = ackText[g][p]
      BY <2>1
    <2>3. ackText'[cur[m]][m] = {local[m]}
      BY <2>1
    <2>4. {local[m]} # {}
      OBVIOUS
    <2>5. ASSUME NEW g \in Gens, NEW p \in Members
          PROVE  /\ Fresh(acks'[g][p]) => ackText'[g][p] # {}
                 /\ ackText[g][p] # {} => ackText'[g][p] # {}
      <3>1. CASE g = cur[m] /\ p = m
        BY <2>3, <2>4, <3>1
      <3>2. CASE ~(g = cur[m] /\ p = m)
        BY <2>2, <3>2
      <3> QED
        BY <3>1, <3>2
    <2> QED
      BY <2>3, <2>4, <2>5
  <1>2. CASE ~Quorate(m)
    BY <1>2 DEF WriteAck
  <1> QED
    BY <1>1, <1>2

\* Every fresh ack, on pmxcfs or in a severed member's copy of it, is on record,
\* and a witnessed outcome names such a record, across every step.
LEMMA StepAcks == TypeInv /\ CounterInv /\ AckInv /\ [Next]_vars => AckInv'
  <1> SUFFICES ASSUME TypeOK, CounterInv, AckInv, [Next]_vars PROVE AckInv'
    BY DEF TypeInv
  <1>0. \A m \in Members : Busy(m) => cur[m] \in Gens
    BY ConfAssumption DEF TypeOK, FilesOK, DaemonOK, CounterInv, Counters, Gens
  <1>1. CASE NoNewAck
    BY <1>1 DEF NoNewAck, AckInv, WitnessedByPeer, TypeOK, HistoryOK
  <1>2. ASSUME NEW m \in Members, CommitIdentical(m) PROVE AckInv'
    <2> USE DEF CommitIdentical
    <2>1. cur[m] \in Gens
      BY <1>0, <1>2 DEF Busy
    <2>2. /\ \A g \in Gens, p \in Members : Fresh(acks'[g][p]) => ackText'[g][p] # {}
          /\ \A g \in Gens, p \in Members : ackText[g][p] # {} => ackText'[g][p] # {}
      BY <1>2, <2>1, WriteAckFresh
    <2>3. UNCHANGED <<frozen, acked, cur>> /\ \A n \in Members : InWindow(n)' => InWindow(n)
      BY <1>2 DEF net, InWindow, Goto, TypeOK, DaemonOK
    <2>4. \A n \in Members : outcome'[n] = outcome[n] \/ outcome'[n].kind # "witnessed"
      BY <1>2 DEF Ended, TypeOK, HistoryOK
    <2>5. \A n \in Members : InWindow(n) => cur[n] \in Gens
      BY <1>0 DEF InWindow, Busy
    <2>6. \A n \in Members : InWindow(n)' => ackText'[cur'[n]][n] # {}
      BY <2>2, <2>3, <2>5 DEF AckInv
    <2>7. WitnessedByPeer'
      BY <2>2, <2>4 DEF AckInv, WitnessedByPeer, TypeOK, HistoryOK
    <2>8. \A n \in Members : outcome'[n].kind = "witnessed" => outcome'[n].gen \in Gens
      BY <2>4 DEF AckInv
    <2> QED
      BY <2>2, <2>3, <2>6, <2>7, <2>8 DEF AckInv
  <1>3. ASSUME NEW m \in Members, PollAck(m) PROVE AckInv'
    <2> USE DEF PollAck
    <2>1. cur[m] \in Gens
      BY <1>0, <1>3 DEF Busy
    <2>2. UNCHANGED <<frozen, cur, outcome>>
      BY <1>3 DEF net
    <2>3. CASE acked[m]
      <3>1. \A n \in Members : InWindow(n)' => InWindow(n)
        BY <1>3, <2>3 DEF InWindow, Goto, TypeOK, DaemonOK
      <3> QED
        BY <1>3, <2>2, <2>3, <3>1 DEF AckInv, WitnessedByPeer
    <2>4. CASE ~acked[m]
      <3>1. WriteAck(m) /\ acked' = [acked EXCEPT ![m] = Quorate(m)]
        BY <1>3, <2>4
      <3>2. /\ \A g \in Gens, p \in Members : Fresh(acks'[g][p]) => ackText'[g][p] # {}
            /\ \A g \in Gens, p \in Members : ackText[g][p] # {} => ackText'[g][p] # {}
            /\ Quorate(m) => ackText'[cur[m]][m] # {}
        BY <2>1, <3>1, WriteAckFresh
      <3>3. \A n \in Members \ {m} : InWindow(n)' => InWindow(n)
        BY <1>3, <3>1 DEF InWindow, Goto, TypeOK, DaemonOK
      <3>4. InWindow(m)' => Quorate(m)
        BY <3>1 DEF InWindow, TypeOK, DaemonOK
      <3>5. \A n \in Members : InWindow(n) => cur[n] \in Gens
        BY <1>0 DEF InWindow, Busy
      <3>6. \A n \in Members : InWindow(n)' => ackText'[cur'[n]][n] # {}
        BY <2>2, <3>2, <3>3, <3>4, <3>5 DEF AckInv
      <3>7. WitnessedByPeer'
        BY <2>2, <3>2 DEF AckInv, WitnessedByPeer, TypeOK, HistoryOK
      <3> QED
        BY <2>2, <3>2, <3>6, <3>7 DEF AckInv
    <2> QED
      BY <2>3, <2>4
  <1>4. ASSUME NEW m \in Members, PollCommit(m) PROVE AckInv'
    <2> USE DEF PollCommit
    <2>1. cur[m] \in Gens /\ ackText[cur[m]][m] # {}
      BY <1>0, <1>4 DEF Busy, AckInv, InWindow
    <2>2. UNCHANGED <<acks, frozen, ackText, acked, cur>>
      BY <1>4 DEF shared, net
    <2>3. \A n \in Members : InWindow(n)' => InWindow(n)
      BY <1>4 DEF InWindow, Goto, TypeOK, DaemonOK
    <2>4. \A p \in PeerAcks(m) : p \in Members /\ p # m /\ ackText[cur[m]][p] # {}
      BY <2>1 DEF PeerAcks, SeenAcks, AckInv
    <2>5. WitnessedByPeer' /\ (\A n \in Members : outcome'[n].kind = "witnessed"
                                                   => outcome'[n].gen \in Gens)
      <3>1. CASE Ended(m, "single", {})
        BY <2>2, <3>1 DEF Ended, AckInv, WitnessedByPeer, TypeOK, HistoryOK
      <3>2. ASSUME NEW p \in PeerAcks(m), Ended(m, "witnessed", {p})
            PROVE  WitnessedByPeer' /\ (\A n \in Members : outcome'[n].kind = "witnessed"
                                                   => outcome'[n].gen \in Gens)
        BY <2>1, <2>2, <2>4, <3>2 DEF Ended, AckInv, WitnessedByPeer, TypeOK, HistoryOK
      <3> QED
        BY <1>4, <3>1, <3>2
    <2> QED
      BY <2>2, <2>3, <2>5 DEF AckInv
  <1> QED
    BY <1>1, <1>2, <1>3, <1>4, AckKinds DEF AckingStep

\* A commit that claims a witness has one, in every cluster: another member
\* wrote an ack of that generation, and the committing member wrote its own.
THEOREM Witnessed == Spec => []WitnessedByPeer
  <1>1. AckInv => WitnessedByPeer
    BY DEF AckInv
  <1> QED
    BY <1>1, InitAcks, StepAcks, CountersHold, PTL DEF Spec

-----------------------------------------------------------------------------
(* What a revert puts back.                                                *)

\* Every re-apply is in place and nothing is killed: the members' texts share one
\* fabric, and no crash is allowed.
InPlace == MaxCrash = 0 /\ \A c \in Confs : FabricOf[c] = FabricOf[Base]

\* The text a member committed is in its local file before an attempt installs
\* anything and after a revert, and in the cached copy in between; the
\* supervisor is never brought down.
RevertInv ==
    \A m \in Members :
        /\ sup[m] = "run" /\ running[m] = FabricOf[Base] /\ pc[m] # "dead"
        /\ pc[m] \in {"idle", "gate", "again"} => local[m] = good[m]
        /\ pc[m] \in {"install", "reapply", "status", "ack", "peer", "retract", "restore"}
              => prev[m] = good[m]

\* A request leaves the supervisor running: the fabric is the running one.
LEMMA InPlaceRequest ==
    ASSUME TypeOK, RevertInv, InPlace, NEW m \in Members
    PROVE  /\ TakeRequest(m) => sup' = sup
           /\ \A ok, refused : Request(m, ok, refused) =>
                 sup' = sup /\ (pc' = [pc EXCEPT ![m] = ok] \/ pc' = [pc EXCEPT ![m] = refused])
  <1>1. ~Restarts(m)
    BY DEF Restarts, InPlace, RevertInv, TypeOK, FilesOK
  <1>2. TakeRequest(m) => sup' = sup
    BY <1>1 DEF TakeRequest, TypeOK, SupervisorOK
  <1> QED
    BY <1>2 DEF Request, Goto

\* Where a step neither moves a text nor a program counter.
LEMMA RevertFrame ==
    ASSUME RevertInv, UNCHANGED <<sup, running, pc, local, prev, good>>
    PROVE  RevertInv'
  BY DEF RevertInv

\* Every step keeps it.
LEMMA StepReverts == TypeInv /\ RevertInv /\ InPlace /\ [Next]_vars => RevertInv'
  <1> SUFFICES ASSUME TypeOK, RevertInv, InPlace, [Next]_vars PROVE RevertInv'
    BY DEF TypeInv
  <1>1. CASE UNCHANGED vars
    BY <1>1, RevertFrame DEF vars, files, supervisor, daemon, history
  <1>2. CASE TimePasses
    BY <1>2, RevertFrame DEF TimePasses, files, supervisor, history
  <1>3. ASSUME NEW m \in Members, NEW c \in Confs, PublishConf(m, c) PROVE RevertInv'
    BY <1>3, RevertFrame DEF PublishConf, files, supervisor, daemon, history
  <1>4. ASSUME NEW m \in Members, PublishGen(m) \/ PublisherFails(m) \/ Sever(m) \/ Rejoin(m)
        PROVE  RevertInv'
    BY <1>4, RevertFrame DEF PublishGen, PublisherFails, Sever, Rejoin, files, supervisor, daemon, history
  <1>5. ASSUME NEW m \in Members, ServeLate(m) PROVE RevertInv'
    BY <1>5, RevertFrame, InPlaceRequest DEF ServeLate, files, daemon, history
  <1>6. ASSUME NEW m \in Members, Teardown(m) \/ SupervisorStarts(m) PROVE FALSE
    BY <1>6 DEF Teardown, SupervisorStarts, RevertInv
  <1>7. ASSUME NEW m \in Members, DaemonCrash(m) \/ HostCrash(m) PROVE FALSE
    BY <1>7, ConfAssumption DEF DaemonCrash, HostCrash, InPlace, TypeOK, NetOK
  <1> USE DEF RevertInv, Goto, TypeOK, FilesOK, DaemonOK, HistoryOK
  <1>8. ASSUME NEW m \in Members, StartAttempt(m) \/ Refuse(m) PROVE RevertInv'
    BY <1>8 DEF StartAttempt, Refuse, files, supervisor
  <1>9. ASSUME NEW m \in Members, CommitIdentical(m) PROVE RevertInv'
    BY <1>9 DEF CommitIdentical, SetCommitted, supervisor
  <1>10. ASSUME NEW m \in Members, SavePrev(m) PROVE RevertInv'
    BY <1>10 DEF SavePrev, SaveLocal, supervisor, history
  <1>11. ASSUME NEW m \in Members, Install(m) PROVE RevertInv'
    BY <1>11 DEF Install, supervisor, history
  <1>12. ASSUME NEW m \in Members, Reapply(m) PROVE RevertInv'
    <2>1. /\ pc[m] = "reapply" /\ UNCHANGED <<sup, running, local, prev, good>>
          /\ pc' = [pc EXCEPT ![m] = "status"] \/ pc' = [pc EXCEPT ![m] = "retract"]
      BY <1>12, InPlaceRequest DEF Reapply, files, history
    <2> QED
      BY <2>1
  <1>13. ASSUME NEW m \in Members, Status(m) PROVE RevertInv'
    BY <1>13 DEF Status, files, supervisor, history
  <1>14. ASSUME NEW m \in Members, PollAck(m) \/ PollSleep(m) PROVE RevertInv'
    BY <1>14 DEF PollAck, PollSleep, files, supervisor, history
  <1>15. ASSUME NEW m \in Members, PollCommit(m) PROVE RevertInv'
    BY <1>15 DEF PollCommit, SetCommitted, supervisor
  <1>16. ASSUME NEW m \in Members, WindowCloses(m) \/ Retract(m) PROVE RevertInv'
    BY <1>16 DEF WindowCloses, Retract, files, supervisor, history
  <1>17. ASSUME NEW m \in Members, Restore(m) PROVE RevertInv'
    BY <1>17 DEF Restore, supervisor
  <1>18. ASSUME NEW m \in Members, ReapplyPrev(m) PROVE RevertInv'
    <2>1. /\ pc[m] = "again" /\ UNCHANGED <<sup, running, local, prev, good>>
          /\ pc' = [pc EXCEPT ![m] = "idle"]
      BY <1>18, InPlaceRequest DEF ReapplyPrev, files, history
    <2> QED
      BY <2>1
  <1> HIDE DEF RevertInv
  <1> QED
    BY <1>1, <1>2, <1>3, <1>4, <1>5, <1>6, <1>7, <1>8, <1>9, <1>10, <1>11, <1>12, <1>13, <1>14,
       <1>15, <1>16, <1>17, <1>18 DEF Next, DaemonStep, SupervisorStep

\* Where every re-apply is in place and nothing is killed, revert() puts back
\* the text the member last committed, never one an earlier attempt left
\* behind, whatever is published, acked, severed or timed out meanwhile.
THEOREM RevertsRestore == ASSUME InPlace PROVE Spec => []RevertsToGood
  <1>1. Init => RevertInv
    BY DEF Init, RevertInv
  <1>2. TypeInv /\ RevertInv /\ [Next]_vars => RevertInv'
    BY StepReverts
  <1>3. RevertInv => RevertsToGood
    BY DEF RevertInv, RevertsToGood
  <1>4. Spec => []TypeInv
    BY InitTypes, StepTypes, PTL DEF Spec
  <1> QED
    BY <1>1, <1>2, <1>3, <1>4, PTL DEF Spec

=============================================================================
