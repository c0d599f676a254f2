-------------------------- MODULE FlushActorProofs --------------------------
(***************************************************************************)
(* What the neighbor table and the flush actor guarantee for every number  *)
(* of addresses and rows, every cap and burst, and every bound on claims,  *)
(* expiries and failures.  First the operations of the table, one lemma    *)
(* per property they keep; then the actor's steps, each of which is one of *)
(* those operations or leaves the table alone; then the theorems.          *)
(***************************************************************************)
EXTENDS FlushActor, SequenceTheorems, FiniteSetTheorems, TLAPS


-----------------------------------------------------------------------------
(* The table.                                                              *)

\* Enqueueing a key keeps the queue a sequence of keys that covers dirty.
LEMMA EnqueueKeeps ==
    ASSUME TableOK, QueueCoversDirty, NEW k \in Keys, Enqueue(k)
    PROVE  queue' \in Seq(Keys) /\ QueueCoversDirty' /\ dirty' = dirty \union {k}
  <1>1. CASE k \in dirty
    BY <1>1 DEF Enqueue, TableOK, QueueCoversDirty
  <1>2. CASE k \notin dirty
    <2>1. queue' = Append(queue, k)
      BY <1>2 DEF Enqueue
    <2>2. /\ queue' \in Seq(Keys) /\ DOMAIN queue' = 1..(Len(queue) + 1)
          /\ DOMAIN queue = 1..Len(queue) /\ Len(queue) \in Nat
          /\ \A i \in 1..Len(queue) : queue'[i] = queue[i]
          /\ queue'[Len(queue) + 1] = k
      BY <2>1, AppendProperties, LenProperties DEF TableOK
    <2>3. \A l \in dirty \union {k} : \E i \in DOMAIN queue' : queue'[i] = l
      <3>1. ASSUME NEW l \in dirty PROVE \E i \in DOMAIN queue' : queue'[i] = l
        <4>1. PICK i \in DOMAIN queue : queue[i] = l
          BY DEF QueueCoversDirty
        <4> QED
          BY <2>2, <4>1
      <3>2. Len(queue) + 1 \in DOMAIN queue'
        BY <2>2
      <3> QED
        BY <2>2, <3>1, <3>2
    <2> QED
      BY <2>2, <2>3 DEF Enqueue, QueueCoversDirty
  <1> QED
    BY <1>1, <1>2

\* A claim, admitted or refused, keeps the table well formed.
LEMMA ClaimKeeps ==
    ASSUME TableOK, QueueCoversDirty, NEW k \in Keys, NEW m \in Macs, Claim(k, m)
    PROVE  TableOK' /\ QueueCoversDirty'
  <1>1. claims' \in 0..MaxClaim /\ overs' = overs
    BY TableAssumption DEF Claim, TableOK
  <1>2. CASE k \in held \/ Admits(RowOf[k])
    <2>1. /\ held' = held \union {k} /\ over' = over \ {k}
          /\ mac' = [mac EXCEPT ![k] = m] /\ Enqueue(k) /\ permit' = permit
          /\ owing' = owing \union {RowOf[k]} /\ RowOf[k] \in Rows
      BY <1>2 DEF Claim, Rows
    <2> QED
      BY <1>1, <2>1, EnqueueKeeps DEF TableOK, Rows
  <1>3. CASE ~(k \in held \/ Admits(RowOf[k]))
    BY <1>1, <1>3 DEF Claim, TableOK, QueueCoversDirty, table
  <1> QED
    BY <1>2, <1>3

\* re_dirty() keeps the table well formed.
LEMMA ReDirtyKeeps ==
    ASSUME TableOK, QueueCoversDirty, NEW k \in Keys, ReDirty(k), UNCHANGED <<mac, owing, counts>>
    PROVE  TableOK' /\ QueueCoversDirty'
  <1>1. CASE k \in held /\ Enqueue(k) /\ permit' = (permit \/ k \notin dirty)
                /\ UNCHANGED <<held, over>>
    <2>1. permit' \in BOOLEAN
      BY <1>1
    <2> QED
      BY <1>1, <2>1, EnqueueKeeps DEF TableOK, counts
  <1>2. CASE k \in over /\ Drop({k}) /\ UNCHANGED <<queue, permit>>
    BY <1>2 DEF Drop, TableOK, QueueCoversDirty, counts
  <1>3. CASE k \notin held /\ UNCHANGED <<held, over, dirty, queue, permit>>
    BY <1>3 DEF TableOK, QueueCoversDirty, counts
  <1> QED
    BY <1>1, <1>2, <1>3 DEF ReDirty

\* take_next_dirty(), with an entry: what stays dirty is behind it in the queue.
LEMMA TakeAtKeeps ==
    ASSUME TableOK, QueueCoversDirty, NEW i \in DOMAIN queue, TakeAt(i),
           UNCHANGED <<mac, permit, owing, counts>>
    PROVE  TableOK' /\ QueueCoversDirty'
  <1> DEFINE gone == {queue[j] : j \in 1..(i - 1)} \intersect (dirty \intersect over)
  <1>1. /\ held' = held \ gone /\ over' = over \ gone
        /\ dirty' = dirty \ (gone \union {queue[i]})
        /\ queue' = SubSeq(queue, i + 1, Len(queue))
        /\ \A j \in 1..(i - 1) : queue[j] \notin dirty \ over
    BY DEF TakeAt, Ready
  <1> HIDE DEF gone
  <1>2. DOMAIN queue = 1..Len(queue) /\ Len(queue) \in Nat /\ i \in 1..Len(queue)
    BY LenProperties DEF TableOK
  <1>3. \A j \in (i + 1)..Len(queue) : queue[j] \in Keys
    BY <1>2 DEF TableOK
  <1>4. /\ queue' \in Seq(Keys)
        /\ \A j \in 1..(Len(queue) - i) : queue'[j] = queue[i + j]
        /\ Len(queue') = Len(queue) - i
    <2>1. i + 1 \in Int /\ Len(queue) \in Int
      BY <1>2
    <2>2. /\ SubSeq(queue, i + 1, Len(queue)) \in Seq(Keys)
          /\ Len(SubSeq(queue, i + 1, Len(queue))) =
                IF i + 1 <= Len(queue) THEN Len(queue) - (i + 1) + 1 ELSE 0
          /\ \A j \in 1..(Len(queue) - (i + 1) + 1) :
                SubSeq(queue, i + 1, Len(queue))[j] = queue[(i + 1) + j - 1]
      BY <1>3, <2>1, SubSeqProperties
    <2> QED
      BY <1>1, <1>2, <2>2
  <1>5. DOMAIN queue' = 1..(Len(queue) - i)
    BY <1>4, LenProperties
  <1>6. ASSUME NEW l \in dirty' PROVE \E j \in DOMAIN queue' : queue'[j] = l
    <2>1. l \in dirty /\ l \notin gone /\ l # queue[i]
      BY <1>1
    <2>2. PICK j \in DOMAIN queue : queue[j] = l
      BY <2>1 DEF QueueCoversDirty
    <2>3. j > i
      <3>1. ASSUME j < i PROVE FALSE
        <4>1. j \in 1..(i - 1)
          BY <1>2, <3>1
        <4>2. l \in over
          BY <1>1, <2>1, <2>2, <4>1
        <4> QED
          BY <2>1, <2>2, <4>1, <4>2 DEF gone
      <3> QED
        BY <1>2, <2>1, <2>2, <3>1
    <2>4. j - i \in DOMAIN queue' /\ queue'[j - i] = l
      BY <1>2, <1>4, <1>5, <2>2, <2>3
    <2> QED
      BY <2>4
  <1>7. QueueCoversDirty'
    BY <1>6 DEF QueueCoversDirty
  <1>8. held' \subseteq Keys /\ over' \subseteq held' /\ dirty' \subseteq held'
    BY <1>1 DEF TableOK
  <1> QED
    BY <1>4, <1>7, <1>8 DEF TableOK, counts

\* take_next_dirty(), with nothing to take: no entry is dirty afterwards.
LEMMA TakeNoneKeeps ==
    ASSUME TableOK, QueueCoversDirty, TakeNone, UNCHANGED <<mac, permit, owing, counts>>
    PROVE  TableOK' /\ QueueCoversDirty' /\ dirty' = {}
  <1>1. queue' = <<>> /\ \A i \in DOMAIN queue : queue[i] \notin dirty \ over
    BY DEF TakeNone, Ready
  <1>2. held' \subseteq Keys /\ over' \subseteq held' /\ dirty' \subseteq held'
    BY DEF TakeNone, Drop, TableOK
  <1>3. ASSUME NEW l \in dirty' PROVE FALSE
    <2>1. l \in dirty /\ l \notin {queue[j] : j \in DOMAIN queue} \intersect (dirty \intersect over)
      BY DEF TakeNone, Drop
    <2>2. PICK j \in DOMAIN queue : queue[j] = l
      BY <2>1 DEF QueueCoversDirty
    <2> QED
      BY <1>1, <2>1, <2>2
  <1>4. queue' \in Seq(Keys)
    BY <1>1
  <1> QED
    BY <1>2, <1>3, <1>4 DEF TableOK, QueueCoversDirty, counts

-----------------------------------------------------------------------------
(* The actor.                                                              *)

\* A fork that is waited for is paid for; a write in flight has a target.
Ranges ==
    /\ pc \in {"reserve", "sweep"} => want > 0
    /\ pc = "write" <=> job # NoJob

TypeInv == TypeOK /\ QueueCoversDirty /\ Ranges

\* The empty table and the idle actor are well formed.
LEMMA InitTypes == Init => TypeInv
  <1> SUFFICES ASSUME Init PROVE TypeInv
    OBVIOUS
  <1> USE TableAssumption, ActorAssumption
  <1>1. TableOK /\ QueueCoversDirty
    <2>1. permit \in BOOLEAN
      BY DEF Init, TableInit
    <2>2. claims \in 0..MaxClaim /\ overs \in 0..MaxOver
      BY DEF Init, TableInit
    <2>3. queue \in Seq(Keys)
      BY DEF Init, TableInit
    <2> QED
      BY <2>1, <2>2, <2>3 DEF Init, TableInit, TableOK, QueueCoversDirty
  <1>2. ActorOK /\ Ranges
    BY DEF Init, ActorOK, Ranges, NoDocument, PCs
  <1>3. KernelOK
    BY DEF Init, TableInit, KernelOK
  <1> QED
    BY <1>1, <1>2, <1>3 DEF TypeInv, TypeOK

\* Every step is one operation of the table, or none.
LEMMA StepTable == TypeInv /\ [Next]_vars => TableOK' /\ QueueCoversDirty'
  <1> SUFFICES ASSUME TypeInv, [Next]_vars PROVE TableOK' /\ QueueCoversDirty'
    OBVIOUS
  <1>0. TableOK /\ QueueCoversDirty
    BY DEF TypeInv, TypeOK
  <1>1. ASSUME UNCHANGED <<table, counts>> PROVE TableOK' /\ QueueCoversDirty'
    BY <1>0, <1>1 DEF table, counts, TableOK, QueueCoversDirty
  <1>2. CASE Relay
    <2>1. ASSUME NEW r \in Rows, Notify(r) PROVE TableOK' /\ QueueCoversDirty'
      <3>1. permit' \in BOOLEAN
        BY <2>1 DEF Notify
      <3> QED
        BY <1>0, <2>1, <3>1 DEF Notify, TableOK, QueueCoversDirty, counts, Rows
    <2> QED
      BY <1>0, <1>2, <2>1, ClaimKeeps DEF Relay
  <1>3. CASE Clock
    BY <1>0, <1>3, TableAssumption DEF Clock, LeaseEnds, TableOK, QueueCoversDirty
  <1>4. CASE WakeUp
    BY <1>0, <1>4 DEF WakeUp, Wake, TableOK, QueueCoversDirty, counts
  <1>5. CASE SweepStart
    BY <1>0, <1>5 DEF SweepStart, RemoveExpired, Drop, TableOK, QueueCoversDirty, counts
  <1>6. ASSUME NEW i \in DOMAIN queue, Drain(i) PROVE TableOK' /\ QueueCoversDirty'
    BY <1>0, <1>6, TakeAtKeeps DEF Drain
  <1>7. CASE DrainEnds
    <2>1. CASE TakeNone
      BY <1>0, <1>7, <2>1, TakeNoneKeeps DEF DrainEnds
    <2>2. CASE UNCHANGED <<held, over, dirty, queue>>
      BY <1>1, <1>7, <2>2 DEF DrainEnds, table
    <2> QED
      BY <1>7, <2>1, <2>2 DEF DrainEnds
  <1>8. CASE PutBack
    <2>1. Head(back) \in Keys
      BY <1>8, HeadTailProperties DEF PutBack, TypeInv, TypeOK, ActorOK
    <2> QED
      BY <1>0, <1>8, <2>1, ReDirtyKeeps DEF PutBack
  <1>9. ASSUME NEW k \in Keys, SweepDirties(k) PROVE TableOK' /\ QueueCoversDirty'
    BY <1>0, <1>9, ReDirtyKeeps DEF SweepDirties
  <1>10. CASE Refill \/ BatchStart \/ ReadFails \/ ReadBatch \/ ReadSweep
                  \/ ListEntries \/ Write \/ WriteFails \/ Finish
    BY <1>1, <1>10 DEF Refill, BatchStart, ReadFails, ReadBatch, ReadSweep, ListEntries, Write,
                       WriteFails, Finish
  <1>11. ASSUME NEW k \in Keys, NEW e \in {"none", "bare", Learned}, KernelChanges(k, e)
         PROVE  TableOK' /\ QueueCoversDirty'
    BY <1>1, <1>11 DEF KernelChanges
  <1>12. CASE UNCHANGED vars
    BY <1>1, <1>12 DEF vars
  <1> QED
    BY <1>2, <1>3, <1>4, <1>5, <1>6, <1>7, <1>8, <1>9, <1>10, <1>11, <1>12 DEF Next, Actor

\* 1 + min(depth, B - 1) is at least the read and at most the bucket.
LEMMA ReserveRange ==
    ASSUME NEW depth \in Nat PROVE Reserve(depth) \in 1..Burst
  BY ActorAssumption DEF Reserve

\* dirty_depth() is a number.
LEMMA DepthType == TableOK => Cardinality(dirty) \in Nat
  <1> SUFFICES ASSUME TableOK PROVE Cardinality(dirty) \in Nat
    OBVIOUS
  <1>1. IsFiniteSet(Keys) /\ dirty \in SUBSET Keys
    BY TableAssumption DEF TableOK
  <1>2. IsFiniteSet(dirty)
    BY <1>1, FS_Subset
  <1> QED
    BY <1>2, FS_CardinalityType

\* An entry is taken, and skipped, put back or written: the actor's own state
\* stays in range.
LEMMA DrainTypes ==
    ASSUME TypeInv, NEW i \in DOMAIN queue, Drain(i)
    PROVE  ActorOK' /\ KernelOK' /\ Ranges'
  <1> USE ActorAssumption
  <1> DEFINE k == queue[i]
  <1>1. k \in Keys /\ mac[k] \in Macs /\ doc[k] \in {"none", "bare", "lladdr"}
    BY LenProperties DEF TypeInv, TypeOK, TableOK, ActorOK
  <1>2. Append(back, k) \in Seq(Keys)
    BY <1>1, AppendProperties DEF TypeInv, TypeOK, ActorOK
  <1>3. job = NoJob /\ pc = "drain" /\ handled < Burst - 1 /\ UNCHANGED <<want, lack, doc>>
    BY DEF Drain, TypeInv, Ranges
  <1>4. Handle(k) /\ UNCHANGED <<kernel, budget>>
    BY DEF Drain
  <1> HIDE DEF k
  <1>5. KernelOK'
    <2>1. done' \in [Keys -> Macs]
      BY <1>1, <1>4 DEF Handle, TypeInv, TypeOK, KernelOK
    <2> QED
      BY <1>4, <2>1 DEF budget, TypeInv, TypeOK, KernelOK
  <1>6. handled' \in 0..(Burst - 1) /\ seen' \subseteq Keys
    BY <1>1, <1>3, <1>4 DEF Handle, TypeInv, TypeOK, ActorOK
  <1>7. /\ tokens' \in 0..Burst /\ back' \in Seq(Keys)
        /\ job' \in {NoJob} \union Jobs /\ pc' \in PCs
        /\ pc' = "write" <=> job' # NoJob
        /\ pc' \notin {"reserve", "sweep"}
    <2>1. CASE UNCHANGED <<pc, tokens, job>> /\ back' \in {back, Append(back, k)}
      BY <1>2, <1>3, <2>1 DEF TypeInv, TypeOK, ActorOK
    <2>2. CASE back' = Append(back, k) /\ pc' = "back" /\ UNCHANGED <<tokens, job>>
      BY <1>2, <1>3, <2>2 DEF TypeInv, TypeOK, ActorOK, PCs
    <2>3. CASE /\ tokens # 0 /\ tokens' = tokens - 1 /\ pc' = "write" /\ back' = back
               /\ job' = [verb |-> IF doc[k] = "none" THEN "add" ELSE "replace",
                          key |-> k, mac |-> mac[k]]
      <3>1. job' \in Jobs /\ job' # NoJob
        BY <1>1, <2>3 DEF Jobs, NoJob
      <3> QED
        BY <2>3, <3>1 DEF TypeInv, TypeOK, ActorOK, PCs
    <2> QED
      BY <1>4, <2>1, <2>2, <2>3 DEF Handle, Goto
  <1> QED
    BY <1>3, <1>5, <1>6, <1>7 DEF ActorOK, Ranges, TypeInv, TypeOK

\* Every step keeps the types, the bucket's range and the write's target.
LEMMA StepTypes == TypeInv /\ [Next]_vars => TypeInv'
  <1> SUFFICES ASSUME TypeInv, [Next]_vars PROVE ActorOK' /\ KernelOK' /\ Ranges'
    BY StepTable DEF TypeInv, TypeOK
  <1> USE ActorAssumption
  <1>0. TableOK /\ ActorOK /\ KernelOK /\ Ranges
    BY DEF TypeInv, TypeOK
  <1>1. ASSUME UNCHANGED <<pc, tokens, doc, batch, kernel, budget, past>>
        PROVE  ActorOK' /\ KernelOK' /\ Ranges'
    BY <1>0, <1>1 DEF batch, budget, past, ActorOK, KernelOK, Ranges
  <1>2. CASE Relay \/ Clock
    BY <1>1, <1>2 DEF Relay, Clock
  <1>3. CASE Refill
    BY <1>0, <1>3 DEF Refill, batch, budget, past, ActorOK, KernelOK, Ranges
  <1>4. ASSUME NEW k \in Keys, NEW e \in {"none", "bare", Learned}, KernelChanges(k, e)
        PROVE  ActorOK' /\ KernelOK' /\ Ranges'
    BY <1>0, <1>4 DEF KernelChanges, batch, past, ActorOK, KernelOK, Ranges
  <1>5. CASE BatchStart
    <2>1. Reserve(Cardinality(dirty)) \in 1..Burst
      BY <1>0, DepthType, ReserveRange
    <2>2. want' \in 0..Burst /\ pc' \in {"sleep", "reserve"}
          /\ (pc' = "reserve" => want' > 0)
      BY <1>0, <1>5, <2>1 DEF BatchStart, Goto, TableOK, ActorOK, KernelOK
    <2> QED
      BY <1>0, <1>5, <2>2 DEF BatchStart, budget, past, ActorOK, KernelOK, Ranges, PCs
  <1>6. CASE WakeUp
    BY <1>0, <1>6 DEF WakeUp, Wake, Goto, batch, budget, past, ActorOK, KernelOK, Ranges, PCs
  <1>7. CASE SweepStart
    BY <1>0, <1>7 DEF SweepStart, Goto, budget, past, ActorOK, KernelOK, Ranges, PCs
  <1>8. CASE ReadFails
    <2>1. tokens' \in 0..Burst /\ pc' \in {"batch", "step"} /\ fails' \in 0..MaxFail
      BY <1>0, <1>8 DEF ReadFails, Spend, Goto, ActorOK, KernelOK, Ranges
    <2> QED
      BY <1>0, <1>8, <2>1 DEF ReadFails, past, ActorOK, KernelOK, Ranges, PCs
  <1>9. CASE ReadBatch \/ ReadSweep
    <2>1. tokens' \in 0..Burst
      BY <1>0, <1>9 DEF ReadBatch, ReadSweep, Spend, ActorOK, Ranges
    <2>2. doc' \in [Keys -> {"none", "bare", "lladdr"}]
      BY <1>9 DEF ReadBatch, ReadSweep, Document, NoMac
    <2> QED
      BY <1>0, <1>9, <2>1, <2>2
         DEF ReadBatch, ReadSweep, Goto, batch, budget, past, ActorOK, KernelOK, Ranges, PCs
  <1>10. CASE ListEntries
    <2>1. lack' \subseteq Keys
      BY <1>0, <1>10 DEF ListEntries, TableOK
    <2> QED
      BY <1>0, <1>10, <2>1 DEF ListEntries, Goto, budget, past, ActorOK, KernelOK, Ranges, PCs
  <1>11. CASE DrainEnds
    BY <1>0, <1>11 DEF DrainEnds, Goto, batch, budget, past, ActorOK, KernelOK, Ranges, PCs
  <1>12. CASE Write \/ WriteFails
    <2>1. job \in Jobs
      BY <1>0, <1>12 DEF Write, WriteFails, Ranges, ActorOK
    <2>2. job.key \in Keys /\ job.mac \in Macs
      BY <2>1 DEF Jobs
    <2>3. CASE Write
      BY <1>0, <2>2, <2>3 DEF Write, Goto, budget, ActorOK, KernelOK, Ranges, PCs
    <2>4. CASE WriteFails
      <3>1. Append(back, job.key) \in Seq(Keys)
        BY <1>0, <2>2, AppendProperties DEF ActorOK
      <3>2. kernel' \in [Keys -> {"none", "bare", Learned} \union Macs] /\ fails' \in 0..MaxFail
        BY <1>0, <2>2, <2>4 DEF WriteFails, KernelOK
      <3> QED
        BY <1>0, <2>4, <3>1, <3>2 DEF WriteFails, Goto, past, ActorOK, KernelOK, Ranges, PCs
    <2> QED
      BY <1>12, <2>3, <2>4
  <1>13. CASE PutBack
    <2>1. Tail(back) \in Seq(Keys)
      BY <1>0, <1>13, HeadTailProperties DEF PutBack, ActorOK
    <2> QED
      BY <1>0, <1>13, <2>1 DEF PutBack, budget, past, ActorOK, KernelOK, Ranges
  <1>14. ASSUME NEW k \in Keys, SweepDirties(k) PROVE ActorOK' /\ KernelOK' /\ Ranges'
    BY <1>0, <1>14 DEF SweepDirties, budget, past, ActorOK, KernelOK, Ranges
  <1>15. CASE Finish
    <2>1. pc' \in {"batch", "step"} /\ job = NoJob /\ pc # "write"
      BY <1>0, <1>15 DEF Finish, Goto, Ranges
    <2> QED
      BY <1>0, <1>15, <2>1 DEF Finish, NoDocument, budget, ActorOK, KernelOK, Ranges, PCs
  <1>16. CASE UNCHANGED vars
    BY <1>1, <1>16 DEF vars
  <1> QED
    BY <1>2, <1>3, <1>4, <1>5, <1>6, <1>7, <1>8, <1>9, <1>10, <1>11, <1>12, <1>13, <1>14,
       <1>15, <1>16, DrainTypes DEF Next, Actor

\* Types hold of every reachable state.
LEMMA TypesHold == Spec => []TypeInv
  BY InitTypes, StepTypes, PTL DEF Spec

\* The bucket never underflows and never banks more than its burst, a batch never
\* waits for more than the bucket can hold, whatever the number of dirty entries.
THEOREM TypeCorrect == Spec => []TypeOK
  <1>1. TypeInv => TypeOK
    BY DEF TypeInv
  <1> QED
    BY <1>1, TypesHold, PTL

\* dirty_depth() counts only entries a batch can find in the queue.
THEOREM DepthIsReal == Spec => []QueueCoversDirty
  <1>1. TypeInv => QueueCoversDirty
    BY DEF TypeInv
  <1> QED
    BY <1>1, TypesHold, PTL

-----------------------------------------------------------------------------
(* The wakeup.                                                             *)

\* While the actor sleeps only a claim makes an entry dirty, and its relay owes a
\* permit from then on; the actor goes to sleep on an empty table only.
LEMMA StepWakeup == TypeInv /\ NoLostWakeup /\ [Next]_vars => NoLostWakeup'
  <1> SUFFICES ASSUME TypeInv, NoLostWakeup, [Next]_vars, pc' = "sleep", dirty' # {}
               PROVE  permit' \/ owing' # {}
    BY DEF NoLostWakeup
  <1>1. ASSUME pc = "sleep", UNCHANGED <<dirty, permit, owing>> PROVE permit' \/ owing' # {}
    BY <1>1 DEF NoLostWakeup
  <1>2. CASE Relay
    <2>1. ASSUME NEW r \in Rows, Notify(r) PROVE permit'
      BY <2>1 DEF Notify
    <2>2. ASSUME NEW k \in Keys, NEW m \in Macs, Claim(k, m), k \in held \/ Admits(RowOf[k])
          PROVE  owing' # {}
      BY <2>2 DEF Claim
    <2>3. ASSUME NEW k \in Keys, NEW m \in Macs, Claim(k, m),
                 ~(k \in held \/ Admits(RowOf[k]))
          PROVE  permit' \/ owing' # {}
      BY <1>1, <1>2, <2>3 DEF Claim, table, Relay
    <2> QED
      BY <1>2, <2>1, <2>2, <2>3 DEF Relay
  <1>3. CASE Clock \/ Refill \/ UNCHANGED vars
    BY <1>1, <1>3 DEF Clock, LeaseEnds, Refill, table, vars
  <1>4. ASSUME NEW k \in Keys, NEW e \in {"none", "bare", Learned}, KernelChanges(k, e)
        PROVE  permit' \/ owing' # {}
    BY <1>1, <1>4 DEF KernelChanges, table
  <1>5. CASE BatchStart
    BY <1>5 DEF BatchStart, Goto, table
  <1>6. CASE WakeUp \/ SweepStart \/ ReadFails \/ ReadBatch \/ ReadSweep \/ ListEntries
                \/ DrainEnds \/ Write \/ WriteFails \/ Finish
    BY <1>6 DEF WakeUp, Wake, SweepStart, ReadFails, ReadBatch, ReadSweep, ListEntries, DrainEnds, Write,
                WriteFails, Finish, Goto
  <1>7. CASE PutBack \/ \E k \in Keys : SweepDirties(k)
    BY <1>7 DEF PutBack, SweepDirties
  <1>8. ASSUME NEW i \in DOMAIN queue, Drain(i) PROVE permit' \/ owing' # {}
    BY <1>8 DEF Drain, Handle, Goto
  <1> QED
    BY <1>2, <1>3, <1>4, <1>5, <1>6, <1>7, <1>8 DEF Next, Actor

\* The actor never sleeps on a dirty entry, however claims, expiries, failures and
\* its own steps interleave.
THEOREM WakeupsKept == Spec => []NoLostWakeup
  <1>1. Init => NoLostWakeup
    BY DEF Init, NoLostWakeup
  <1> QED
    BY <1>1, StepWakeup, TypesHold, PTL DEF Spec

-----------------------------------------------------------------------------
(* The claims.                                                             *)

\* The write in flight carries the entry's last claim, unless a newer claim has
\* queued the entry again or the entry is gone.
JobCurrent ==
    job # NoJob => (job.key \in held \ dirty => mac[job.key] = job.mac)

ClaimInv == NoLostClaim /\ JobCurrent

\* A step that takes an entry neither out of the queue nor out of the actor's
\* hands, and claims nothing, loses nothing.
LEMMA QuietStep ==
    ASSUME ClaimInv,
           UNCHANGED <<mac, done, job, back>>,
           \A k \in held' : k \in held /\ (k \in dirty => k \in dirty')
    PROVE  ClaimInv'
  <1>1. ASSUME NEW k \in held' PROVE k \in dirty' \/ InFlight(k)' \/ done'[k] = mac'[k]
    <2>1. k \in held /\ (k \in dirty \/ InFlight(k) \/ done[k] = mac[k])
      BY DEF ClaimInv, NoLostClaim
    <2>2. InFlight(k) => InFlight(k)'
      BY DEF InFlight
    <2> QED
      BY <2>1, <2>2
  <1>2. JobCurrent'
    BY DEF ClaimInv, JobCurrent
  <1> QED
    BY <1>1, <1>2 DEF ClaimInv, NoLostClaim

\* What stands to be put back still does when another key is added to it.
LEMMA BackGrows ==
    ASSUME ActorOK, NEW k \in Keys, back' = Append(back, k)
    PROVE  /\ \A i \in DOMAIN back : \E j \in DOMAIN back' : back'[j] = back[i]
           /\ \E j \in DOMAIN back' : back'[j] = k
  <1>1. /\ DOMAIN back = 1..Len(back) /\ DOMAIN back' = 1..(Len(back) + 1)
        /\ Len(back) \in Nat
        /\ \A i \in 1..Len(back) : back'[i] = back[i]
        /\ back'[Len(back) + 1] = k
    BY AppendProperties, LenProperties DEF ActorOK
  <1> QED
    BY <1>1

\* A claim is in the queue, or was refused and changed nothing.
LEMMA ClaimCounts ==
    ASSUME TypeInv, ClaimInv, NEW k \in Keys, NEW m \in Macs, Claim(k, m),
           UNCHANGED <<done, job, back>>
    PROVE  ClaimInv'
  <1>1. CASE ~(k \in held \/ Admits(RowOf[k]))
    BY <1>1, QuietStep DEF Claim, table
  <1>2. CASE k \in held \/ Admits(RowOf[k])
    <2>1. /\ held' = held \union {k} /\ mac' = [mac EXCEPT ![k] = m]
          /\ dirty' = dirty \union {k}
      BY <1>2 DEF Claim, Enqueue
    <2>2. \A l \in held' \ {k} : l \in held /\ mac'[l] = mac[l] /\ InFlight(l)' = InFlight(l)
      BY <2>1 DEF InFlight, TypeInv, TypeOK, TableOK
    <2>3. NoLostClaim'
      BY <2>1, <2>2 DEF ClaimInv, NoLostClaim
    <2>4. JobCurrent'
      BY <2>1, <2>2 DEF ClaimInv, JobCurrent
    <2> QED
      BY <2>3, <2>4 DEF ClaimInv
  <1> QED
    BY <1>1, <1>2

\* re_dirty() puts its entry on the queue, or the entry is gone.
LEMMA ReDirtyCounts ==
    ASSUME NEW k, ReDirty(k)
    PROVE  /\ \A l \in held' : l \in held /\ (l \in dirty => l \in dirty')
           /\ k \in held' => k \in dirty'
  BY DEF ReDirty, Drop, Enqueue

\* The entry that is taken is in the actor's hands, or was skipped.
LEMMA DrainCounts ==
    ASSUME TypeInv, ClaimInv, NEW i \in DOMAIN queue, Drain(i)
    PROVE  ClaimInv'
  <1> DEFINE k == queue[i]
  <1>1. k \in Keys /\ mac' = mac /\ job = NoJob
    BY LenProperties DEF Drain, TypeInv, TypeOK, TableOK, Ranges
  <1>2. \A l \in held' : l \in held /\ (l # k /\ l \in dirty => l \in dirty')
    BY DEF Drain, TakeAt
  <1>3. Handle(k)
    BY DEF Drain
  <1> HIDE DEF k
  <1>4. ActorOK /\ done \in [Keys -> Macs] /\ held \subseteq Keys
    BY DEF TypeInv, TypeOK, KernelOK, TableOK
  <1>5. /\ back' \in {back, Append(back, k)}
        /\ \A l \in held \ {k} : done'[l] = done[l]
        /\ \/ back' = Append(back, k) /\ job' = job
           \/ done'[k] = mac[k] /\ job' = job
           \/ job' # NoJob /\ job'.key = k /\ job'.mac = mac[k]
    <2>1. \A v : [verb |-> v, key |-> k, mac |-> mac[k]] # NoJob
      BY DEF NoJob
    <2>2. CASE back' = Append(back, k) /\ UNCHANGED <<job, done>>
      BY <2>2
    <2>3. CASE done' = [done EXCEPT ![k] = mac[k]] /\ UNCHANGED <<job, back>>
      BY <1>1, <1>4, <2>3
    <2>4. CASE /\ job' = [verb |-> IF doc[k] = "none" THEN "add" ELSE "replace",
                          key |-> k, mac |-> mac[k]]
               /\ UNCHANGED <<back, done>>
      BY <2>1, <2>4
    <2> QED
      BY <1>3, <2>2, <2>3, <2>4 DEF Handle
  <1>6. \A j \in DOMAIN back : \E n \in DOMAIN back' : back'[n] = back[j]
    BY <1>1, <1>4, <1>5, BackGrows
  <1>7. ASSUME NEW l \in held' PROVE l \in dirty' \/ InFlight(l)' \/ done'[l] = mac'[l]
    <2>1. CASE l = k
      <3>1. CASE back' = Append(back, k)
        BY <1>1, <1>4, <2>1, <3>1, BackGrows DEF InFlight
      <3>2. CASE done'[k] = mac[k]
        BY <1>1, <2>1, <3>2
      <3>3. CASE job' # NoJob /\ job'.key = k
        BY <2>1, <3>3 DEF InFlight
      <3> QED
        BY <1>5, <3>1, <3>2, <3>3
    <2>2. CASE l # k
      <3>1. l \in held /\ (l \in dirty \/ InFlight(l) \/ done[l] = mac[l])
        BY <1>2 DEF ClaimInv, NoLostClaim
      <3>2. InFlight(l) => InFlight(l)'
        BY <1>1, <1>6 DEF InFlight
      <3> QED
        BY <1>1, <1>2, <1>5, <2>2, <3>1, <3>2
    <2> QED
      BY <2>1, <2>2
  <1>8. JobCurrent'
    BY <1>1, <1>5 DEF JobCurrent
  <1> QED
    BY <1>7, <1>8 DEF ClaimInv, NoLostClaim

\* A write that worked carried the last claim, or the entry is queued again.
LEMMA WriteCounts ==
    ASSUME TypeInv, ClaimInv, Write
    PROVE  ClaimInv'
  <1>1. job # NoJob /\ job \in Jobs
    BY DEF Write, TypeInv, TypeOK, ActorOK, Ranges
  <1>2. job.key \in Keys
    BY <1>1 DEF Jobs
  <1>3. /\ done' = [done EXCEPT ![job.key] = job.mac]
        /\ job' = NoJob /\ UNCHANGED <<held, dirty, mac, back>>
        /\ done \in [Keys -> Macs] /\ held \subseteq Keys
    BY DEF Write, table, TypeInv, TypeOK, KernelOK, TableOK
  <1>4. ASSUME NEW l \in held' PROVE l \in dirty' \/ InFlight(l)' \/ done'[l] = mac'[l]
    <2>1. CASE l = job.key
      BY <1>1, <1>2, <1>3, <2>1 DEF ClaimInv, JobCurrent
    <2>2. CASE l # job.key
      <3>1. InFlight(l) => InFlight(l)'
        BY <1>3, <2>2 DEF InFlight
      <3> QED
        BY <1>2, <1>3, <2>2, <3>1 DEF ClaimInv, NoLostClaim
    <2> QED
      BY <2>1, <2>2
  <1>5. JobCurrent'
    BY <1>3 DEF JobCurrent
  <1> QED
    BY <1>4, <1>5 DEF ClaimInv, NoLostClaim

\* A write that failed leaves its key among those to put back.
LEMMA WriteFailsCounts ==
    ASSUME TypeInv, ClaimInv, WriteFails
    PROVE  ClaimInv'
  <1>1. job # NoJob /\ job \in Jobs
    BY DEF WriteFails, TypeInv, TypeOK, ActorOK, Ranges
  <1>2. job.key \in Keys
    BY <1>1 DEF Jobs
  <1>3. /\ back' = Append(back, job.key)
        /\ job' = NoJob /\ UNCHANGED <<held, dirty, mac, done>>
    BY DEF WriteFails, table, past
  <1>4. /\ \A i \in DOMAIN back : \E j \in DOMAIN back' : back'[j] = back[i]
        /\ \E j \in DOMAIN back' : back'[j] = job.key
    BY <1>2, <1>3, BackGrows DEF TypeInv, TypeOK
  <1>5. \A l : InFlight(l) => InFlight(l)'
    BY <1>4 DEF InFlight
  <1>6. NoLostClaim' /\ JobCurrent'
    BY <1>3, <1>5 DEF ClaimInv, NoLostClaim, JobCurrent
  <1> QED
    BY <1>6 DEF ClaimInv

\* A key is put back before it leaves the actor's hands.
LEMMA PutBackCounts ==
    ASSUME TypeInv, ClaimInv, PutBack
    PROVE  ClaimInv'
  <1>1. /\ \A l \in held' : l \in held /\ (l \in dirty => l \in dirty')
        /\ Head(back) \in held' => Head(back) \in dirty'
    BY ReDirtyCounts DEF PutBack
  <1>2. /\ back # <<>> /\ back' = Tail(back) /\ UNCHANGED <<mac, done, job>>
        /\ back \in Seq(Keys)
    BY DEF PutBack, past, TypeInv, TypeOK, ActorOK
  <1>3. ASSUME NEW i \in DOMAIN back
        PROVE  back[i] = Head(back) \/ \E j \in DOMAIN back' : back'[j] = back[i]
    <2>1. /\ DOMAIN back = 1..Len(back) /\ Len(back) \in Nat
          /\ DOMAIN back' = 1..(Len(back) - 1)
          /\ \A j \in 1..(Len(back) - 1) : back'[j] = back[j + 1]
      BY <1>2, HeadTailProperties, LenProperties
    <2>2. CASE i = 1
      BY <2>2
    <2>3. CASE i # 1
      <3>1. i - 1 \in DOMAIN back' /\ back'[i - 1] = back[i]
        BY <2>1, <2>3
      <3> QED
        BY <3>1
    <2> QED
      BY <2>2, <2>3
  <1>4. ASSUME NEW l \in held' PROVE l \in dirty' \/ InFlight(l)' \/ done'[l] = mac'[l]
    <2>1. l \in held /\ (l \in dirty \/ InFlight(l) \/ done[l] = mac[l])
      BY <1>1 DEF ClaimInv, NoLostClaim
    <2>2. InFlight(l) => l = Head(back) \/ InFlight(l)'
      BY <1>2, <1>3 DEF InFlight
    <2> QED
      BY <1>1, <1>2, <2>1, <2>2
  <1>5. JobCurrent'
    BY <1>1, <1>2 DEF ClaimInv, JobCurrent
  <1> QED
    BY <1>4, <1>5 DEF ClaimInv, NoLostClaim

\* Every step keeps every claim.
LEMMA StepClaims == TypeInv /\ ClaimInv /\ [Next]_vars => ClaimInv'
  <1> SUFFICES ASSUME TypeInv, ClaimInv, [Next]_vars PROVE ClaimInv'
    OBVIOUS
  <1>1. CASE Relay
    <2>1. ASSUME NEW r \in Rows, Notify(r) PROVE ClaimInv'
      BY <1>1, <2>1, QuietStep DEF Relay, Notify, batch, past
    <2> QED
      BY <1>1, <2>1, ClaimCounts DEF Relay, batch, past
  <1>2. CASE Clock \/ Refill \/ UNCHANGED vars
    BY <1>2, QuietStep DEF Clock, LeaseEnds, Refill, vars, table, batch, past
  <1>3. ASSUME NEW k \in Keys, NEW e \in {"none", "bare", Learned}, KernelChanges(k, e)
        PROVE  ClaimInv'
    BY <1>3, QuietStep DEF KernelChanges, table, batch, past
  <1>4. CASE BatchStart \/ WakeUp \/ ReadFails \/ ReadBatch \/ ReadSweep \/ ListEntries
                \/ Finish
    BY <1>4, QuietStep DEF BatchStart, WakeUp, ReadFails, ReadBatch, ReadSweep, ListEntries,
                           Finish, table, batch, past
  <1>5. CASE SweepStart
    BY <1>5, QuietStep DEF SweepStart, RemoveExpired, Drop, past
  <1>6. CASE DrainEnds
    BY <1>6, QuietStep DEF DrainEnds, TakeNone, Drop, batch, past
  <1>7. ASSUME NEW k \in Keys, SweepDirties(k) PROVE ClaimInv'
    BY <1>7, ReDirtyCounts, QuietStep DEF SweepDirties, past
  <1> QED
    BY <1>1, <1>2, <1>3, <1>4, <1>5, <1>6, <1>7, DrainCounts, WriteCounts, WriteFailsCounts,
       PutBackCounts DEF Next, Actor

\* No claim is lost, however relays, expiries, failing reads and writes and the
\* sweep interleave with the batch; in particular not one that arrives while an
\* older claim of the same address is being written.
THEOREM ClaimsKept == Spec => []NoLostClaim
  <1>1. Init => ClaimInv
    BY DEF Init, TableInit, ClaimInv, NoLostClaim, JobCurrent
  <1>2. ClaimInv => NoLostClaim
    BY DEF ClaimInv
  <1> QED
    BY <1>1, <1>2, StepClaims, TypesHold, PTL DEF Spec

-----------------------------------------------------------------------------
(* The cap.                                                                *)

\* The entries of a row.
RowKeys(r) == {k \in held : RowOf[k] = r}

\* No operation but an admitted claim adds an entry to the table.
LEMMA OnlyClaimsAdd ==
    ASSUME TypeInv, [Next]_vars, ~Relay PROVE held' \subseteq held
  <1>1. CASE Clock \/ Refill \/ UNCHANGED vars
    BY <1>1 DEF Clock, LeaseEnds, Refill, vars, table
  <1>2. ASSUME NEW k \in Keys, NEW e \in {"none", "bare", Learned}, KernelChanges(k, e)
        PROVE  held' \subseteq held
    BY <1>2 DEF KernelChanges, table
  <1>3. CASE BatchStart \/ WakeUp \/ ReadFails \/ ReadBatch \/ ReadSweep \/ ListEntries
                \/ Finish \/ Write \/ WriteFails
    BY <1>3 DEF BatchStart, WakeUp, ReadFails, ReadBatch, ReadSweep, ListEntries, Finish, Write,
                WriteFails, table
  <1>4. CASE SweepStart \/ DrainEnds
    BY <1>4 DEF SweepStart, RemoveExpired, DrainEnds, TakeNone, Drop
  <1>5. ASSUME NEW i \in DOMAIN queue, Drain(i) PROVE held' \subseteq held
    BY <1>5 DEF Drain, TakeAt
  <1>6. CASE PutBack \/ \E k \in Keys : SweepDirties(k)
    BY <1>6, ReDirtyCounts DEF PutBack, SweepDirties
  <1> QED
    BY <1>1, <1>2, <1>3, <1>4, <1>5, <1>6 DEF Next, Actor

\* A row's length is a number that shrinks with the table.
LEMMA RowShrinks ==
    ASSUME TypeInv, held' \subseteq held, NEW r
    PROVE  RowLen(r) \in Nat /\ RowLen(r)' \in Nat /\ RowLen(r)' <= RowLen(r)
  <1>1. IsFiniteSet(Keys) /\ RowKeys(r) \in SUBSET Keys /\ RowKeys(r)' \in SUBSET RowKeys(r)
    BY TableAssumption DEF RowKeys, TypeInv, TypeOK, TableOK
  <1>2. IsFiniteSet(RowKeys(r))
    BY <1>1, FS_Subset
  <1>3. IsFiniteSet(RowKeys(r)') /\ Cardinality(RowKeys(r)') <= Cardinality(RowKeys(r))
    BY <1>1, <1>2, FS_Subset
  <1>4. Cardinality(RowKeys(r)) \in Nat /\ Cardinality(RowKeys(r)') \in Nat
    BY <1>2, <1>3, FS_CardinalityType
  <1> QED
    BY <1>3, <1>4 DEF RowLen, RowKeys

\* A claim adds at most one entry to its own row, and only below the cap.
LEMMA ClaimWithinCap ==
    ASSUME TypeInv, RowWithinCap, NEW k \in Keys, NEW m \in Macs, Claim(k, m)
    PROVE  RowWithinCap'
  <1>1. CASE held' = held
    BY <1>1 DEF RowWithinCap, RowLen, Rows
  <1>2. CASE held' = held \union {k} /\ k \notin held /\ Admits(RowOf[k])
    <2>1. ASSUME NEW r \in Rows PROVE RowLen(r)' <= Cap
      <3>1. IsFiniteSet(RowKeys(r))
        <4>1. IsFiniteSet(Keys) /\ RowKeys(r) \in SUBSET Keys
          BY TableAssumption DEF RowKeys, TypeInv, TypeOK, TableOK
        <4> QED
          BY <4>1, FS_Subset
      <3>2. Cardinality(RowKeys(r)) \in Nat
        BY <3>1, FS_CardinalityType
      <3>3. CASE RowOf[k] = r
        <4>1. RowKeys(r)' = RowKeys(r) \union {k}
          BY <1>2, <3>3 DEF RowKeys
        <4>2. Cardinality(RowKeys(r)') = Cardinality(RowKeys(r)) + 1
          <5>1. k \notin RowKeys(r)
            BY <1>2 DEF RowKeys
          <5> QED
            BY <3>1, <4>1, <5>1, FS_AddElement
        <4>3. Cardinality(RowKeys(r)) < Cap
          BY <1>2, <3>3 DEF Admits, RowLen, RowKeys
        <4>4. Cap \in Nat
          BY TableAssumption
        <4>5. RowLen(r)' = Cardinality(RowKeys(r)')
          BY DEF RowLen, RowKeys
        <4> QED
          BY <3>2, <4>2, <4>3, <4>4, <4>5
      <3>4. CASE RowOf[k] # r
        <4>1. RowKeys(r)' = RowKeys(r)
          BY <1>2, <3>4 DEF RowKeys
        <4> QED
          BY <4>1 DEF RowLen, RowKeys, RowWithinCap
      <3> QED
        BY <3>3, <3>4
    <2> QED
      BY <2>1 DEF RowWithinCap, Rows
  <1> QED
    BY <1>1, <1>2 DEF Claim, table

\* No sequence of claims, expiries, put-backs and sweeps lets a row hold more
\* entries than its cap.
THEOREM CapHolds == Spec => []RowWithinCap
  <1>1. Init => RowWithinCap
    <2> SUFFICES ASSUME Init, NEW r \in Rows PROVE RowLen(r) <= Cap
      BY DEF RowWithinCap
    <2>1. RowKeys(r) = {}
      BY DEF Init, TableInit, RowKeys
    <2>2. Cardinality(RowKeys(r)) = 0
      BY <2>1, FS_EmptySet
    <2> QED
      BY <2>2, TableAssumption DEF RowLen, RowKeys
  <1>2. TypeInv /\ RowWithinCap /\ [Next]_vars => RowWithinCap'
    <2> SUFFICES ASSUME TypeInv, RowWithinCap, [Next]_vars PROVE RowWithinCap'
      OBVIOUS
    <2>1. CASE Relay
      <3>1. ASSUME NEW r \in Rows, Notify(r) PROVE RowWithinCap'
        BY <3>1 DEF Notify, RowWithinCap, RowLen, Rows
      <3> QED
        BY <2>1, <3>1, ClaimWithinCap DEF Relay
    <2>2. CASE ~Relay
      <3> SUFFICES ASSUME NEW r \in Rows PROVE RowLen(r)' <= Cap
        BY DEF RowWithinCap, Rows
      <3>1. held' \subseteq held
        BY <2>2, OnlyClaimsAdd
      <3>2. RowLen(r) <= Cap
        BY DEF RowWithinCap
      <3>3. Cap \in Nat
        BY TableAssumption
      <3> QED
        BY <3>1, <3>2, <3>3, RowShrinks
    <2> QED
      BY <2>1, <2>2
  <1> QED
    BY <1>1, <1>2, TypesHold, PTL DEF Spec

-----------------------------------------------------------------------------
(* The batch's document.                                                   *)

\* A batch writes no address twice: the second write would be classified by what
\* the kernel held before the first.
THEOREM WritesOnce == Spec => OneWritePerRead
  <1> DEFINE OneWrite == \A k \in Keys :
                 pc = "drain" /\ pc' = "write" /\ job'.key = k => k \notin seen
  <1>1. ASSUME TypeInv, [Next]_vars PROVE OneWrite \/ UNCHANGED vars
    <2>1. ASSUME NEW i \in DOMAIN queue, Drain(i), pc' = "write"
          PROVE  job'.key \notin seen
      BY <2>1 DEF Drain, Handle, SeenBefore, Goto
    <2>2. ASSUME pc = "drain", pc' = "write" PROVE \E i \in DOMAIN queue : Drain(i)
      BY <1>1, <2>2 DEF Next, Relay, Clock, Refill, KernelChanges, Actor, BatchStart, WakeUp, Wake,
            SweepStart, ReadFails, ReadBatch, ReadSweep, ListEntries, DrainEnds, Write,
            WriteFails, PutBack, SweepDirties, Finish, Goto, vars
    <2> QED
      BY <2>1, <2>2
  <1> QED
    BY <1>1, TypesHold, PTL DEF Spec, OneWritePerRead

-----------------------------------------------------------------------------
(* The length of the queue.                                                *)

\* The places a key has in the queue.
Places(k) == {i \in DOMAIN queue : queue[i] = k}

One(b) == IF b THEN 1 ELSE 0

\* A place is paid for by the entry being dirty, or by a lease that ran out and
\* whose entry is gone: an entry that is over still holds what it will pay with.
PlaceInv ==
    /\ \A k \in Keys : Cardinality(Places(k)) + One(k \in over) <= One(k \in dirty) + overs
    /\ over # {} => overs >= 1

\* A queue is finite, and so are a key's places in it.
LEMMA PlacesFinite ==
    ASSUME TableOK, NEW k
    PROVE  /\ DOMAIN queue = 1..Len(queue) /\ Len(queue) \in Nat
           /\ IsFiniteSet(Places(k)) /\ Cardinality(Places(k)) \in Nat
           /\ overs \in Nat
  <1>1. DOMAIN queue = 1..Len(queue) /\ Len(queue) \in Nat
    BY LenProperties DEF TableOK
  <1>2. IsFiniteSet(1..Len(queue)) /\ Places(k) \in SUBSET (1..Len(queue))
    BY <1>1, FS_Interval DEF Places
  <1>3. IsFiniteSet(Places(k))
    BY <1>2, FS_Subset
  <1> QED
    BY <1>1, <1>3, FS_CardinalityType, TableAssumption DEF TableOK

\* Entries whose lease ran out leave: the places of their keys stay paid for.
LEMMA DropLength ==
    ASSUME TableOK, PlaceInv, NEW ks \in SUBSET over, Drop(ks), UNCHANGED <<queue, overs>>
    PROVE  PlaceInv'
  <1>1. ASSUME NEW k \in Keys PROVE Cardinality(Places(k)') + One(k \in over') <= One(k \in dirty') + overs'
    <2>1. Places(k)' = Places(k)
      BY DEF Places
    <2>2. Cardinality(Places(k)) \in Nat /\ overs \in Nat
      BY PlacesFinite
    <2>3. Cardinality(Places(k)) + One(k \in over) <= One(k \in dirty) + overs
      BY DEF PlaceInv
    <2>4. CASE k \in ks
      <3>1. k \in over /\ k \notin over' /\ k \notin dirty'
        BY <2>4 DEF Drop
      <3> QED
        BY <2>1, <2>2, <2>3, <3>1 DEF One
    <2>5. CASE k \notin ks
      <3>1. (k \in over <=> k \in over') /\ (k \in dirty <=> k \in dirty')
        BY <2>5 DEF Drop
      <3> QED
        BY <2>1, <2>2, <2>3, <3>1 DEF One
    <2> QED
      BY <2>4, <2>5
  <1>2. over' # {} => overs' >= 1
    BY DEF PlaceInv, Drop
  <1> QED
    BY <1>1, <1>2 DEF PlaceInv

\* A key gets a second place only when it is not dirty.
LEMMA EnqueueLength ==
    ASSUME TableOK, PlaceInv, NEW k \in Keys, Enqueue(k), over' \subseteq over, overs' = overs
    PROVE  PlaceInv'
  <1>1. ASSUME NEW l \in Keys PROVE Cardinality(Places(l)') + One(l \in over') <= One(l \in dirty') + overs'
    <2>1. Cardinality(Places(l)) \in Nat /\ overs \in Nat /\ IsFiniteSet(Places(l))
      BY PlacesFinite
    <2>2. Cardinality(Places(l)) + One(l \in over) <= One(l \in dirty) + overs
      BY DEF PlaceInv
    <2>3. One(l \in over') <= One(l \in over) /\ One(l \in over) \in 0..1 /\ One(l \in over') \in 0..1
      BY DEF One
    <2>4. dirty' = dirty \union {k}
      BY DEF Enqueue
    <2>5. CASE k \in dirty
      <3>1. Places(l)' = Places(l) /\ (l \in dirty <=> l \in dirty')
        BY <2>4, <2>5 DEF Enqueue, Places
      <3> QED
        BY <2>1, <2>2, <2>3, <3>1 DEF One
    <2>6. CASE k \notin dirty
      <3>1. queue' = Append(queue, k)
        BY <2>6 DEF Enqueue
      <3>2. /\ DOMAIN queue = 1..Len(queue) /\ Len(queue) \in Nat
            /\ DOMAIN queue' = 1..(Len(queue) + 1)
            /\ \A i \in 1..Len(queue) : queue'[i] = queue[i]
            /\ queue'[Len(queue) + 1] = k
        BY <3>1, AppendProperties, LenProperties DEF TableOK
      <3>3. CASE l = k
        <4>1. Places(l)' = Places(l) \union {Len(queue) + 1}
          BY <3>2, <3>3 DEF Places
        <4>2. Cardinality(Places(l)') <= Cardinality(Places(l)) + 1 /\ Cardinality(Places(l)') \in Nat
          <5>1. /\ IsFiniteSet(Places(l) \union {Len(queue) + 1})
                /\ Cardinality(Places(l) \union {Len(queue) + 1}) =
                      IF Len(queue) + 1 \in Places(l) THEN Cardinality(Places(l)) ELSE Cardinality(Places(l)) + 1
            BY <2>1, FS_AddElement
          <5> QED
            BY <2>1, <4>1, <5>1
        <4>3. One(l \in dirty) = 0 /\ One(l \in dirty') = 1
          BY <2>4, <2>6, <3>3 DEF One
        <4> QED
          BY <2>1, <2>2, <2>3, <4>2, <4>3
      <3>4. CASE l # k
        <4>1. Places(l)' = Places(l) /\ (l \in dirty <=> l \in dirty')
          BY <2>4, <3>2, <3>4 DEF Places
        <4> QED
          BY <2>1, <2>2, <2>3, <4>1 DEF One
      <3> QED
        BY <3>3, <3>4
    <2> QED
      BY <2>5, <2>6
  <1>2. over' # {} => overs' >= 1
    BY DEF PlaceInv
  <1> QED
    BY <1>1, <1>2 DEF PlaceInv

\* Taking the entry at i leaves the places behind i, and none at i.
LEMMA TakeLength ==
    ASSUME TableOK, PlaceInv, NEW i \in DOMAIN queue, TakeAt(i), overs' = overs
    PROVE  PlaceInv'
  <1> DEFINE gone == {queue[j] : j \in 1..(i - 1)} \intersect (dirty \intersect over)
  <1>1. /\ over' = over \ gone /\ dirty' = dirty \ (gone \union {queue[i]})
        /\ queue' = SubSeq(queue, i + 1, Len(queue))
        /\ queue[i] \in dirty \ over
    BY DEF TakeAt, Ready
  <1>2. gone \subseteq dirty \intersect over
    OBVIOUS
  <1> HIDE DEF gone
  <1>3. DOMAIN queue = 1..Len(queue) /\ Len(queue) \in Nat /\ i \in 1..Len(queue)
    BY LenProperties DEF TableOK
  <1>4. /\ DOMAIN queue' = 1..(Len(queue) - i)
        /\ \A j \in 1..(Len(queue) - i) : queue'[j] = queue[i + j]
    <2>1. i + 1 \in Int /\ Len(queue) \in Int
      BY <1>3
    <2>2. \A j \in (i + 1)..Len(queue) : queue[j] \in Keys
      BY <1>3 DEF TableOK
    <2>3. /\ SubSeq(queue, i + 1, Len(queue)) \in Seq(Keys)
          /\ Len(SubSeq(queue, i + 1, Len(queue))) =
                IF i + 1 <= Len(queue) THEN Len(queue) - (i + 1) + 1 ELSE 0
          /\ \A j \in 1..(Len(queue) - (i + 1) + 1) :
                SubSeq(queue, i + 1, Len(queue))[j] = queue[(i + 1) + j - 1]
      BY <2>1, <2>2, SubSeqProperties
    <2>4. queue' \in Seq(Keys) /\ Len(queue') = Len(queue) - i
      BY <1>1, <1>3, <2>3
    <2>5. DOMAIN queue' = 1..Len(queue')
      BY <2>4, LenProperties
    <2> QED
      BY <1>1, <1>3, <2>3, <2>4, <2>5
  <1>5. ASSUME NEW k \in Keys PROVE Cardinality(Places(k)') + One(k \in over') <= One(k \in dirty') + overs'
    <2>1. Cardinality(Places(k)) \in Nat /\ overs \in Nat /\ IsFiniteSet(Places(k))
      BY PlacesFinite
    <2>2. Cardinality(Places(k)) + One(k \in over) <= One(k \in dirty) + overs
      BY DEF PlaceInv
    <2> DEFINE f == [j \in Places(k)' |-> i + j]
    <2>3. \A j \in Places(k)' : j \in Nat /\ i + j \in Places(k) \ {i}
      BY <1>3, <1>4 DEF Places
    <2>4. f \in Injection(Places(k)', Places(k) \ {i})
      BY <1>3, <2>3 DEF Injection, IsInjective
    <2>5. IsFiniteSet(Places(k) \ {i})
      BY <2>1, FS_RemoveElement
    <2>6. IsFiniteSet(Places(k)') /\ Cardinality(Places(k)') <= Cardinality(Places(k) \ {i})
      BY <2>4, <2>5, FS_Injection
    <2>7. Cardinality(Places(k)') \in Nat /\ Cardinality(Places(k) \ {i}) \in Nat
      BY <2>5, <2>6, FS_CardinalityType
    <2>8. Cardinality(Places(k) \ {i}) = IF i \in Places(k) THEN Cardinality(Places(k)) - 1
                                         ELSE Cardinality(Places(k))
      BY <2>1, FS_RemoveElement
    <2>9. CASE k = queue[i]
      <3>1. i \in Places(k) /\ k \notin over /\ k \notin over' /\ k \in dirty /\ k \notin dirty'
        BY <1>1, <1>3, <2>9 DEF Places
      <3> QED
        BY <2>1, <2>2, <2>6, <2>7, <2>8, <3>1 DEF One
    <2>10. CASE k # queue[i] /\ k \in gone
      <3>1. k \in over /\ k \notin over' /\ k \in dirty /\ k \notin dirty' /\ i \notin Places(k)
        BY <1>1, <1>2, <2>10 DEF Places
      <3> QED
        BY <2>1, <2>2, <2>6, <2>7, <2>8, <3>1 DEF One
    <2>11. CASE k # queue[i] /\ k \notin gone
      <3>1. (k \in over <=> k \in over') /\ (k \in dirty <=> k \in dirty') /\ i \notin Places(k)
        BY <1>1, <2>11 DEF Places
      <3> QED
        BY <2>1, <2>2, <2>6, <2>7, <2>8, <3>1 DEF One
    <2> QED
      BY <2>9, <2>10, <2>11
  <1>6. over' # {} => overs' >= 1
    BY <1>1 DEF PlaceInv
  <1> QED
    BY <1>5, <1>6 DEF PlaceInv

\* Nothing to take empties the queue.
LEMMA EmptyLength ==
    ASSUME TableOK, PlaceInv, TakeNone, overs' = overs
    PROVE  PlaceInv'
  <1>1. queue' = <<>> /\ over' \subseteq over
    BY DEF TakeNone, Drop
  <1>2. ASSUME NEW k \in Keys PROVE Cardinality(Places(k)') + One(k \in over') <= One(k \in dirty') + overs'
    <2>1. Places(k)' = {}
      BY <1>1 DEF Places
    <2>2. Cardinality(Places(k)') = 0
      BY <2>1, FS_EmptySet
    <2>3. overs \in Nat /\ (k \in over' => overs >= 1)
      BY <1>1, PlacesFinite DEF PlaceInv
    <2> QED
      BY <2>2, <2>3 DEF One
  <1>3. over' # {} => overs' >= 1
    BY <1>1 DEF PlaceInv
  <1> QED
    BY <1>2, <1>3 DEF PlaceInv

\* re_dirty() is a drop, nothing, or an enqueue.
LEMMA ReDirtyLength ==
    ASSUME TableOK, PlaceInv, NEW k \in Keys, ReDirty(k), overs' = overs
    PROVE  PlaceInv'
  <1>1. CASE k \in over /\ Drop({k}) /\ UNCHANGED <<queue, permit>>
    BY <1>1, DropLength
  <1>2. CASE k \notin held /\ UNCHANGED <<held, over, dirty, queue, permit>>
    BY <1>2 DEF PlaceInv, Places
  <1>3. CASE k \in held /\ Enqueue(k) /\ UNCHANGED <<held, over>>
    BY <1>3, EnqueueLength
  <1> QED
    BY <1>1, <1>2, <1>3 DEF ReDirty

\* Every step keeps every place paid for.
LEMMA StepPlaces == TypeInv /\ PlaceInv /\ [Next]_vars => PlaceInv'
  <1> SUFFICES ASSUME TypeInv, PlaceInv, [Next]_vars PROVE PlaceInv'
    OBVIOUS
  <1>0. TableOK
    BY DEF TypeInv, TypeOK
  <1>1. ASSUME UNCHANGED <<over, dirty, queue, overs>> PROVE PlaceInv'
    BY <1>1 DEF PlaceInv, Places
  <1>2. CASE Relay
    <2>1. ASSUME NEW r \in Rows, Notify(r) PROVE PlaceInv'
      BY <1>1, <2>1 DEF Notify, counts
    <2>2. ASSUME NEW k \in Keys, NEW m \in Macs, Claim(k, m) PROVE PlaceInv'
      <3>1. CASE k \in held \/ Admits(RowOf[k])
        BY <1>0, <2>2, <3>1, EnqueueLength DEF Claim
      <3>2. CASE ~(k \in held \/ Admits(RowOf[k]))
        BY <1>1, <2>2, <3>2 DEF Claim, table
      <3> QED
        BY <3>1, <3>2
    <2> QED
      BY <1>2, <2>1, <2>2 DEF Relay
  <1>3. ASSUME NEW k \in Keys, LeaseEnds(k) PROVE PlaceInv'
    <2>1. /\ k \notin over /\ over' = over \union {k} /\ overs' = overs + 1
          /\ dirty' = dirty /\ queue' = queue
      BY <1>3 DEF LeaseEnds
    <2>2. ASSUME NEW l \in Keys PROVE Cardinality(Places(l)') + One(l \in over') <= One(l \in dirty') + overs'
      <3>1. Places(l)' = Places(l) /\ Cardinality(Places(l)) \in Nat /\ overs \in Nat
        BY <1>0, <2>1, PlacesFinite DEF Places
      <3>2. Cardinality(Places(l)) + One(l \in over) <= One(l \in dirty) + overs
        BY DEF PlaceInv
      <3>3. One(l \in over') <= One(l \in over) + 1 /\ One(l \in over') \in 0..1 /\ One(l \in over) \in 0..1
        BY DEF One
      <3>4. One(l \in dirty') = One(l \in dirty) /\ One(l \in dirty) \in 0..1
        BY <2>1 DEF One
      <3> QED
        BY <2>1, <3>1, <3>2, <3>3, <3>4
    <2>3. overs' >= 1
      BY <1>0, <2>1, PlacesFinite
    <2> QED
      BY <2>2, <2>3 DEF PlaceInv
  <1>4. CASE WakeUp
    BY <1>1, <1>4 DEF WakeUp, counts
  <1>5. CASE SweepStart
    BY <1>0, <1>5, DropLength DEF SweepStart, RemoveExpired, counts
  <1>6. ASSUME NEW i \in DOMAIN queue, Drain(i) PROVE PlaceInv'
    BY <1>0, <1>6, TakeLength DEF Drain, counts
  <1>7. CASE DrainEnds
    BY <1>0, <1>1, <1>7, EmptyLength DEF DrainEnds, counts
  <1>8. CASE PutBack
    <2>1. Head(back) \in Keys
      BY <1>8, HeadTailProperties DEF PutBack, TypeInv, TypeOK, ActorOK
    <2> QED
      BY <1>0, <1>8, <2>1, ReDirtyLength DEF PutBack, counts
  <1>9. ASSUME NEW k \in Keys, SweepDirties(k) PROVE PlaceInv'
    BY <1>0, <1>9, ReDirtyLength DEF SweepDirties, counts
  <1>10. CASE Refill \/ BatchStart \/ ReadFails \/ ReadBatch \/ ReadSweep
                  \/ ListEntries \/ Write \/ WriteFails \/ Finish
    BY <1>1, <1>10 DEF Refill, BatchStart, ReadFails, ReadBatch, ReadSweep, ListEntries, Write,
                       WriteFails, Finish, table, counts
  <1>11. ASSUME NEW k \in Keys, NEW e \in {"none", "bare", Learned}, KernelChanges(k, e) PROVE PlaceInv'
    BY <1>1, <1>11 DEF KernelChanges, table, counts
  <1>12. CASE UNCHANGED vars
    BY <1>1, <1>12 DEF vars, table, counts
  <1> QED
    BY <1>2, <1>3, <1>4, <1>5, <1>6, <1>7, <1>8, <1>9, <1>10, <1>11, <1>12 DEF Next, Actor, Clock

\* Re-claiming faster than the actor drains does not grow the queue: a key has
\* one place, and one more for every lease that ran out, however claims,
\* expiries, sweeps and put-backs interleave (upsert, take_next_dirty).
THEOREM QueueStaysShort == Spec => []QueueBounded
  <1>1. Init => PlaceInv
    <2> SUFFICES ASSUME Init PROVE PlaceInv
      OBVIOUS
    <2>1. over = {} /\ dirty = {} /\ overs = 0 /\ queue = <<>>
      BY DEF Init, TableInit
    <2>2. \A k \in Keys : Places(k) = {}
      BY <2>1 DEF Places
    <2>3. \A k \in Keys : Cardinality(Places(k)) = 0
      BY <2>2, FS_EmptySet
    <2>4. \A k \in Keys : One(k \in over) = 0 /\ One(k \in dirty) = 0
      BY <2>1 DEF One
    <2> QED
      BY <2>1, <2>3, <2>4 DEF PlaceInv
  <1>2. TypeInv /\ PlaceInv => QueueBounded
    <2> SUFFICES ASSUME TableOK, PlaceInv, NEW k \in Keys PROVE Cardinality(Places(k)) <= 1 + overs
      BY DEF TypeInv, TypeOK, QueueBounded, Places
    <2>1. Cardinality(Places(k)) \in Nat /\ overs \in Nat
      BY PlacesFinite
    <2>2. Cardinality(Places(k)) + One(k \in over) <= One(k \in dirty) + overs
      BY DEF PlaceInv
    <2> QED
      BY <2>1, <2>2 DEF One
  <1> QED
    BY <1>1, <1>2, StepPlaces, TypesHold, PTL DEF Spec

\* Table and actor hand every claim on, once: no wakeup is lost, no claim, and the
\* queue does not grow with re-claims.
THEOREM HandoverHolds == Spec => []HandoverSound
  BY WakeupsKept, ClaimsKept, QueueStaysShort, PTL DEF HandoverSound
=============================================================================
