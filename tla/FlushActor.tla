----------------------------- MODULE FlushActor -----------------------------
(***************************************************************************)
(* The flush actor: one task that drains the neighbor table into the       *)
(* kernel.  It forks nothing without a token; a batch waits for the tokens *)
(* of one kernel read and of the writes it intends, reads, and classifies  *)
(* every entry it takes against that one document.  Every 15 s it sweeps:  *)
(* reads the kernel and queues again what the kernel is missing.           *)
(*                                                                         *)
(* Beside it run the relay tasks, which claim at any moment, and the       *)
(* kernel, which learns and forgets neighbors by itself.                   *)
(***************************************************************************)
EXTENDS NeighborTable

CONSTANTS
    Burst,       \* BURST: the size of the bucket
    Bare,        \* the kernel also keeps entries without an lladdr
    MaxKernel,   \* bound: changes the kernel makes by itself
    MaxFail      \* bound: reads and writes that fail

ASSUME ActorAssumption ==
    /\ Burst \in Nat /\ Burst >= 2 /\ Bare \in BOOLEAN
    /\ MaxKernel \in Nat /\ MaxFail \in Nat

VARIABLES
    pc,          \* where the actor is
    tokens,      \* the bucket
    want,        \* tokens the batch waits for
    doc,         \* what the last read said of each key: none, bare or lladdr
    handled,     \* entries taken in this batch
    seen,        \* their keys
    back,        \* keys to put back at the end, in order
    lack,        \* entries a sweep has yet to queue
    job,         \* the write in flight: a key, its MAC and the verb
    kernel,      \* the kernel's neighbor table: none, bare, a MAC, or one it learned
    changes, fails,
    \* What the properties remember; no action reads it.
    done         \* the last claim of each key that was written or skipped

batch == <<want, handled, seen, back, lack, job>>
budget == <<changes, fails>>
past == <<done>>
vars == <<table, counts, pc, tokens, doc, batch, kernel, budget, past>>

\* A MAC is a model value of the relay's ACKs; these are the kernel's own.
Learned == "learned"
NoMac == {"none", "bare"}
Document == [k \in Keys |-> IF kernel[k] \in NoMac THEN kernel[k] ELSE "lladdr"]
NoDocument == [k \in Keys |-> "none"]
NoJob == [verb |-> "none"]

Init ==
    /\ TableInit
    /\ pc = "step" /\ tokens = Burst /\ want = 0
    /\ kernel = [k \in Keys |-> "none"] /\ doc = NoDocument
    /\ handled = 0 /\ seen = {} /\ back = <<>> /\ lack = {} /\ job = NoJob
    /\ changes = 0 /\ fails = 0 /\ done = mac

-----------------------------------------------------------------------------
(* What goes on beside the actor.                                          *)

Relay ==
    /\ \/ \E k \in Keys, m \in Macs : Claim(k, m)
       \/ \E r \in Rows : Notify(r)
    /\ UNCHANGED <<pc, tokens, doc, batch, kernel, budget, past>>

Clock == \E k \in Keys :
    LeaseEnds(k) /\ UNCHANGED <<pc, tokens, doc, batch, kernel, budget, past>>

Refill ==
    /\ tokens < Burst
    /\ tokens' = tokens + 1
    /\ UNCHANGED <<table, counts, pc, doc, batch, kernel, budget, past>>

\* The kernel learns a neighbor's MAC, loses one, or keeps an entry without.
KernelChanges(k, e) ==
    /\ changes < MaxKernel /\ kernel[k] # e
    /\ e \in {"none", Learned} \union (IF Bare THEN {"bare"} ELSE {})
    /\ changes' = changes + 1
    /\ kernel' = [kernel EXCEPT ![k] = e]
    /\ UNCHANGED <<table, counts, pc, tokens, doc, batch, fails, past>>

-----------------------------------------------------------------------------
(* step(), and the sleep of run() when nothing is dirty.                   *)

Goto(l) == pc' = l

\* 1 + min(dirty_depth, B - 1)
Reserve(depth) == 1 + (IF depth < Burst - 1 THEN depth ELSE Burst - 1)

BatchStart ==
    /\ pc \in {"step", "batch"}
    /\ IF dirty = {} THEN Goto("sleep") /\ UNCHANGED want
       ELSE /\ want' = Reserve(Cardinality(dirty))
            /\ Goto("reserve")
    /\ UNCHANGED <<table, counts, tokens, doc, handled, seen, back, lack, job, kernel, budget,
                   past>>

\* Mutant: the permit is thrown away before the sleep.
WakeForgetful == permit /\ pc = "sleep" /\ permit' = FALSE /\ Goto("sleep")

Wake == permit /\ pc = "sleep" /\ permit' = FALSE /\ Goto("step")

WakeUp ==
    /\ Wake
    /\ UNCHANGED <<held, mac, over, dirty, queue, owing, counts, tokens, doc, batch,
                   kernel, budget, past>>

\* The sweep is due, at a step or in the sleep: expired entries go first, so
\* even a sweep that cannot read frees their slots.
SweepStart ==
    /\ pc \in {"step", "sleep"}
    /\ RemoveExpired
    /\ want' = 1
    /\ Goto("sweep")
    /\ UNCHANGED <<mac, queue, permit, owing, counts, tokens, doc, handled, seen, back,
                   lack, job, kernel, budget, past>>

-----------------------------------------------------------------------------
(* One fork of `ip neigh show`, paid for when the wait is over.            *)

Spend == tokens >= want /\ tokens' = tokens - 1

\* A failed read takes nothing and queues nothing.
ReadFails ==
    /\ pc \in {"reserve", "sweep"} /\ fails < MaxFail
    /\ Spend
    /\ fails' = fails + 1
    /\ Goto(IF pc = "sweep" THEN "batch" ELSE "step")
    /\ want' = 0
    /\ UNCHANGED <<table, counts, doc, handled, seen, back, lack, job, kernel, changes, past>>

ReadBatch ==
    /\ pc = "reserve"
    /\ Spend
    /\ doc' = Document
    /\ Goto("drain")
    /\ UNCHANGED <<table, counts, batch, kernel, budget, past>>

ReadSweep ==
    /\ pc = "sweep"
    /\ Spend
    /\ doc' = Document
    /\ Goto("list")
    /\ UNCHANGED <<table, counts, batch, kernel, budget, past>>

\* Mutant: the sweep only looks for entries that are not there at all.
MissingAbsent(k) == doc[k] = "none"

\* The sweep's diff: entries the document has no lladdr for.
Missing(k) == doc[k] \in NoMac

ListEntries ==
    /\ pc = "list"
    /\ lack' = {k \in held : Missing(k)}
    /\ Goto("diff")
    /\ UNCHANGED <<table, counts, tokens, doc, want, handled, seen, back, job, kernel, budget,
                   past>>

-----------------------------------------------------------------------------
(* The drain: at most B - 1 entries, one write each.                       *)

SeenBefore(k) == k \in seen

\* What is done with the entry that was taken.
Handle(k) ==
    /\ handled' = handled + 1 /\ seen' = seen \union {k}
    /\ IF SeenBefore(k)
       THEN back' = Append(back, k) /\ UNCHANGED <<pc, tokens, job, done>>
       ELSE IF doc[k] = "lladdr"
       THEN done' = [done EXCEPT ![k] = mac[k]] /\ UNCHANGED <<pc, tokens, job, back>>
       ELSE IF tokens = 0
       THEN /\ back' = Append(back, k) /\ Goto("back")
            /\ UNCHANGED <<tokens, job, done>>
       ELSE /\ tokens' = tokens - 1
            /\ job' = [verb |-> IF doc[k] = "none" THEN "add" ELSE "replace",
                       key |-> k, mac |-> mac[k]]
            /\ Goto("write")
            /\ UNCHANGED <<back, done>>

Drain(i) ==
    /\ pc = "drain" /\ handled < Burst - 1
    /\ TakeAt(i)
    /\ Handle(queue[i])
    /\ UNCHANGED <<mac, permit, owing, counts, want, lack, doc, kernel, budget>>

DrainEnds ==
    /\ pc = "drain"
    /\ \/ handled = Burst - 1 /\ UNCHANGED <<held, over, dirty, queue>>
       \/ handled < Burst - 1 /\ TakeNone
    /\ Goto("back")
    /\ UNCHANGED <<mac, permit, owing, counts, tokens, doc, batch, kernel, budget, past>>

\* `add` is create-only, `replace` is not.
VerbWorks(k) == job.verb = "add" => kernel[k] = "none"

Write ==
    /\ pc = "write" /\ VerbWorks(job.key)
    /\ kernel' = [kernel EXCEPT ![job.key] = job.mac]
    /\ done' = [done EXCEPT ![job.key] = job.mac]
    /\ job' = NoJob
    /\ Goto("drain")
    /\ UNCHANGED <<table, counts, tokens, doc, want, handled, seen, back, lack, budget>>

\* EEXIST, or any other failure; a child killed at its deadline may have written.
WriteFails ==
    /\ pc = "write"
    /\ \/ ~VerbWorks(job.key) /\ UNCHANGED <<kernel, fails>>
       \/ /\ fails < MaxFail /\ fails' = fails + 1
          /\ \/ UNCHANGED kernel
             \/ VerbWorks(job.key) /\ kernel' = [kernel EXCEPT ![job.key] = job.mac]
    /\ back' = Append(back, job.key)
    /\ job' = NoJob
    /\ Goto("drain")
    /\ UNCHANGED <<table, counts, tokens, doc, want, handled, seen, lack, changes, past>>

\* What was not written goes back, one lock at a time ...
PutBack ==
    /\ pc = "back" /\ back # <<>>
    /\ ReDirty(Head(back))
    /\ back' = Tail(back)
    /\ UNCHANGED <<mac, owing, counts, pc, tokens, doc, want, handled, seen, lack, job, kernel,
                   budget, past>>

\* ... and so does what the sweep misses, in the order of the table.
SweepDirties(k) ==
    /\ pc = "diff" /\ k \in lack
    /\ ReDirty(k)
    /\ lack' = lack \ {k}
    /\ UNCHANGED <<mac, owing, counts, pc, tokens, doc, want, handled, seen, back, job, kernel,
                   budget, past>>

\* The batch's locals go. After a sweep the next one is 15 s away.
Finish ==
    /\ pc \in {"back", "diff"} /\ back = <<>> /\ lack = {}
    /\ Goto(IF pc = "diff" THEN "batch" ELSE "step")
    /\ want' = 0 /\ handled' = 0 /\ seen' = {} /\ doc' = NoDocument
    /\ UNCHANGED <<table, counts, tokens, back, lack, job, kernel, budget, done>>

-----------------------------------------------------------------------------
Actor ==
    \/ BatchStart \/ WakeUp \/ SweepStart \/ ReadFails \/ ReadBatch \/ ReadSweep \/ ListEntries
    \/ (\E i \in DOMAIN queue : Drain(i)) \/ DrainEnds \/ Write \/ WriteFails \/ PutBack
    \/ (\E k \in Keys : SweepDirties(k)) \/ Finish

Next ==
    \/ Relay \/ Clock \/ Refill \/ Actor
    \/ \E k \in Keys, e \in {"none", "bare", Learned} : KernelChanges(k, e)

\* The actor is a task of its own, the bucket refills with the clock. That a relay
\* goes on to notify is not assumed: the sweep would find the entry as well.
Spec == Init /\ [][Next]_vars /\ WF_vars(Actor) /\ WF_vars(Refill)

-----------------------------------------------------------------------------
PCs == {"step", "batch", "sleep", "reserve", "drain", "write", "back", "sweep",
        "list", "diff"}
Jobs == [verb : {"add", "replace"}, key : Keys, mac : Macs]

TableOK ==
    /\ held \subseteq Keys /\ over \subseteq held /\ dirty \subseteq held
    /\ mac \in [Keys -> Macs] /\ queue \in Seq(Keys) /\ permit \in BOOLEAN
    /\ owing \subseteq Rows
    /\ claims \in 0..MaxClaim /\ overs \in 0..MaxOver
ActorOK ==
    /\ pc \in PCs /\ tokens \in 0..Burst /\ want \in 0..Burst
    /\ doc \in [Keys -> {"none", "bare", "lladdr"}]
    /\ handled \in 0..(Burst - 1) /\ seen \subseteq Keys /\ back \in Seq(Keys)
    /\ lack \subseteq Keys /\ job \in {NoJob} \union Jobs
KernelOK ==
    /\ kernel \in [Keys -> {"none", "bare", Learned} \union Macs]
    /\ changes \in 0..MaxKernel /\ fails \in 0..MaxFail
    /\ done \in [Keys -> Macs]

\* Every variable keeps its type; the bucket neither underflows nor banks more
\* than its burst, and a batch never waits for more than the bucket can hold.
TypeOK == TableOK /\ ActorOK /\ KernelOK

\* upsert()'s cap: no sequence of claims, expiries and put-backs lets a row hold
\* more than C, which is what MIN_LEASE is derived against.
RowWithinCap == \A r \in Rows : RowLen(r) <= Cap

\* Every dirty entry is in the queue, so dirty_depth() never asks for a batch
\* that finds nothing to take, again and again.
QueueCoversDirty == dirty \subseteq {queue[i] : i \in DOMAIN queue}

\* run() and upsert(): the actor never sleeps on a dirty entry unless a permit is
\* stored or a relay is about to store one, wherever a claim falls between its
\* depth check and its sleep.
NoLostWakeup == pc = "sleep" /\ dirty # {} => permit \/ owing # {}

InFlight(k) ==
    \/ \E i \in DOMAIN back : back[i] = k
    \/ job # NoJob /\ job.key = k

\* No claim is lost: an entry that is neither queued nor in the actor's hands
\* had its last claim written, or skipped because the kernel knew better; a claim
\* that arrives during the write of an older one does not count as written.
NoLostClaim ==
    \A k \in held : k \in dirty \/ InFlight(k) \/ done[k] = mac[k]

\* Re-claiming faster than the actor drains does not grow the queue: a key is
\* in it once, and once more for every lease that ran out while the key was queued
\* (expiry frees the slot and leaves the key, which a new claim queues again).
QueueBounded == \A k \in Keys : Cardinality({i \in DOMAIN queue : queue[i] = k}) <= 1 + overs

\* What the relay hands to the actor arrives, and only that: no wakeup and no claim is
\* lost between upsert(), take_dirty() and the write, and no re-claim floods the queue.
HandoverSound == NoLostWakeup /\ NoLostClaim /\ QueueBounded

\* One write per address and read: a write is never classified by a document
\* that the same batch has already outdated.
OneWritePerRead ==
    [][\A k \in Keys : pc = "drain" /\ pc' = "write" /\ job'.key = k => k \notin seen]_vars

\* The sweep restores what the kernel lost: as long as its lease runs, a claimed
\* address gets an lladdr in the kernel.
Restored == \A k \in Keys : k \in held ~> (k \notin held \/ kernel[k] \notin NoMac)
=============================================================================
