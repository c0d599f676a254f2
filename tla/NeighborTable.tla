--------------------------- MODULE NeighborTable ---------------------------
(***************************************************************************)
(* The neighbor write table: what relayed DHCPACKs claim, for how long,    *)
(* and how many claims a row may hold.  Relay tasks upsert, the flush      *)
(* actor takes, puts back and reaps.  Each operation runs whole under one  *)
(* mutex and is one action; only the wakeup after an upsert comes after    *)
(* the unlock and is an action of its own.                                 *)
(*                                                                         *)
(* A key is a row and an address.  Of an expiry instant the table only     *)
(* asks whether it has passed; `over` holds the keys for which it has.     *)
(***************************************************************************)
EXTENDS Naturals, Sequences, FiniteSets

CONSTANTS
    Keys,        \* every (row, address) pair
    RowOf,       \* the workload row of each key
    Macs,        \* MACs that ACKs claim
    Cap,         \* C: the most entries a row may hold
    MaxClaim,    \* bound: ACKs relayed
    MaxOver      \* bound: leases that run out

Rows == {RowOf[k] : k \in Keys}

ASSUME TableAssumption ==
    /\ IsFiniteSet(Keys) /\ RowOf \in [Keys -> STRING]
    /\ Macs # {} /\ Cap \in Nat /\ MaxClaim \in Nat /\ MaxOver \in Nat

VARIABLES
    held,        \* keys with an entry
    mac,         \* the MAC the last ACK of each key claimed
    over,        \* entries whose lease has run out
    dirty,       \* entries queued for the actor
    queue,       \* the dirty queue; keys of removed entries stay in it
    permit,      \* the stored permit of the Notify
    owing,       \* rows whose relay has unlocked and not yet notified
    claims, overs

table == <<held, mac, over, dirty, queue, permit, owing>>
counts == <<claims, overs>>

TableInit ==
    /\ held = {} /\ mac \in [Keys -> Macs] /\ over = {} /\ dirty = {}
    /\ \A k, l \in Keys : mac[k] = mac[l]
    /\ queue = <<>> /\ permit = FALSE /\ owing = {}
    /\ claims = 0 /\ overs = 0

RowLen(r) == Cardinality({k \in held : RowOf[k] = r})

Admits(r) == RowLen(r) < Cap

\* Mutant: a claim on a queued entry is queued again.
EnqueueAlways(k) == dirty' = dirty \union {k} /\ queue' = Append(queue, k)

\* An entry that is already dirty keeps its place.
Enqueue(k) ==
    /\ dirty' = dirty \union {k}
    /\ queue' = IF k \in dirty THEN queue ELSE Append(queue, k)

\* upsert(), up to the unlock; a row has one relay task. The cap is checked for a
\* new key only; a refused claim changes nothing but a counter.
Claim(k, m) ==
    /\ claims < MaxClaim /\ RowOf[k] \notin owing
    /\ claims' = claims + 1
    /\ UNCHANGED overs
    /\ IF k \in held \/ Admits(RowOf[k])
       THEN /\ held' = held \union {k} /\ over' = over \ {k}
            /\ mac' = [mac EXCEPT ![k] = m]
            /\ Enqueue(k)
            /\ owing' = owing \union {RowOf[k]}
            /\ UNCHANGED permit
       ELSE UNCHANGED table

\* The notify_one() after it.
Notify(r) ==
    /\ r \in owing
    /\ owing' = owing \ {r} /\ permit' = TRUE
    /\ UNCHANGED <<held, mac, over, dirty, queue, counts>>

\* The clock passes an entry's expiry; nothing is done about it yet.
LeaseEnds(k) ==
    /\ overs < MaxOver /\ k \in held \ over
    /\ overs' = overs + 1
    /\ over' = over \union {k}
    /\ UNCHANGED <<held, mac, dirty, queue, permit, owing, claims>>

\* Entries leave the table; their keys stay in the queue.
Drop(ks) == held' = held \ ks /\ over' = over \ ks /\ dirty' = dirty \ ks

\* Mutant: what could not be written is not queued again.
ReDirtyNot(k) == Drop({k} \intersect over) /\ UNCHANGED <<queue, permit>>

\* re_dirty(): expiry wins over the retry (a lease that ended since the caller read
\* its clock does not count), and a place already held is kept.
ReDirty(k) ==
    \/ k \in over /\ Drop({k}) /\ UNCHANGED <<queue, permit>>
    \/ k \notin held /\ UNCHANGED <<held, over, dirty, queue, permit>>
    \/ /\ k \in held
       /\ Enqueue(k)
       /\ permit' = (permit \/ k \notin dirty)
       /\ UNCHANGED <<held, over>>

\* take_next_dirty(): walks past stale keys and drops expired entries.
Ready(i) == queue[i] \in dirty \ over

TakeAt(i) ==
    /\ i \in DOMAIN queue /\ Ready(i) /\ \A j \in 1..(i - 1) : ~Ready(j)
    /\ LET gone == {queue[j] : j \in 1..(i - 1)} \intersect (dirty \intersect over)
       IN  held' = held \ gone /\ over' = over \ gone
                   /\ dirty' = dirty \ (gone \union {queue[i]})
    /\ queue' = SubSeq(queue, i + 1, Len(queue))

TakeNone ==
    /\ \A i \in DOMAIN queue : ~Ready(i)
    /\ Drop({queue[j] : j \in DOMAIN queue} \intersect (dirty \intersect over))
    /\ queue' = <<>>

RemoveExpired == Drop(over)
=============================================================================
