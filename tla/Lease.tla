------------------------------- MODULE Lease -------------------------------
(***************************************************************************)
(* The cluster lock (src/cluster.rs, Pmxcfs::lock and LockGuard::release)  *)
(* as the lease of `cfab measure-cap` (src/commands/measure_cap.rs): a     *)
(* directory of pmxcfs that nobody's process holds, that any member may    *)
(* have removed once it is older than its expiry, and that its owner       *)
(* removes by name.  Time is counted in LOCK_RETRY_PAUSEs.                 *)
(***************************************************************************)
EXTENDS Integers

CONSTANTS Measurers,       \* members that may measure
          LockAttempts,    \* LOCK_RETRY_ATTEMPTS
          FloodLen,        \* length of a flood
          LockExpiry,      \* LOCK_EXPIRY
          MaxLeaseFaults   \* bound: measurements, deaths and refused writes

ASSUME LeaseAssumption ==
    /\ LockAttempts \in Nat \ {0} /\ LockExpiry \in Nat /\ FloodLen \in 1..LockExpiry
    /\ MaxLeaseFaults \in Nat

NoLock == -1

VARIABLES
    lockAge,   \* age of the directory, or NoLock
    flood,     \* [Measurers -> [at, left]] place, and attempts or time left
    losses     \* measurements, deaths and refused writes so far

leaseVars == <<lockAge, flood, losses>>

Loss == losses < MaxLeaseFaults /\ losses' = losses + 1
NoLoss == losses' = losses

At(m, place, n) == flood' = [flood EXCEPT ![m] = [at |-> place, left |-> n]]

LeaseInit ==
    /\ lockAge = NoLock /\ losses = 0
    /\ flood = [m \in Measurers |-> [at |-> "idle", left |-> 0]]

\* A wire without a shaper may be measured: the lease is asked for.
MeasureStart(m) ==
    /\ flood[m].at = "idle" /\ Loss
    /\ At(m, "mkdir", LockAttempts)
    /\ UNCHANGED lockAge

\* Pmxcfs::lock: mkdir is the lock ...
LockMkdir(m) ==
    /\ flood[m].at = "mkdir"
    /\ IF lockAge = NoLock
       THEN lockAge' = 0 /\ At(m, "flood", FloodLen)
       ELSE lockAge' = lockAge /\ At(m, "look", flood[m].left)
    /\ NoLoss

\* Mistake: a stale lock is taken over as it is.
LockLookSeizes(m) ==
    /\ flood[m].at = "look"
    /\ IF lockAge > LockExpiry THEN At(m, "flood", FloodLen) ELSE At(m, "pause", flood[m].left - 1)
    /\ NoLoss
    /\ UNCHANGED lockAge

\* ... one that exists is looked at (and may be gone, or another, by now) ...
LockLook(m) ==
    /\ flood[m].at = "look"
    /\ At(m, IF lockAge > LockExpiry THEN "touch" ELSE "pause", flood[m].left - 1)
    /\ NoLoss
    /\ UNCHANGED lockAge

\* pmxcfs takes a touch to time 0 for a request to unlock, and removes a lock
\* that has expired.
Unlocked(age) == IF age > LockExpiry THEN NoLock ELSE age

\* ... and when it was stale, the request is made.
LockTouch(m) ==
    /\ flood[m].at = "touch"
    /\ lockAge' = Unlocked(lockAge)
    /\ At(m, "pause", flood[m].left)
    /\ NoLoss

\* The attempts are used up, or pmxcfs refuses writes.
LockFails(m) ==
    /\ flood[m].at \in {"mkdir", "pause"}
    /\ IF flood[m].at = "pause" THEN flood[m].left = 0 /\ NoLoss ELSE Loss
    /\ At(m, "idle", 0)
    /\ UNCHANGED lockAge

\* The lease is released after the flood, also after one that failed: the
\* directory goes, whose ever it is by then.
LockRelease(m, ok) ==
    /\ flood[m].at = "flood"
    /\ IF flood[m].left = 0 /\ ok THEN NoLoss ELSE Loss
    /\ lockAge' = IF ok THEN NoLock ELSE lockAge
    /\ At(m, "idle", 0)

\* A measurer dies; its lease stays.
MeasurerDies(m) ==
    /\ flood[m].at # "idle" /\ Loss
    /\ At(m, "idle", 0)
    /\ UNCHANGED lockAge

\* A pause goes by.  A flood that is over is released before.
LeaseElapse ==
    /\ \A m \in Measurers : flood[m].at \in {"flood", "pause"} => flood[m].left > 0
    /\ lockAge' = IF lockAge \in {NoLock, LockExpiry + 1} THEN lockAge ELSE lockAge + 1
    /\ flood' = [m \in Measurers |->
          CASE flood[m].at = "pause" -> [flood[m] EXCEPT !.at = "mkdir"]
            [] flood[m].at = "flood" -> [flood[m] EXCEPT !.left = @ - 1]
            [] OTHER -> flood[m]]
    /\ NoLoss

LeaseNext ==
    \/ LeaseElapse
    \/ \E m \in Measurers :
          \/ MeasureStart(m) \/ LockMkdir(m) \/ LockLook(m) \/ LockTouch(m) \/ LockFails(m)
          \/ MeasurerDies(m) \/ LockRelease(m, TRUE) \/ LockRelease(m, FALSE)

LeaseSpec == LeaseInit /\ [][LeaseNext]_leaseVars

-----------------------------------------------------------------------------
(* Properties.                                                             *)

LeaseTypeOK ==
    /\ lockAge \in NoLock..(LockExpiry + 1)
    /\ flood \in [Measurers -> [at : {"idle", "mkdir", "look", "touch", "pause", "flood"},
                               left : Nat]]
    /\ losses \in 0..MaxLeaseFaults

\* measure_cap.rs: "one flood at a time cluster-wide": through holders that die,
\* members that reclaim the same stale lease at once and releases that fail,
\* provided no flood outlasts the expiry of its lease and none is released late.
OneFlood == \A m, n \in Measurers : flood[m].at = "flood" /\ flood[n].at = "flood" => m = n
=============================================================================
