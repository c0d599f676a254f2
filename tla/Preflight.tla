----------------------------- MODULE Preflight ------------------------------
(***************************************************************************)
(* What `cfab check` says of a host, and what apply then does with the     *)
(* same rows (src/commands/check.rs, src/commands/apply.rs pass 1,         *)
(* src/workload/uplink.rs): two verbs that read the host's bridges fact by *)
(* fact, in two orders, and answer in different words: check refuses and   *)
(* warns, apply refuses and defers.                                        *)
(*                                                                         *)
(* The host is not locked meanwhile: a bridge may appear, go or change     *)
(* between any two reads, and a probe may fail to run.                     *)
(***************************************************************************)
EXTENDS Naturals, Sequences

CONSTANTS PfRows,       \* the member's [[workload]] rows, a bridge each
          MaxPfUpsets   \* bound: changes of the host and probes that do not run

ASSUME PreflightAssumption == MaxPfUpsets \in Nat

\* What a row needs: the bridge is there, it is vlan-aware, a port of it leaves the host,
\* every such port forwards, no other netdev has the pair of bridge and vid, and no such port
\* carries the vid.
Facts == {"present", "aware", "uplink", "forwarding", "unheld", "local"}

\* Of a bridge that is gone no netdev has the vid, and a port that was its own may not either.
NoBridge == {{"unheld"}, {"unheld", "local"}}

VARIABLES
    holds,    \* [PfRows -> SUBSET Facts] of the host, now
    verb,     \* what runs: none, check or apply, and its loop
    unseen,   \* the rows that loop has still to visit
    atRow,    \* the row being read (a set of at most one)
    probe,    \* the place in its reads
    said,     \* of check and of apply: nothing, "ok" or "refused"
    warned,   \* the rows check warned about
    deferred, \* the rows apply deferred ...
    ready,    \* ... and those it goes on to build
    steady,   \* {"check"}: no upset since the last check began; {"apply"}: since the apply did
    pfUpsets  \* upsets so far

pfVars == <<holds, verb, unseen, atRow, probe, said, warned, deferred, ready, steady, pfUpsets>>

PreflightInit ==
    /\ holds \in [PfRows -> NoBridge \cup {Facts, Facts \ {"aware"}, Facts \ {"local"}}]
    /\ verb = "none" /\ unseen = {} /\ atRow = {} /\ probe = 0
    /\ said = [check |-> "nothing", apply |-> "nothing"]
    /\ warned = {} /\ deferred = {} /\ ready = {} /\ steady = {} /\ pfUpsets = 0

\* The reads of a row, in the order of the code: host_preflight's, host_warnings' and pass 1's.
PreflightReads == <<"present", "aware">>
WarningReads   == <<"present", "uplink", "local">>

\* Mistake: check warns of the vid on the uplink, apply does not look.
PassReadsUnlooked == <<"present", "uplink", "forwarding", "unheld">>

PassReads == <<"present", "uplink", "forwarding", "unheld", "local">>

\* Mistake: check leaves the refusal to apply.
ReadsUnaware ==
    CASE verb = "check-preflight" -> <<"present">>
      [] verb = "apply-preflight" -> PreflightReads
      [] verb = "check-warnings"  -> WarningReads
      [] OTHER                    -> PassReads

FactReads ==
    CASE verb \in {"check-preflight", "apply-preflight"} -> PreflightReads
      [] verb = "check-warnings"                         -> WarningReads
      [] OTHER                                           -> PassReads

Answer(f) == \A r \in atRow : f \in holds[r]

-----------------------------------------------------------------------------

\* check writes the file's report and its line on the host first, whatever comes after.
CheckStarts ==
    /\ verb = "none" /\ verb' = "check-preflight" /\ unseen' = PfRows
    /\ said' = [check |-> "nothing", apply |-> "nothing"]
    /\ warned' = {} /\ deferred' = {} /\ ready' = {} /\ steady' = {"check"}
    /\ UNCHANGED <<holds, atRow, probe, pfUpsets>>

\* On a host that is no member of the fabric there is nothing more to say.
CheckNoMember ==
    /\ verb = "check-preflight" /\ unseen = PfRows /\ atRow = {}
    /\ verb' = "none" /\ unseen' = {} /\ steady' = {}
    /\ UNCHANGED <<holds, atRow, probe, said, warned, deferred, ready, pfUpsets>>

ApplyStarts ==
    /\ verb = "none" /\ verb' = "apply-preflight" /\ unseen' = PfRows
    /\ said' = [said EXCEPT !.apply = "nothing"]
    /\ deferred' = {} /\ ready' = {} /\ steady' = steady \cup {"apply"}
    /\ UNCHANGED <<holds, atRow, probe, warned, pfUpsets>>

TakeRow(r) ==
    /\ atRow = {} /\ r \in unseen
    /\ atRow' = {r} /\ unseen' = unseen \ {r} /\ probe' = 1
    /\ UNCHANGED <<holds, verb, said, warned, deferred, ready, steady, pfUpsets>>

NextRow == atRow' = {} /\ probe' = 0

\* A read that finds what the row needs; after the last one pass 1 takes the row as ready.
Finds ==
    /\ atRow # {} /\ Answer(FactReads[probe])
    /\ IF probe < Len(FactReads)
       THEN probe' = probe + 1 /\ UNCHANGED <<atRow, ready>>
       ELSE NextRow /\ ready' = IF verb = "apply-pass" THEN ready \cup atRow ELSE ready
    /\ UNCHANGED <<holds, verb, unseen, said, warned, deferred, steady, pfUpsets>>

\* The verb whose preflight this is.
Verb == IF verb = "check-preflight" THEN "check" ELSE "apply"

Refuse ==
    /\ verb' = "none" /\ unseen' = {} /\ NextRow
    /\ said' = [said EXCEPT ![Verb] = "refused"]
    /\ UNCHANGED <<warned, deferred, ready>>

Skip == NextRow /\ UNCHANGED <<verb, unseen, said, warned, deferred, ready>>

\* A read that does not.  host_preflight passes over a bridge that is not there and refuses one
\* that is not vlan-aware; host_warnings warns of the vid and is silent of the rest; pass 1
\* defers the row whatever the fact.
Lacks(f) ==
    \/ verb \in {"check-preflight", "apply-preflight"} /\ f = "present" /\ Skip
    \/ verb \in {"check-preflight", "apply-preflight"} /\ f = "aware" /\ Refuse
    \/ verb = "check-warnings" /\ f # "local" /\ Skip
    \/ /\ verb = "check-warnings" /\ f = "local" /\ warned' = warned \cup atRow
       /\ NextRow /\ UNCHANGED <<verb, unseen, said, deferred, ready>>
    \/ /\ verb = "apply-pass" /\ deferred' = deferred \cup atRow
       /\ NextRow /\ UNCHANGED <<verb, unseen, said, warned, ready>>

Misses ==
    /\ atRow # {} /\ ~Answer(FactReads[probe]) /\ Lacks(FactReads[probe])
    /\ UNCHANGED <<holds, steady, pfUpsets>>

\* The loop has seen every row.
LoopEnds ==
    /\ atRow = {} /\ unseen = {}
    /\ \/ verb = "check-preflight" /\ verb' = "check-warnings" /\ unseen' = PfRows /\ UNCHANGED said
       \/ verb = "apply-preflight" /\ verb' = "apply-pass" /\ unseen' = PfRows /\ UNCHANGED said
       \/ /\ verb = "check-warnings" /\ verb' = "none" /\ said' = [said EXCEPT !.check = "ok"]
          /\ UNCHANGED unseen
       \/ /\ verb = "apply-pass" /\ verb' = "none" /\ said' = [said EXCEPT !.apply = "ok"]
          /\ UNCHANGED unseen
    /\ UNCHANGED <<holds, atRow, probe, warned, deferred, ready, steady, pfUpsets>>

-----------------------------------------------------------------------------

PfUpset == pfUpsets < MaxPfUpsets /\ pfUpsets' = pfUpsets + 1 /\ steady' = {}

\* The host's own tools at work on a bridge: it goes, it comes without uplink, or one fact of
\* it changes.
HostChanges(r) ==
    /\ PfUpset
    /\ \/ "present" \in holds[r] /\ \E fs \in NoBridge : holds' = [holds EXCEPT ![r] = fs]
       \/ /\ "present" \notin holds[r]
          /\ \E fs \in {{}, {"aware"}} :
                holds' = [holds EXCEPT ![r] = {"present", "unheld", "local"} \cup fs]
       \/ /\ "present" \in holds[r]
          /\ \E f \in Facts \ {"present"} :
                holds' = [holds EXCEPT ![r] = IF f \in @ THEN @ \ {f} ELSE @ \cup {f}]
    /\ UNCHANGED <<verb, unseen, atRow, probe, said, warned, deferred, ready>>

\* A command that fails, or a file that cannot be read, is never taken for a clean
\* answer.  (Output of `bridge -j` that does not parse is: parse_vids finds no vid in
\* it.  No bridge of the model prints such.)
ProbeFails ==
    /\ PfUpset /\ atRow # {} /\ Answer(FactReads[probe])
    /\ Lacks(FactReads[probe])
    /\ UNCHANGED holds

PreflightNext ==
    \/ CheckStarts \/ CheckNoMember \/ ApplyStarts \/ Finds \/ Misses \/ LoopEnds \/ ProbeFails
    \/ \E r \in PfRows : TakeRow(r) \/ HostChanges(r)

PreflightSpec == PreflightInit /\ [][PreflightNext]_pfVars

-----------------------------------------------------------------------------
(* Properties. *)

\* Every variable ranges over what the two verbs read and say.
PreflightTypeOK ==
    /\ holds \in [PfRows -> SUBSET Facts]
    /\ verb \in {"none", "check-preflight", "check-warnings", "apply-preflight", "apply-pass"}
    /\ unseen \subseteq PfRows /\ atRow \subseteq PfRows /\ probe \in 0..5
    /\ said \in [check : {"nothing", "ok", "refused"}, apply : {"nothing", "ok", "refused"}]
    /\ warned \subseteq PfRows /\ deferred \subseteq PfRows /\ ready \subseteq PfRows
    /\ steady \subseteq {"check", "apply"} /\ pfUpsets \in 0..MaxPfUpsets

\* What check says is what apply does on a host that has not changed since, though the two read
\* in different orders and words: apply refuses if and only if check refused, and defers every
\* row check warned that up defers.
SameVerdict ==
    "check" \in steady /\ said.check # "nothing" /\ said.apply # "nothing" =>
        said.apply = said.check /\ (said.apply = "ok" => warned \subseteq deferred)

\* Whatever the host does meanwhile, an apply that goes on has each row either ready or left to
\* the watchdog, never both or neither; and if the host stood still, the ready rows are those
\* that have everything a row needs, and only a bridge that is there and not vlan-aware is a
\* reason to refuse.
EachRowPlaced ==
    /\ said.apply = "ok" => ready \cup deferred = PfRows /\ ready \cap deferred = {}
    /\ "apply" \in steady /\ said.apply = "ok" => ready = {r \in PfRows : holds[r] = Facts}
    /\ "apply" \in steady /\ said.apply = "refused" =>
           \E r \in PfRows : "present" \in holds[r] /\ "aware" \notin holds[r]

\* Three readings of the same bridges (check, the refusals of apply, its pass over the rows)
\* and one verdict: the verbs agree with each other and with the host.
VerbsAgree == SameVerdict /\ EachRowPlaced

=============================================================================
