---------------------------- MODULE WorkloadLegs ----------------------------
(***************************************************************************)
(* The workload rows of one host: the leg on the declared bridge, the      *)
(* bridge's own vid and the record of who added it, the bridge ARP guard,  *)
(* the anycast gateway address, and the rows apply deferred                *)
(* (src/commands/apply.rs, src/commands/fwd_watchdog.rs restore_workloads, *)
(* src/commands/teardown.rs, src/workload/leg.rs, src/workload/uplink.rs). *)
(*                                                                         *)
(* Every write is a step: a crash, a failing command or a change of the    *)
(* host's bridges may come between any two.                                *)
(***************************************************************************)
EXTENDS Naturals, FiniteSets

CONSTANTS Rows,          \* the member's [[workload]] rows, a bridge each
          Ports,         \* uplink ports a bridge may have
          MaxLegFaults   \* bound: failing commands and changes of the host

ASSUME WorkloadLegsAssumption == Ports # {} /\ MaxLegFaults \in Nat

VARIABLES
    bridge,    \* rows whose bridge exists
    ports,     \* [Rows -> SUBSET Ports] its uplink ports
    fit,       \* rows whose uplink forwards and whose vid nothing else uses
    built,     \* rows whose leg exists
    gw,        \* rows whose leg carries the gateway address
    vid,       \* [Rows -> {"none", "cfab", "lost", "host"}] who put the bridge's
               \* own vid there ("lost": cfab did, and holds no record of it)
    record,    \* rows in workload-self-vid
    loaded,    \* table bridge cfab is loaded ...
    guard,     \* ... and drops ARP for the gateway on these <<row, port>>s
    filed,     \* workload-bridge.nft exists ...
    guardFile, \* ... and says this
    deferredRows, \* rows in workload-deferred
    wat,       \* the step the supervisor is at
    wback,     \* the loop a row is built in
    wrow,      \* the row being built (a set of at most one)
    wtodo,     \* rows the loop has still to visit
    wready,    \* rows found ready in this pass
    wseen,     \* the <<row, port>>s this pass identified
    wpend,     \* the rows the pass takes for deferred
    mode,      \* teardown: "Stop" keeps the legs, "Down" removes them
    wpass,     \* "clean": nothing failed or changed since the pass began
    whits      \* failures and changes so far

host    == <<bridge, ports, fit>>
kernel  == <<built, gw, vid, loaded, guard>>
files   == <<record, filed, guardFile, deferredRows>>
loop    == <<wback, wrow, wtodo>>
found   == <<wready, wseen, wpend, mode>>
legVars == <<host, kernel, files, wat, loop, found, wpass, whits>>

\* uplink::identify_declared over the rows in rs, and bridge_table of it.
Identified(rs) == {rp \in rs \X Ports : rp[2] \in ports[rp[1]]}
Identifiable(r) == ports[r] # {}

\* Every condition a row is deferred for is clear.
RowReady(r) == r \in bridge /\ Identifiable(r) /\ r \in fit

WHit == whits < MaxLegFaults /\ whits' = whits + 1 /\ wpass' = "dirty"
WCalm == whits' = whits /\ wpass' = wpass

LegInit ==
    /\ bridge \in SUBSET Rows
    /\ ports = [r \in Rows |-> IF r \in bridge THEN {CHOOSE p \in Ports : TRUE} ELSE {}]
    /\ fit = Rows
    /\ built = {} /\ gw = {} /\ record = {}
    /\ vid \in [Rows -> {"none", "host"}] /\ \A r \in Rows \ bridge : vid[r] = "none"
    /\ loaded = FALSE /\ guard = {} /\ filed = FALSE /\ guardFile = {}
    /\ deferredRows = {}
    /\ wat = "stopped" /\ wback = "none" /\ wrow = {} /\ wtodo = {}
    /\ wready = {} /\ wseen = {} /\ wpend = {} /\ mode = "Stop"
    /\ wpass = "dirty" /\ whits = 0

-----------------------------------------------------------------------------
(* Building one row: leg::install, then, for the watchdog's                *)
(* build_workload_row, the gateway address.                                *)

\* mk_vlan, prune_addresses and proxy_arp; the gateway address of a leg that
\* is already there is kept.
BuildLeg(r) ==
    /\ wat \in {"a_leg", "w_install", "w_leg"} /\ r \in wtodo
    /\ r \in bridge /\ (wat = "w_leg" => r \notin built)
    /\ built' = built \cup {r}
    /\ wrow' = {r} /\ wback' = wat /\ wtodo' = wtodo \ {r}
    /\ wat' = "vid"
    /\ WCalm
    /\ UNCHANGED <<host, gw, vid, loaded, guard, files, found>>

\* Mistake: a leg that is there is taken to be whole.
CheckLegBlind(r) ==
    /\ wat = "w_leg" /\ r \in wtodo
    /\ r \in built \/ r \notin bridge
    /\ wtodo' = wtodo \ {r}
    /\ WCalm
    /\ UNCHANGED <<host, kernel, files, wat, wrow, wback, found>>

\* A restored row whose leg is there only has its vid looked at; one whose
\* bridge is gone is skipped.
CheckLeg(r) ==
    /\ wat = "w_leg" /\ r \in wtodo
    /\ r \in built \/ r \notin bridge
    /\ wtodo' = wtodo \ {r}
    /\ IF r \in built
       THEN wat' = "vid" /\ wrow' = {r} /\ wback' = "w_vid"
       ELSE wat' = wat /\ UNCHANGED <<wrow, wback>>
    /\ WCalm
    /\ UNCHANGED <<host, kernel, files, found>>

\* Where a row goes once its vid is there: apply adds the address later.
AfterVid ==
    CASE wback = "a_leg" -> wat' = "a_leg"
      [] wback = "w_vid" -> wat' = "w_leg"
      [] OTHER           -> wat' = "addr"

\* ensure_self_vid adds the vid when the bridge lacks it ...
EnsureVid ==
    LET missing == \E r \in wrow : vid[r] = "none"
    IN  /\ wat = "vid" /\ wrow \subseteq bridge
        /\ vid' = [r \in Rows |-> IF r \in wrow /\ missing THEN "cfab" ELSE vid[r]]
        /\ IF missing THEN wat' = "record" ELSE AfterVid
        /\ WCalm
        /\ UNCHANGED <<host, built, gw, loaded, guard, files, loop, found>>

\* ... and then records that it did.
RecordVid ==
    /\ wat = "record"
    /\ record' = record \cup wrow
    /\ AfterVid
    /\ WCalm
    /\ UNCHANGED <<host, kernel, filed, guardFile, deferredRows, loop, found>>

AddAddress ==
    /\ wat = "addr" /\ wrow \subseteq built
    /\ gw' = gw \cup wrow
    /\ wat' = wback
    /\ WCalm
    /\ UNCHANGED <<host, built, vid, loaded, guard, files, loop, found>>

\* A step of the row fails: the vid that was added and not recorded is lost to
\* cfab.  apply gives up; the watchdog leaves the row for its next tick (a row
\* it was installing stays deferred).
Forgotten == [r \in Rows |-> IF wat = "record" /\ r \in wrow THEN "lost" ELSE vid[r]]

RowFails ==
    /\ wat \in {"vid", "record", "addr"}
    /\ IF wat = "record" \/ (wat = "vid" /\ wrow \subseteq bridge)
          \/ (wat = "addr" /\ wrow \subseteq built)
       THEN WHit ELSE WCalm
    /\ vid' = Forgotten
    /\ wat' = CASE wback = "a_leg" -> "failed" [] wback = "w_vid" -> "w_leg" [] OTHER -> wback
    /\ wpend' = IF wback = "w_install" THEN wpend \cup wrow ELSE wpend
    /\ UNCHANGED <<host, built, gw, loaded, guard, files, loop, wready, wseen, mode>>

\* mk_vlan on a bridge that went away since the pass read it.
BuildFails(r) ==
    /\ wat \in {"a_leg", "w_install"} /\ r \in wtodo
    /\ IF r \in bridge THEN WHit ELSE WCalm
    /\ wat' = IF wat = "a_leg" THEN "failed" ELSE wat
    /\ wtodo' = wtodo \ {r}
    /\ wpend' = IF wat = "w_install" THEN wpend \cup {r} ELSE wpend
    /\ UNCHANGED <<host, kernel, files, wback, wrow, wready, wseen, mode>>

-----------------------------------------------------------------------------
(* apply                                                                   *)

\* Pass 1, pure reads: a row that is not ready is deferred; a row whose uplink
\* was identified is guarded even while it is deferred.
WApplyRead ==
    /\ wat \in {"stopped", "left", "refused", "dead", "idle"}
    /\ wready' = {r \in Rows : RowReady(r)}
    /\ wpend' = Rows \ {r \in Rows : RowReady(r)}
    /\ wseen' = Identified(bridge)
    /\ wtodo' = {r \in Rows : RowReady(r)}
    /\ wback' = IF wat = "idle" THEN "again" ELSE "first"
    /\ mode' = IF wat = "idle" THEN "Again" ELSE "First"
    /\ wat' = "a_leg" /\ wpass' = "clean"
    /\ UNCHANGED <<host, kernel, files, wrow, whits>>

WApplyLegsDone ==
    /\ wat = "a_leg" /\ wtodo = {}
    /\ wat' = IF wseen = {} THEN "a_deferred" ELSE "a_file"
    /\ WCalm
    /\ UNCHANGED <<host, kernel, files, loop, found>>

\* Mistake: the address goes live before the guard is looked at.
WApplyGwFirst ==
    /\ wat = "a_file"
    /\ filed' = TRUE /\ guardFile' = wseen /\ gw' = gw \cup (wready \cap built)
    /\ wat' = "a_load"
    /\ WCalm
    /\ UNCHANGED <<host, built, vid, loaded, guard, record, deferredRows, loop, found>>

\* The guard is written to its file and loaded from it, in that order.
WApplyFile ==
    /\ wat = "a_file"
    /\ filed' = TRUE /\ guardFile' = wseen
    /\ wat' = "a_load"
    /\ WCalm
    /\ UNCHANGED <<host, kernel, record, deferredRows, loop, found>>

WApplyLoad ==
    /\ wat = "a_load"
    /\ loaded' = TRUE /\ guard' = wseen
    /\ wat' = "a_deferred"
    /\ WCalm
    /\ UNCHANGED <<host, built, gw, vid, files, loop, found>>

WApplyDeferred ==
    /\ wat = "a_deferred"
    /\ deferredRows' = wpend
    /\ wat' = "a_gw" /\ wtodo' = wready
    /\ WCalm
    /\ UNCHANGED <<host, kernel, record, filed, guardFile, wback, wrow, found>>

WApplyGw(r) ==
    /\ wat = "a_gw" /\ r \in wtodo /\ r \in built
    /\ gw' = gw \cup {r} /\ wtodo' = wtodo \ {r}
    /\ WCalm
    /\ UNCHANGED <<host, built, vid, loaded, guard, files, wat, wback, wrow, found>>

WApplyDone ==
    /\ wat = "a_gw" /\ wtodo = {}
    /\ wat' = "idle"
    /\ WCalm
    /\ UNCHANGED <<host, kernel, files, loop, found>>

\* A command of apply fails, a leg went away under it, or `nft -f` does.
WApplyBreaks ==
    /\ wat \in {"a_file", "a_load", "a_deferred", "a_gw"}
    /\ IF wat = "a_gw" /\ ~(wtodo \subseteq built) THEN WCalm ELSE WHit
    /\ wat' = "failed"
    /\ UNCHANGED <<host, kernel, files, loop, found>>

\* The first apply of a supervisor ends it; a later one leaves it running.
WApplyFailed ==
    /\ wat = "failed"
    /\ wat' = IF mode = "First" THEN "refused" ELSE "idle"
    /\ wpass' = "dirty" /\ whits' = whits
    /\ wtodo' = {}
    /\ UNCHANGED <<host, kernel, files, wback, wrow, found>>

-----------------------------------------------------------------------------
(* The watchdog's restore_workloads.                                       *)

\* A table that is gone is loaded from the file; a failure is reported and the
\* tick goes on.
WTickTable(ok) ==
    /\ wat = "idle"
    /\ ok \/ (~loaded /\ filed)
    /\ IF ok THEN whits' = whits /\ wpass' = "clean"
       ELSE whits < MaxLegFaults /\ whits' = whits + 1 /\ wpass' = "dirty"
    /\ loaded' = (loaded \/ (ok /\ filed))
    /\ guard' = IF ~loaded /\ ok /\ filed THEN guardFile ELSE guard
    /\ wpend' = deferredRows
    /\ wat' = "w_identify"
    /\ UNCHANGED <<host, built, gw, vid, files, loop, wready, wseen, mode>>

\* reconcile_workload_guard: every declared row is identified first, and any
\* failure changes nothing this tick; a guard file that already says what was
\* found is taken to be loaded.
WTickIdentify ==
    LET ready == {r \in wpend : RowReady(r)}
        all   == \A r \in Rows : Identifiable(r)
    IN  /\ wat = "w_identify"
        /\ wready' = ready
        /\ wseen' = Identified(Rows)
        /\ wtodo' = IF all THEN ready ELSE {}
        /\ wpend' = IF all THEN wpend \ ready ELSE wpend
        /\ wat' = IF ~all \/ (filed /\ guardFile = Identified(Rows)) THEN "w_install" ELSE "w_reload"
        /\ WCalm
        /\ UNCHANGED <<host, kernel, files, wback, wrow, mode>>

\* reload_bridge_guard: the file is replaced only once its text is loaded.  A
\* load that fails keeps every ready row deferred.
WTickReload(ok) ==
    /\ wat = "w_reload"
    /\ IF ok THEN WCalm ELSE WHit
    /\ IF ok THEN loaded' = TRUE /\ guard' = wseen ELSE UNCHANGED <<loaded, guard>>
    /\ wtodo' = IF ok THEN wtodo ELSE {}
    /\ wpend' = IF ok THEN wpend ELSE wpend \cup wready
    /\ wat' = IF ok THEN "w_rename" ELSE "w_install"
    /\ UNCHANGED <<host, built, gw, vid, files, wback, wrow, wready, wseen, mode>>

WTickRename ==
    /\ wat = "w_rename"
    /\ filed' = TRUE /\ guardFile' = wseen
    /\ wat' = "w_install"
    /\ WCalm
    /\ UNCHANGED <<host, kernel, record, deferredRows, loop, found>>

\* The names that are still pending go back to the file; the rows that were
\* not deferred have their legs looked at.
WTickDeferred(ok) ==
    /\ wat = "w_install" /\ wtodo = {}
    /\ IF ok THEN WCalm ELSE deferredRows # wpend /\ WHit
    /\ deferredRows' = IF ok THEN wpend ELSE deferredRows
    /\ wtodo' = Rows \ deferredRows
    /\ wat' = "w_leg"
    /\ UNCHANGED <<host, kernel, record, filed, guardFile, wback, wrow, found>>

WTickDone ==
    /\ wat = "w_leg" /\ wtodo = {}
    /\ wat' = "idle"
    /\ WCalm
    /\ UNCHANGED <<host, kernel, files, loop, found>>

-----------------------------------------------------------------------------
(* The teardown: guard, then address, leg and vid row by row, then the run *)
(* directory.                                                              *)

WStopStart(m) ==
    /\ wat \in {"idle", "left", "refused", "dead"} /\ m \in {"Stop", "Down"}
    /\ (m = "Stop") = (wat = "idle")
    /\ whits < MaxLegFaults /\ whits' = whits + 1 /\ wpass' = "clean"
    /\ mode' = m
    /\ loaded' = FALSE /\ guard' = {}
    /\ wat' = "s_row" /\ wtodo' = Rows
    /\ UNCHANGED <<host, built, gw, vid, files, wback, wrow, wready, wseen, wpend>>

\* The address goes in both modes, and proxy_arp, which only a leg has ...
WStopRow(r) ==
    /\ wat = "s_row" /\ r \in wtodo /\ r \in built
    /\ gw' = gw \ {r}
    /\ wat' = "s_leg" /\ wrow' = {r} /\ wtodo' = wtodo \ {r}
    /\ WCalm
    /\ UNCHANGED <<host, built, vid, loaded, guard, files, wback, found>>

\* ... the leg only with "Down" (remove looks whether it is there) ...
WStopLeg ==
    /\ wat = "s_leg"
    /\ built' = IF mode = "Down" THEN built \ wrow ELSE built
    /\ gw' = gw \cap built'
    /\ wat' = "s_vid"
    /\ WCalm
    /\ UNCHANGED <<host, vid, loaded, guard, files, loop, found>>

\* ... release_vid gives back a vid the record names, if its bridge is there ...
WStopVid ==
    /\ wat = "s_vid" /\ wrow \cap record \subseteq bridge
    /\ vid' = [r \in Rows |-> IF r \in wrow \cap record THEN "none" ELSE vid[r]]
    /\ wat' = "s_unrecord"
    /\ WCalm
    /\ UNCHANGED <<host, built, gw, loaded, guard, files, loop, found>>

\* ... and then forgets it.
WStopUnrecord ==
    /\ wat = "s_unrecord"
    /\ record' = record \ wrow
    /\ wat' = "s_row"
    /\ WCalm
    /\ UNCHANGED <<host, kernel, filed, guardFile, deferredRows, loop, found>>

WStopDone ==
    /\ wat = "s_row" /\ wtodo = {}
    /\ record' = {} /\ filed' = FALSE /\ guardFile' = {} /\ deferredRows' = {}
    /\ wat' = "stopped"
    /\ WCalm
    /\ UNCHANGED <<host, kernel, loop, found>>

\* A row that cannot be torn down (no leg to write proxy_arp of, no bridge to take
\* the vid from), or a failing command, ends the teardown: this row and the ones
\* after it keep what they have, and so does the run directory.
RowStuck ==
    \/ wat = "s_row" /\ ~(wtodo \subseteq built)
    \/ wat = "s_vid" /\ ~(wrow \cap record \subseteq bridge)

WStopFails ==
    /\ wat \in {"s_row", "s_leg", "s_vid", "s_unrecord"}
    /\ IF RowStuck THEN WCalm ELSE WHit
    /\ wat' = "left" /\ wtodo' = {}
    /\ UNCHANGED <<host, kernel, files, wback, wrow, found>>

-----------------------------------------------------------------------------
(* Crashes and the host.                                                   *)

WCrash ==
    /\ wat \notin {"stopped", "left", "refused", "dead"}
    /\ WHit
    /\ vid' = Forgotten
    /\ wat' = "dead" /\ wtodo' = {}
    /\ UNCHANGED <<host, built, gw, loaded, guard, files, wback, wrow, found>>

\* A bridge goes away with everything on it, or comes (back) with one port.
BridgeGone(r) ==
    /\ r \in bridge /\ WHit
    /\ bridge' = bridge \ {r} /\ ports' = [ports EXCEPT ![r] = {}]
    /\ built' = built \ {r} /\ gw' = gw \ {r} /\ vid' = [vid EXCEPT ![r] = "none"]
    /\ UNCHANGED <<fit, loaded, guard, files, wat, loop, found>>

BridgeComes(r, p) ==
    /\ r \notin bridge /\ WHit
    /\ bridge' = bridge \cup {r} /\ ports' = [ports EXCEPT ![r] = {p}]
    /\ UNCHANGED <<fit, kernel, files, wat, loop, found>>

\* An uplink port joins or leaves the bridge.
PortMoves(r, p) ==
    /\ r \in bridge /\ WHit
    /\ ports' = [ports EXCEPT ![r] = IF p \in @ THEN @ \ {p} ELSE @ \cup {p}]
    /\ UNCHANGED <<bridge, fit, kernel, files, wat, loop, found>>

FitFlips(r) ==
    /\ WHit
    /\ fit' = IF r \in fit THEN fit \ {r} ELSE fit \cup {r}
    /\ UNCHANGED <<bridge, ports, kernel, files, wat, loop, found>>

\* An operator deletes a leg; an ifreload drops the vid; the ruleset is flushed.
LegDeleted(r) ==
    /\ r \in built /\ WHit
    /\ built' = built \ {r} /\ gw' = gw \ {r}
    /\ UNCHANGED <<host, vid, loaded, guard, files, wat, loop, found>>

VidDropped(r) ==
    /\ vid[r] # "none" /\ WHit
    /\ vid' = [vid EXCEPT ![r] = "none"]
    /\ UNCHANGED <<host, built, gw, loaded, guard, files, wat, loop, found>>

RulesetFlushed ==
    /\ loaded /\ WHit
    /\ loaded' = FALSE /\ guard' = {}
    /\ UNCHANGED <<host, built, gw, vid, files, wat, loop, found>>

HostChanges ==
    \/ RulesetFlushed
    \/ \E r \in Rows :
          \/ BridgeGone(r) \/ FitFlips(r) \/ LegDeleted(r) \/ VidDropped(r)
          \/ \E p \in Ports : BridgeComes(r, p) \/ PortMoves(r, p)

RowNext ==
    \/ EnsureVid \/ RecordVid \/ AddAddress \/ RowFails
    \/ \E r \in Rows : BuildLeg(r) \/ CheckLeg(r) \/ BuildFails(r)

WApplyNext ==
    \/ WApplyRead \/ WApplyLegsDone \/ WApplyFile \/ WApplyLoad \/ WApplyDeferred
    \/ WApplyDone \/ WApplyBreaks \/ WApplyFailed
    \/ \E r \in Rows : WApplyGw(r)

WTickNext ==
    \/ WTickIdentify \/ WTickRename \/ WTickDone
    \/ \E ok \in BOOLEAN : WTickTable(ok) \/ WTickReload(ok) \/ WTickDeferred(ok)

WStopNext ==
    \/ WStopLeg \/ WStopVid \/ WStopUnrecord \/ WStopDone \/ WStopFails
    \/ \E m \in {"Stop", "Down"} : WStopStart(m)
    \/ \E r \in Rows : WStopRow(r)

LegNext == RowNext \/ WApplyNext \/ WTickNext \/ WStopNext \/ WCrash \/ HostChanges

LegSpec == LegInit /\ [][LegNext]_legVars

\* The supervisor keeps ticking and finishes an apply or a teardown it has
\* started; nothing obliges it to start one.
Standing == {"idle", "stopped", "left", "refused", "dead"}

LegFairness ==
    /\ WF_legVars(RowNext \/ WTickNext)
    /\ WF_legVars(wat \notin Standing /\ WApplyNext)
    /\ WF_legVars(wat \notin Standing /\ WStopNext)

LegLive == LegSpec /\ LegFairness

-----------------------------------------------------------------------------
(* Properties.                                                             *)

LegTypeOK ==
    /\ bridge \subseteq Rows /\ fit \subseteq Rows /\ built \subseteq bridge
    /\ gw \subseteq built
    /\ ports \in [Rows -> SUBSET Ports] /\ \A r \in Rows \ bridge : ports[r] = {}
    /\ vid \in [Rows -> {"none", "cfab", "lost", "host"}]
    /\ record \subseteq Rows /\ deferredRows \subseteq Rows
    /\ guard \subseteq Rows \X Ports /\ guardFile \subseteq Rows \X Ports
    /\ loaded \in BOOLEAN /\ filed \in BOOLEAN /\ (~loaded => guard = {})
    /\ wrow \subseteq Rows /\ wtodo \subseteq Rows /\ wready \subseteq Rows /\ wpend \subseteq Rows
    /\ wseen \subseteq Rows \X Ports
    /\ wpass \in {"clean", "dirty"} /\ whits \in 0..MaxLegFaults

\* fwd_watchdog.rs: "that address must never go live over an uplink the guard
\* is not covering": in an apply that nothing disturbs, and in a tick that could
\* identify every row, a row gets its gateway address only once the guard file
\* names every uplink port the row has.  (The loaded table is the file's unless
\* an `nft -f` failed.)
GuardFirst ==
    [][wpass = "clean" /\ wpass' = "clean" /\ (wat = "a_gw" \/ \A r \in Rows : Identifiable(r)) =>
         \A r \in gw' \ gw, p \in Ports : p \in ports[r] => <<r, p>> \in guardFile]_legVars

\* leg.rs: "`down` must remove a vid cfab added and leave one that was already
\* there".  A teardown that nothing disturbs and that reaches its end leaves no
\* address, no guard and no vid of cfab's.  It gives up only at a row without a leg;
\* then, and after a failure, every vid of cfab's that is still there is recorded, for
\* the next teardown.  No step of cfab's takes a vid the host brought.
VidGoesBack ==
    [][/\ wat = "s_row" /\ wat' = "stopped" /\ wpass' = "clean" =>
             /\ gw' = {} /\ ~loaded'
             /\ mode = "Down" => built' = {}
             /\ \A r \in Rows : vid'[r] # "cfab"
       /\ wat # "left" /\ wat' = "left" =>
             /\ wpass' = "clean" => wat = "s_row" /\ \E r \in wtodo : r \notin built
             /\ \A r \in Rows : vid'[r] = "cfab" => r \in record'
       /\ \A r \in Rows : vid[r] = "host" /\ whits' = whits => vid'[r] = "host"]_legVars

\* What no step of a row does: put an address on a leg that is not guarded, keep a vid
\* of cfab's or take one of the host's.
RowDiscipline == GuardFirst /\ VidGoesBack

\* Once the host stands still and every uplink can be identified, every row that
\* is ready has its leg, its vid and its guard entry, while the supervisor runs
\* (restore_workloads).  The gateway address is not promised: on a leg that is
\* there nothing looks at it, so one whose `ip addr` failed stays off.
RowUp(r) ==
    /\ r \in built /\ vid[r] # "none"
    /\ \A p \in ports[r] : <<r, p>> \in guardFile

RowsComeUp ==
    (\A r \in Rows : Identifiable(r)) => \A r \in Rows : RowReady(r) => RowUp(r)

EventuallyUp == <>[](wat \in {"stopped", "left", "refused", "dead"} \/ RowsComeUp)
=============================================================================
