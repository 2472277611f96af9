--------------------------- MODULE HtapMergeProps ---------------------------
(***************************************************************************)
(* The properties of HtapMerge.                                            *)
(***************************************************************************)
EXTENDS HtapMerge

ClientPcs == {Idle, "inserted", "deleted", "missed", "tombed", "counted",
              "viewed", "probed"}

MergePcs == {Idle, "started", "built", "swapped", "stats", "truncated"}

(* Type invariant of the partition, the sessions and the merge. *)
TypeOK ==
    /\ seq \in 0 .. MaxSid
    /\ cached \in [Sessions -> SUBSET Sids]
    /\ delta \subseteq Row(Quads, Sids)
    /\ main \subseteq Row(Quads, Sids)
    /\ tombs \subseteq Row(Quads, Sids)
    /\ skip \in BOOLEAN
    /\ tombCount \in Nat
    /\ rowLock \in Sessions \cup {Merger, NoSession}
    /\ pc \in [Sessions -> ClientPcs]
    /\ work \in [Sessions -> Row(Quads, 0 .. MaxSid) \cup {NoRow}]
    /\ sawZero \in [Sessions -> BOOLEAN]
    /\ mpc \in MergePcs
    /\ maxSid \in 0 .. MaxSid
    /\ mainNew \subseteq Row(Quads, Sids)
    /\ raced \subseteq Quads

(* Whenever a committed tombstone exists, the view consults the tombstone  *)
(* table: concurrent deletes and merges never leave the view in its        *)
(* tombstone-skip form (rebuild_htap_view) with a tombstone in the table.   *)
TombstonesHonoured == tombs # {} => ~skip

(* A statement identifier names one row: no two rows a reader can reach,    *)
(* in main, in delta or in the main_new a merge is about to install, carry  *)
(* the same i, whatever merges and re-assertions happened.                  *)
SidsUnique ==
    \A r, x \in main \cup delta \cup mainNew : r.i = x.i => r = x

(* The quads readers will see once the running merge commits. *)
VisibleAfterMerge(zero) ==
    VisibleQuads(mainNew, {}, TombsLeft(zero), TombsLeft(zero) = {})

(* A merge about to commit changes what readers see only for quads that     *)
(* were written while it ran: every other quad is visible after the commit  *)
(* exactly when it is visible now.                                          *)
MergeKeepsUnraced ==
    mpc = "truncated" =>
        \A q \in Quads \ raced, zero \in RetentionZero :
            q \in Visible <=> q \in VisibleAfterMerge(zero)

(* The partition implements the set of quads of QuadStore, a running merge  *)
(* being one whose transaction is open.                                     *)
QS == INSTANCE QuadStore WITH store <- Visible, merging <- mpc # Idle

ImplementsQuadStore == QS!Spec

(* Every merge ends, by a commit or by lock_timeout: clients and a merge    *)
(* waiting for each other's locks do not wait for ever.                     *)
MergeEnds == mpc # Idle ~> mpc = Idle

(* Every client transaction ends although merges may begin again and again. *)
ClientsEnd == \A c \in Sessions : pc[c] # Idle ~> pc[c] = Idle

-----------------------------------------------------------------------------
(* What comments and documents say of concurrent merges.                    *)

(* merge.rs, at TRUNCATE delta: `all rows have been merged into main_new'.  *)
DeltaMergedBeforeTruncate ==
    mpc = "truncated" => QuadsOf(delta) \subseteq QuadsOf(mainNew)

(* roadmap/v0.37.0: deletes that arrive during a merge are never lost: a    *)
(* quad that is invisible just before the merge commits stays invisible.    *)
DeletesSurviveMerge ==
    mpc = "truncated" =>
        \A zero \in RetentionZero : VisibleAfterMerge(zero) \subseteq Visible
=============================================================================
