------------------------------- MODULE Hists -------------------------------
(***************************************************************************)
(* The histogram of perf top (util/hist.c) between the thread that adds    *)
(* samples and the thread that displays it.  Samples are added to one of   *)
(* the two trees of entries_in_array; the display thread swaps the two and *)
(* moves the entries of the other one to entries_collapsed, decays what it *)
(* already displayed and relinks the entries into the output tree.         *)
(*                                                                         *)
(* A tree is a function from its keys to the period of the entry, 0 for no *)
(* entry.  Every sample has period 1.  Entries that differ for             *)
(* hist_entry__cmp may be the same for hist_entry__collapse: Group[k] is   *)
(* the collapsed entry that the entry k belongs to.                        *)
(***************************************************************************)
EXTENDS Integers, Functions

CONSTANTS
  Key,          \* entries of the input trees
  Group         \* the collapsed entry of each of them

VARIABLES
  lock,         \* holder of hists->lock: "free" or "process"
  entries_in,   \* index of the tree that samples are added to
  tree,         \* entries_in_array
  collapsed,    \* entries_collapsed; between two refreshes, also the output tree
  he,           \* the entry the adding thread works on
  display,      \* where the display thread is
  root          \* the input tree it collapses

hists_vars == <<lock, entries_in, tree, collapsed, he, display, root>>
display_vars == <<collapsed, display, root>>

Groups == {Group[k] : k \in Key}
NoEntry == [state |-> "none", key |-> CHOOSE k \in Key : TRUE, tree |-> 0, old |-> FALSE]

HistsInit ==
  /\ lock = "free"
  /\ entries_in = 0
  /\ tree = [i \in {0, 1} |-> [k \in Key |-> 0]]
  /\ collapsed = [g \in Groups |-> 0]
  /\ he = NoEntry
  /\ display = "loop" /\ root = 0

-----------------------------------------------------------------------------
(* The adding thread: perf_event__process_sample.                          *)

\* It takes hists->lock; hists__findnew_entry searches hists->entries_in.
FindEntry(k) ==
  /\ he = NoEntry /\ lock = "free"
  /\ lock' = "process"
  /\ he' = [state |-> "found", key |-> k, tree |-> entries_in,
            old |-> tree[entries_in][k] > 0]
  /\ UNCHANGED <<entries_in, tree, display_vars>>

\* The period goes to the entry that was found, wherever it is by now, or to a
\* new entry.
AddPeriod ==
  tree' = IF he.old /\ tree[he.tree][he.key] = 0 THEN tree
          ELSE [tree EXCEPT ![he.tree][he.key] = @ + 1]

\* The entry is complete and the lock is released.
FindnewEntry ==
  /\ he.state = "found"
  /\ AddPeriod
  /\ lock' = "free" /\ he' = NoEntry
  /\ UNCHANGED <<entries_in, display_vars>>

\* perf_top__record_precise_ip could not account the address: it releases the
\* lock while it warns and sleeps.
RecordPreciseIpFails ==
  /\ he.state = "found"
  /\ AddPeriod
  /\ lock' = "free"
  /\ he' = [he EXCEPT !.state = "warn"]
  /\ UNCHANGED <<entries_in, display_vars>>

\* It takes the lock again, and the entry is completed.
RecordPreciseIpResumes ==
  /\ he.state = "warn" /\ lock = "free"
  /\ he' = NoEntry
  /\ UNCHANGED <<lock, entries_in, tree, display_vars>>

-----------------------------------------------------------------------------
(* The display thread: perf_top__sort_new_samples.  The collapsed and the  *)
(* output tree are its own, so what it does to them alone is one step with *)
(* the next access to what it shares.                                      *)

he_stat__decay(period) == (period * 7) \div 8

\* Mutant: the trees are swapped without hists->lock.
RotateEntriesInUnlocked ==
  /\ root' = entries_in /\ entries_in' = 1 - entries_in
  /\ display' = "collapse"
  /\ UNCHANGED <<lock, tree, he>>

\* hists__get_rotate_entries_in: the trees are swapped under hists->lock.
RotateEntriesIn ==
  /\ lock = "free"
  /\ root' = entries_in /\ entries_in' = 1 - entries_in
  /\ display' = "collapse"
  /\ UNCHANGED <<lock, tree, he>>

\* evlist->enabled: hists__delete_entries deletes every entry (option zero),
\* hists__decay_entries the ones that are hidden by now (zapped); it decays the
\* others, and deletes those that have no period left.
Refresh(zapped) ==
  /\ display = "loop"
  /\ collapsed' = [g \in Groups |-> IF g \in zapped THEN 0 ELSE he_stat__decay(collapsed[g])]
  /\ RotateEntriesIn

\* The events are disabled: what is displayed stays.
KeepEntries ==
  /\ display = "loop"
  /\ RotateEntriesIn
  /\ UNCHANGED collapsed

\* hists__collapse_resort moves an entry of the other tree; its period is added
\* to the collapsed entry, if there is one.  When the call chains cannot be
\* merged it gives up, and what remains in the tree stays there.  output_resort
\* follows in any case.
CollapseEntry(k, complete) ==
  /\ display = "collapse"
  /\ tree[root][k] > 0
  /\ tree' = [tree EXCEPT ![root][k] = 0]
  /\ collapsed' = [collapsed EXCEPT ![Group[k]] = @ + tree[root][k]]
  /\ ~complete => collapsed[Group[k]] > 0
  /\ IF complete THEN UNCHANGED <<display, root>> ELSE display' = "loop" /\ root' = 0
  /\ UNCHANGED <<lock, entries_in, he>>

\* The tree is empty or the session is done: output_resort.
CollapseEnds(session_done) ==
  /\ display = "collapse"
  /\ session_done \/ \A k \in Key : tree[root][k] = 0
  /\ display' = "loop" /\ root' = 0
  /\ UNCHANGED <<lock, entries_in, tree, collapsed, he>>

-----------------------------------------------------------------------------
\* The period the trees hold of a collapsed entry.
Held(g) == SumFunctionOnSet([k \in Key |-> tree[0][k] + tree[1][k]],
                            {k \in Key : Group[k] = g}) + collapsed[g]
=============================================================================
