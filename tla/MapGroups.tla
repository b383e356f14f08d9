----------------------------- MODULE MapGroups -----------------------------
(***************************************************************************)
(* The maps of a process (util/map.c): a set of address ranges, searched   *)
(* as a tree that is correct only if no two of them overlap.  A new map    *)
(* replaces what it covers of the older ones.                              *)
(*                                                                         *)
(* A map is [start, end, pgoff, dso], end excluded.                        *)
(***************************************************************************)
EXTENDS Integers

Overlap(p, q) == p.start < q.end /\ q.start < p.end

Contains(p, addr) == p.start <= addr /\ addr < p.end

map__map_ip(p, ip) == ip - p.start + p.pgoff

\* What is left of p, a map that overlaps q: two copies that differ in their
\* bounds only.
Before(p, q) ==
  IF q.start > p.start THEN {[p EXCEPT !.end = q.start]} ELSE {}

\* Mutant: the part behind keeps the start of the map.
AfterWhole(p, q) == IF q.end < p.end THEN {p} ELSE {}

After(p, q) ==
  IF q.end < p.end THEN {[p EXCEPT !.start = q.end]} ELSE {}

\* The loop visits the maps that overlap q.
fixup_overlappings(maps, q) ==
  LET over == {p \in maps : Overlap(p, q)}
  IN  (maps \ over) \cup UNION {Before(p, q) \cup After(p, q) : p \in over}

\* thread__insert_map
insert_map(maps, q) == fixup_overlappings(maps, q) \cup {q}

\* The results maps__find may have.
maps__find(maps, addr) == {p \in maps : Contains(p, addr)}

Disjoint(maps) == \A p, q \in maps : Overlap(p, q) => p = q
=============================================================================
