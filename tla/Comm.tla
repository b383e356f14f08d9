-------------------------------- MODULE Comm --------------------------------
(***************************************************************************)
(* The names of threads (util/comm.c): strings shared in a tree and        *)
(* counted.  The operators take and return strs, a function from addresses *)
(* to [name, refcnt]; what has no string there is NoStr.  A name is a      *)
(* number other than 0.                                                    *)
(*                                                                         *)
(* comm_str__put drops the last reference before it takes the lock to      *)
(* erase, so a string with no reference may still be in the tree, behind   *)
(* which __comm_str__findnew inserts an equal one.  New nodes go to the    *)
(* right of equal ones, so the search passes every dead one before it ends *)
(* and finds the live one if there is one.                                 *)
(***************************************************************************)
EXTENDS Integers, FiniteSetsExt

NoStr == [name |-> 0, refcnt |-> 0]

Linked(strs) == {i \in DOMAIN strs : strs[i] # NoStr}

\* Mutant: a string whose last reference is being dropped is found too.
Equal(strs, name) == {i \in Linked(strs) : strs[i].name = name}

\* The strings the search may return.
Live(strs, name) == {i \in Linked(strs) : strs[i].name = name /\ strs[i].refcnt > 0}

\* Where the string is after comm_str__findnew, and the tree.
StrOf(strs, name) ==
  IF Live(strs, name) # {} THEN Min(Live(strs, name))
  ELSE Min(DOMAIN strs \ Linked(strs))

comm_str__get(strs, i) == [strs EXCEPT ![i].refcnt = @ + 1]

comm_str__findnew(strs, name) ==
  IF Live(strs, name) # {} THEN comm_str__get(strs, StrOf(strs, name))
  ELSE [strs EXCEPT ![StrOf(strs, name)] = [name |-> name, refcnt |-> 1]]

\* The two halves of comm_str__put, and both of them.
comm_str__dec(strs, i) == [strs EXCEPT ![i].refcnt = @ - 1]

comm_str__erase(strs, i) == [strs EXCEPT ![i] = NoStr]

comm_str__put(strs, i) ==
  IF strs[i].refcnt = 1 THEN comm_str__erase(strs, i) ELSE comm_str__dec(strs, i)
=============================================================================
