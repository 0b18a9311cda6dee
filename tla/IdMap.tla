------------------------------- MODULE IdMap -------------------------------
(***************************************************************************)
(* IdMap of hyclone_server (id_map.h), the table behind the ids of ports,  *)
(* semaphores and areas: a vector of items and the set of the ids that are *)
(* free again.  The items are numbers of objects; T(), the item of a free  *)
(* id, is 0.                                                               *)
(***************************************************************************)
EXTENDS Integers

EmptyMap == [items |-> [i \in {} |-> 0], size |-> 0, free |-> {}]

\* IdMap::IsValidId
IsValidId(map, id) == id \in 0..(map.size - 1) /\ id \notin map.free

\* The id that IdMap::Add gives to the next item.
Least(S) == CHOOSE i \in S : \A j \in S : i <= j
AddId(map) == IF map.free = {} THEN map.size ELSE Least(map.free)

\* IdMap::Add
Add(map, item) ==
    LET id == AddId(map)
        n  == IF map.free = {} THEN map.size + 1 ELSE map.size
    IN [items |-> [i \in 0..(n - 1) |-> IF i = id THEN item ELSE map.items[i]],
        size  |-> n,
        free  |-> map.free \ {id}]

\* IdMap::Remove, for all the ids of a set.
Remove(map, ids) ==
    [items |-> [i \in DOMAIN map.items |-> IF i \in ids THEN 0 ELSE map.items[i]],
     size  |-> map.size,
     free  |-> map.free \cup ids]
=============================================================================
