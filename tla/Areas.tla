------------------------------- MODULE Areas --------------------------------
(***************************************************************************)
(* What hyclone_server knows of the memory of its guests: the areas        *)
(* (area.cpp, and the area tables of System and Process) and the files     *)
(* that shared areas are mapped from (server_memory.cpp).                  *)
(*                                                                         *)
(* A server call runs under the locks of the process, of the system and of *)
(* the memory service; each is an operator from the tables to the tables.  *)
(*                                                                         *)
(* The tables are a record:                                                *)
(*   areas   System::_areas, a function on the ids in use                  *)
(*   owned   Process::_areas of every process, as the set of its ids       *)
(*   next    System::_nextAreaId                                           *)
(*   shared  MemoryService::_sharedFiles, a function on the files in use   *)
(*   disk    the files that exist under the shm directory                  *)
(* A file is named after the area it was made for; Host is a file that a   *)
(* guest opened itself.  Addresses, sizes and offsets are in pages.        *)
(***************************************************************************)
EXTENDS Integers, Sequences, FiniteSetsExt, Functions

CONSTANTS
    Process,   \* teams
    MaxAreaId  \* bound: areas made in one behaviour

ASSUME AreasAssumption == MaxAreaId \in Nat \ {0} /\ IsFiniteSet(Process)

AreaId == 1..MaxAreaId
Host == 0
File == AreaId \cup {Host}
NoFile == -1

Prot == SUBSET {"write", "clone"}
Mapping == {"private", "noPrivate"}

\* Area: the fields of haiku_area_info that matter, _mapping, and
\* _entryRef with _offset (file = NoFile stands for _offset = -1).
NewArea(team, lo, hi, prot, mapping) ==
    [team |-> team, lo |-> lo, hi |-> hi, prot |-> prot, mapping |-> mapping,
     file |-> NoFile, off |-> 0]
IsShared(a) == a.file # NoFile

EmptyTables ==
    [areas |-> <<>>, owned |-> [p \in Process |-> {}], next |-> 1,
     shared |-> <<>>, disk |-> {}]

Without(f, x) == Restrict(f, DOMAIN f \ {x})
With(f, x, v) == [y \in DOMAIN f \cup {x} |-> IF y = x THEN v ELSE f[y]]

-----------------------------------------------------------------------------
(* MemoryService *)

Acquired(s, f) == [s EXCEPT !.shared[f].refs = @ + 1]

\* ReleaseSharedFile: the last reference closes the handle or removes the file.
Released(s, f) ==
    IF f \notin DOMAIN s.shared THEN s
    ELSE IF s.shared[f].refs > 1 THEN [s EXCEPT !.shared[f].refs = @ - 1]
    ELSE [s EXCEPT !.shared = Without(@, f),
                   !.disk = IF s.shared[f].handle THEN @ ELSE @ \ {f}]

\* OpenSharedFile.  by is TRUE for the one that takes the handle of a guest;
\* can says that the file can be opened for writing.
MayOpen(s, f, want, by, can) ==
    /\ want => can
    /\ by \/ f \in s.disk
Opened(s, f, want, by, can) ==
    LET w == want \/ can
        old == s.shared[f]
        up == w /\ ~old.writable
    IN  IF f \in DOMAIN s.shared
        THEN [s EXCEPT !.shared[f] = [refs |-> old.refs + 1,
                                      writable |-> old.writable \/ w,
                                      handle |-> IF up THEN by ELSE old.handle]]
        ELSE [s EXCEPT !.shared =
                 With(@, f, [refs |-> 1, writable |-> w, handle |-> by])]

\* CreateSharedFile opens with O_EXCL; CloneSharedFile copies over what is there.
MayCreate(s, f) == f \notin s.disk
Created(s, f) == [s EXCEPT !.disk = @ \cup {f}]
MayCloneFile(s, f) == f \in DOMAIN s.shared /\ ~s.shared[f].handle

\* GetSharedFilePath
HasPath(s, f) == f \in DOMAIN s.shared /\ ~s.shared[f].handle

-----------------------------------------------------------------------------
(* System and Process *)

\* The ids are given in order.  (They start again at INT_MAX; MaxAreaId bounds
\* the model before that.)
HasFreeIds(s, n) == s.next + n - 1 <= MaxAreaId
FreeId(s) == s.next

\* System::RegisterArea, then Process::RegisterArea.
RegisterArea(s, p, a) ==
    LET id == FreeId(s)
        t == IF IsShared(a) THEN Acquired(s, a.file) ELSE s
    IN  [t EXCEPT !.areas = With(@, id, a),
                  !.owned[p] = @ \cup {id},
                  !.next = id + 1]

\* mutant: the file is not released
ForgottenKept(s, id) == [s EXCEPT !.areas = Without(@, id)]

\* System::UnregisterArea
Forgotten(s, id) ==
    LET t == IF IsShared(s.areas[id]) THEN Released(s, s.areas[id].file) ELSE s
    IN  [t EXCEPT !.areas = Without(@, id)]

\* server_hserver_call_unregister_area refuses the areas of others.
UnregisterArea(s, p, id) ==
    IF id \in s.owned[p] /\ id \in DOMAIN s.areas
    THEN [Forgotten(s, id) EXCEPT !.owned[p] = @ \ {id}] ELSE s

\* Area::Share
Shared(s, id, f, off) == [s EXCEPT !.areas[id].file = f, !.areas[id].off = off]

\* share_area without a handle: a new file, opened by name.
SharedNew(s, id) ==
    Shared(Opened(Created(s, id), id, "write" \in s.areas[id].prot, FALSE, TRUE),
           id, id, 0)
\* share_area with a handle
MayShareHandle(s, id, f, can) ==
    MayOpen(s, f, "write" \in s.areas[id].prot, TRUE, can)
SharedHandle(s, id, f, off, can) ==
    Shared(Opened(s, f, "write" \in s.areas[id].prot, TRUE, can), id, f, off)

\* area_for
AreaFor(s, p, x) == {id \in s.owned[p] : s.areas[id].lo <= x /\ x < s.areas[id].hi}

\* NextAreaId: the ids of a set, in order.  What is registered on the way comes after them.
InOrder(Op(_, _), s, ids) ==
    LET after[n \in 0..s.next] ==
            IF n = 0 THEN s ELSE IF n \in ids THEN Op(after[n - 1], n) ELSE after[n - 1]
    IN  after[s.next - 1]

\* The pieces of an area outside lo .. hi - 1, in the order of addresses.
Outside(a, lo, hi) ==
    SelectSeq(<<<<a.lo, Min({a.hi, lo})>>, <<Max({a.lo, hi}), a.hi>>>>,
              LAMBDA r : r[1] < r[2])

\* mutant: the offset stays
PieceAsIs(a, r) == [a EXCEPT !.lo = r[1], !.hi = r[2]]

\* Area::Split: a piece keeps everything, and the offset moves along.
Piece(a, r) ==
    [a EXCEPT !.lo = r[1], !.hi = r[2],
              !.off = IF IsShared(a) THEN @ + (r[1] - a.lo) ELSE @]

\* unmap_memory for one area: it shrinks or falls in two.  The areas of which
\* nothing is left go when the walk is over.
UnmapOne(lo, hi, p, s, id) ==
    LET a == s.areas[id]
        left == Outside(a, lo, hi)
        t == [s EXCEPT !.areas[id] = Piece(a, left[1])]
    IN  IF left = <<>> THEN s
        ELSE IF Len(left) = 1 THEN t
        ELSE RegisterArea(t, p, Piece(a, left[2]))
\* mutant: the areas of which nothing is left stay
UnmapAreasKeep(s, p, lo, hi) ==
    InOrder(LAMBDA u, id : UnmapOne(lo, hi, p, u, id), s, s.owned[p])

UnmapAreas(s, p, lo, hi) ==
    LET gone == {id \in s.owned[p] : Outside(s.areas[id], lo, hi) = <<>>}
        t == InOrder(LAMBDA u, id : UnmapOne(lo, hi, p, u, id), s, s.owned[p])
    IN  InOrder(LAMBDA u, id : UnregisterArea(u, p, id), t, gone)

\* set_memory_protection for one area.  The pieces that keep their protection
\* come first and the piece that changes last; the loops that register the
\* pieces both stop before the last one.
ProtectOne(lo, hi, prot, p, s, id) ==
    LET a == s.areas[id]
        same == Outside(a, lo, hi)
        t == [s EXCEPT !.areas[id] = Piece(a, same[1])]
    IN  IF a.hi <= lo \/ a.lo >= hi THEN s
        ELSE IF same = <<>> THEN [s EXCEPT !.areas[id].prot = prot]
        ELSE IF Len(same) = 1 THEN t
        ELSE RegisterArea(t, p, Piece(a, same[2]))
ProtectAreas(s, p, lo, hi, prot) ==
    InOrder(LAMBDA u, id : ProtectOne(lo, hi, prot, p, u, id), s, s.owned[p])

\* Process::Fork for one area: a copy that is not shared; a private area that
\* was shared gets a copy of its file.
ForkOne(p, q, s, id) ==
    LET a == s.areas[id]
        new == FreeId(s)
        t == RegisterArea(s, q, [a EXCEPT !.team = q, !.file = NoFile, !.off = 0])
    IN  IF IsShared(a) /\ a.mapping = "private" /\ MayCloneFile(t, a.file)
        THEN Shared(Opened(Created(t, new), new, "write" \in a.prot, FALSE, TRUE),
                    new, new, a.off)
        ELSE t
ForkAreas(s, p, q) ==
    InOrder(LAMBDA u, id : ForkOne(p, q, u, id), s, s.owned[p])

\* disconnect, for the last thread of a team
ExitAreas(s, p) ==
    LET t == InOrder(LAMBDA u, id : Forgotten(u, id), s, s.owned[p])
    IN  [t EXCEPT !.owned[p] = {}]
=============================================================================
