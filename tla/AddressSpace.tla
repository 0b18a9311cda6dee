---------------------------- MODULE AddressSpace ----------------------------
(***************************************************************************)
(* The memory of guests: the system calls of monika/linux/mman.cpp over    *)
(* the address space the host kernel keeps, the books of the loader        *)
(* (ReservedRanges) and the tables of the server (Areas).                  *)
(*                                                                         *)
(* A call holds the loader's mutex (MmanLock) from its first look at the   *)
(* books to its end, so most calls are one step (reserve_address_range     *)
(* maps before it takes the mutex; the instances have one thread in a      *)
(* team, to which this is one step too).  The exceptions are steps         *)
(* of their own: delete_area reads the area before it takes the mutex,     *)
(* clone_area takes no mutex and opens a file it was told of earlier,      *)
(* map_file gives the mutex back while it unmaps, and transfer_area is     *)
(* three calls and a request to another team.                              *)
(***************************************************************************)
EXTENDS ReservedRanges, Areas

CONSTANTS
    GuestThread,     \* guest threads
    ProcessOf,     \* the team of a thread
    Parent,     \* the team that exists from the start
    PageCount,  \* pages of an address space
    Specs,      \* the address specifications the guests pass
    Bounds      \* the bounds of an instance; each behaviour has one of them

ASSUME AddressSpaceAssumption ==
    /\ ProcessOf \in [GuestThread -> Process] /\ Parent \in Process
    /\ PageCount \in Nat /\ Specs \subseteq {"any", "base", "exact"}
    /\ Bounds \subseteq
          [areas : 1..MaxAreaId,    \* areas made
           pages : 1..PageCount,    \* pages used
           size : 1..PageCount,     \* pages of one call
           ranges : Nat,            \* ranges reserved by a process
           files : BOOLEAN,         \* files are mapped
           forks : BOOLEAN,         \* the parent forks
           prots : SUBSET Prot]     \* protections passed

VARIABLES
    srv,    \* the tables of the server
    vm,     \* what the kernel maps at a page of a process
    rr,     \* sReservedRanges of a process
    state,  \* of a process
    pc,     \* the call a thread is in the middle of
    torn,   \* history: processes that met one of the gaps in the books
    bound   \* the bounds of this behaviour

spaceVars == <<srv, vm, rr, state, pc, torn, bound>>

Page == 1..PageCount
Sizes == 1..bound.size
Prots == bound.prots
\* A page: not mapped, reserved (PROT_NONE), private memory, or part of a file.
Free == <<"free", NoFile, 0>>
None == <<"none", NoFile, 0>>
Anon == <<"anon", NoFile, 0>>
InFile(f, o) == <<"file", f, o>>
InGuest == [at |-> "idle"]

AddressSpaceInit ==
    /\ srv = EmptyTables
    /\ vm = [p \in Process |-> [x \in Page |-> Free]]
    /\ rr = [p \in Process |-> {}]
    /\ state = [p \in Process |-> IF p = Parent THEN "alive" ELSE "unborn"]
    /\ pc = [t \in GuestThread |-> InGuest]
    /\ torn = {}
    /\ bound \in Bounds

-----------------------------------------------------------------------------
(* The host kernel *)

Span(lo, n) == lo..(lo + n - 1)
Fits(lo, n) == Span(lo, n) \subseteq 1..bound.pages
IsFree(p, lo, n) == Fits(lo, n) /\ \A x \in Span(lo, n) : vm[p][x] = Free

\* Where mmap may put n pages: at the hint if that is free.
FreePlaces(p, hint, n) ==
    IF hint # NoFile /\ IsFree(p, hint, n) THEN {hint}
    ELSE {lo \in Page : IsFree(p, lo, n)}

\* mmap with MAP_FIXED, munmap and mprotect, as functions of the pages.
Mapped(v, lo, n, Content(_)) ==
    [x \in Page |-> IF x \in Span(lo, n) THEN Content(x - lo) ELSE v[x]]
Unmapped(v, lo, n) == Mapped(v, lo, n, LAMBDA i : Free)
Given(v, lo, n) == Mapped(v, lo, n, LAMBDA i : None)

-----------------------------------------------------------------------------
(* Parts the calls share *)

Room(n) == HasFreeIds(srv, n) /\ srv.next + n - 1 <= bound.areas
Ready(t) == pc[t] = InGuest /\ state[ProcessOf[t]] = "alive"
Own(t) == srv.owned[ProcessOf[t]]
Set(p, s, v, r) ==
    /\ srv' = s
    /\ vm' = [vm EXCEPT ![p] = v]
    /\ rr' = [rr EXCEPT ![p] = r]
\* No area of the process has one of these pages.
Untouched(p, lo, n) == \A x \in Span(lo, n) : AreaFor(srv, p, x) = {}
Done(t) == pc' = [pc EXCEPT ![t] = InGuest]

\* ProcessMmapArgs: the hint is dropped for B_ANY_ADDRESS.
Hint(spec, a) == IF spec = "any" THEN NoFile ELSE a
\* ProcessMmapResult
Accepted(spec, lo, a) ==
    CASE spec = "any"   -> TRUE
      [] spec = "base"  -> lo >= a
      [] spec = "exact" -> lo = a

\* mmap for create_area, clone_area and map_file: over a reserved range where
\* the address is exact and inside one, elsewhere where the kernel finds room.
InBooks(p, spec, a, n) == spec = "exact" /\ IsInReserved(rr[p], a, a + n)
Landing(p, spec, a, n, in) ==
    IF in THEN {x \in {a} : LongestMappable(rr[p], a, n) >= n}
    ELSE {lo \in FreePlaces(p, Hint(spec, a), n) : Accepted(spec, lo, a)}
Booked(p, a, n, in) == IF in THEN MapRange(rr[p], a, a + n) ELSE rr[p]

-----------------------------------------------------------------------------
(* _moni_create_area *)

\* ok says that share_area or mlock succeed.  When one fails the area is
\* unregistered and its pages are unmapped, in a reserved range too.
CreateArea(t, spec, a, n, prot, ok) ==
    LET p == ProcessOf[t]
        in == InBooks(p, spec, a, n)
        id == FreeId(srv)
        shares == "clone" \in prot
    IN  /\ Ready(t) /\ Room(1) /\ Fits(a, n)
        /\ \E lo \in Landing(p, spec, a, n, in) :
            LET s1 == RegisterArea(srv, p, NewArea(p, lo, lo + n, prot, "private"))
                s2 == IF shares THEN SharedNew(s1, id) ELSE s1
                Content(i) == IF shares THEN InFile(id, i) ELSE Anon
            IN  IF ok /\ (shares => MayCreate(s1, id))
                THEN /\ Set(p, s2, Mapped(vm[p], lo, n, Content),
                            Booked(p, a, n, in))
                     /\ UNCHANGED torn
                ELSE /\ Set(p, UnregisterArea(s1, p, id), Unmapped(vm[p], lo, n),
                            Booked(p, a, n, in))
                     /\ torn' = IF in THEN torn \cup {p} ELSE torn
        /\ UNCHANGED <<state, pc>>

(* _moni_delete_area: get_area_info, which knows the areas of all teams, then
   the rest under the mutex. *)
Deleting(id) == [at |-> "delete", id |-> id,
                 lo |-> srv.areas[id].lo, hi |-> srv.areas[id].hi]
DeleteBegin(t, id) ==
    /\ Ready(t) /\ id \in DOMAIN srv.areas
    /\ pc' = [pc EXCEPT ![t] = Deleting(id)]
    /\ UNCHANGED <<srv, vm, rr, state, torn>>

DeleteEnd(t) ==
    LET p == ProcessOf[t]
        d == pc[t]
        n == d.hi - d.lo
        in == IsInReserved(rr[p], d.lo, d.hi)
    IN  /\ d.at = "delete" /\ state[p] = "alive"
        /\ IF in
           THEN Set(p, UnregisterArea(srv, p, d.id), Given(vm[p], d.lo, n),
                    UnmapRange(rr[p], d.lo, d.hi))
           ELSE Set(p, UnregisterArea(srv, p, d.id), Unmapped(vm[p], d.lo, n), rr[p])
        /\ torn' = IF d.id \in Own(t) THEN torn ELSE torn \cup {p}
        /\ Done(t)
        /\ UNCHANGED state

-----------------------------------------------------------------------------
(* _moni_resize_area *)

Extent(id) == srv.areas[id].hi - srv.areas[id].lo
Resized(id, n) == [srv EXCEPT !.areas[id].hi = srv.areas[id].lo + n]

Shrink(t, id, n) ==
    LET p == ProcessOf[t]
        a == srv.areas[id]
        cut == a.lo + n
        gone == a.hi - cut
    IN  /\ Ready(t) /\ id \in Own(t) /\ 0 < n /\ cut < a.hi
        /\ IF IsInReserved(rr[p], a.lo, a.hi)
           THEN Set(p, Resized(id, n), Given(vm[p], cut, gone),
                    UnmapRange(rr[p], cut, a.hi))
           ELSE Set(p, Resized(id, n), Unmapped(vm[p], cut, gone), rr[p])
        /\ UNCHANGED <<state, pc, torn>>

\* The part of the growth that lies in the reserved range is taken from it,
\* then mremap needs all of the growth free.  When it fails that part is given
\* back and nothing has changed.
Grow(t, id, n) ==
    LET p == ProcessOf[t]
        a == srv.areas[id]
        more == a.lo + n - a.hi
        in == IsInReserved(rr[p], a.lo, a.hi)
        taken == IF in THEN LongestMappable(rr[p], a.hi, more) ELSE 0
        base == vm[p][a.lo]
    IN  /\ Ready(t) /\ id \in Own(t) /\ more > 0 /\ Fits(a.lo, n)
        /\ \A x \in Span(a.lo, Extent(id)) : vm[p][x] # Free
        /\ \A x \in Span(a.hi, more) : x >= a.hi + taken => vm[p][x] = Free
        /\ Set(p, Resized(id, n),
               Mapped(vm[p], a.hi, more,
                      LAMBDA i : IF base[1] = "file"
                                 THEN InFile(base[2], base[3] + Extent(id) + i)
                                 ELSE base),
               IF taken = 0 THEN rr[p] ELSE MapRange(rr[p], a.hi, a.hi + taken))
        /\ UNCHANGED <<state, pc, torn>>

(* _moni_set_area_protection *)
SetAreaProtection(t, id, prot) ==
    /\ Ready(t) /\ id \in Own(t)
    /\ srv' = [srv EXCEPT !.areas[id].prot = prot]
    /\ UNCHANGED <<vm, rr, state, pc, torn>>

(* _moni_set_memory_protection: the check of the reserved pages, the server,
   and mprotect, which opens reserved pages that the check did not see and
   stops at the first page that is not mapped. *)
SetMemoryProtection(t, lo, n, prot) ==
    LET p == ProcessOf[t]
        Reached(x) == \A y \in lo..x : vm[p][y] # Free
        opened == {x \in Span(lo, n) : vm[p][x] = None /\ Reached(x)}
    IN  /\ Ready(t) /\ Fits(lo, n) /\ Room(1)
        /\ TRUE \in RangeVerdicts(rr[p], lo, lo + n)
        /\ Set(p, ProtectAreas(srv, p, lo, lo + n, prot),
               [x \in Page |-> IF x \in opened THEN Anon ELSE vm[p][x]], rr[p])
        /\ torn' = IF opened = {} THEN torn ELSE torn \cup {p}
        /\ UNCHANGED <<state, pc>>

(* _moni_unmap_memory: reserved pages go back to their range, the others to
   the kernel. *)
UnmappedMemory(p, lo, n) ==
    LET seen == SeenReserved(rr[p], lo, lo + n)
    IN  [x \in Page |-> IF x \in seen THEN None
                        ELSE IF x \in Span(lo, n) THEN Free ELSE vm[p][x]]
UnmappedBooks(p, lo, n) ==
    IF SeesRanges(rr[p], lo)
    THEN {[r EXCEPT !.maps = CutParts(@, lo, lo + n)] : r \in rr[p]} ELSE rr[p]
Unmap(t, lo, n) ==
    LET p == ProcessOf[t] IN
    /\ Ready(t) /\ Fits(lo, n) /\ Room(1)
    /\ Set(p, UnmapAreas(srv, p, lo, lo + n), UnmappedMemory(p, lo, n),
           UnmappedBooks(p, lo, n))
    /\ torn' = IF ~SeesRanges(rr[p], lo) /\ Collides(rr[p], lo, lo + n)
               THEN torn \cup {p} ELSE torn
UnmapMemory(t, lo, n) == Unmap(t, lo, n) /\ UNCHANGED <<state, pc>>

-----------------------------------------------------------------------------
(* _moni_map_file: fd is Host, or NoFile for memory without a file. *)

\* ok: share_area could open the handle of the guest.
MapFile(t, spec, a, n, prot, mapping, fd, off, in, ok) ==
    LET p == ProcessOf[t]
        id == FreeId(srv)
        shares == "clone" \in prot \/ mapping = "noPrivate"
    IN \E lo \in Landing(p, spec, a, n, in) :
        LET s1 == RegisterArea(srv, p, NewArea(p, lo, lo + n, prot, mapping))
            may == IF fd = NoFile THEN MayCreate(s1, id)
                   ELSE MayShareHandle(s1, id, fd, ok)
            s2 == IF fd = NoFile THEN SharedNew(s1, id)
                  ELSE SharedHandle(s1, id, fd, off, ok)
            Content(i) == IF ~shares THEN Anon
                          ELSE IF fd = NoFile THEN InFile(id, i)
                          ELSE InFile(fd, off + i)
        IN  IF shares => may
            THEN /\ Set(p, IF shares THEN s2 ELSE s1,
                        Mapped(vm[p], lo, n, Content), Booked(p, a, n, in))
                 /\ UNCHANGED torn
            ELSE /\ Set(p, UnregisterArea(s1, p, id), Unmapped(vm[p], lo, n),
                        Booked(p, a, n, in))
                 /\ torn' = IF in THEN torn \cup {p} ELSE torn

\* An exact address must lie in a reserved range or clear of all of them.
MayMapAt(p, spec, a, n) ==
    spec = "exact" /\ Collides(rr[p], a, a + n) => IsInReserved(rr[p], a, a + n)

MapFileAtOnce(t, spec, a, n, prot, mapping, fd, off, ok) ==
    LET p == ProcessOf[t] IN
    /\ bound.files /\ Ready(t) /\ Room(1) /\ Fits(a, n)
    /\ MayMapAt(p, spec, a, n)
    /\ MapFile(t, spec, a, n, prot, mapping, fd, off, InBooks(p, spec, a, n), ok)
    /\ UNCHANGED <<state, pc>>

\* With unmapAddressRange the mutex is given back while the range is unmapped:
\* what was learnt of the reserved ranges is used after that.
MapOverBegin(t, a, n, mapping) ==
    LET p == ProcessOf[t] IN
    /\ bound.files /\ MayMapAt(p, "exact", a, n)
    /\ Unmap(t, a, n)
    /\ pc' = [pc EXCEPT ![t] = [at |-> "map", lo |-> a, n |-> n, map |-> mapping,
                                in |-> InBooks(p, "exact", a, n)]]
    /\ UNCHANGED state

MapOverEnd(t, ok) ==
    LET d == pc[t]
        p == ProcessOf[t]
        lost == d.in /\ ~IsInReserved(rr[p], d.lo, d.lo)
    IN  /\ d.at = "map" /\ state[p] = "alive"
        /\ IF ~lost /\ Room(1)
                    /\ Landing(p, "exact", d.lo, d.n, d.in) # {}
           THEN MapFile(t, "exact", d.lo, d.n, {"write"}, d.map, Host, 0, d.in, ok)
           ELSE UNCHANGED <<srv, vm, rr, torn>>
        \* the assert of loader_reserved_range_longest_mappable_from
        /\ state' = IF lost THEN [state EXCEPT ![p] = "aborted"] ELSE state
        /\ Done(t)

-----------------------------------------------------------------------------
(* _moni_clone_area: the path and the size of the source, and openat. *)
Clonable(id) ==
    LET a == srv.areas[id] IN
    "clone" \in a.prot /\ IsShared(a) /\ HasPath(srv, a.file) /\ a.file \in srv.disk

CloneBegin(t, id) ==
    /\ Ready(t) /\ id \in DOMAIN srv.areas /\ Clonable(id)
    /\ pc' = [pc EXCEPT ![t] = [at |-> "clone", file |-> srv.areas[id].file,
                                n |-> Extent(id)]]
    /\ UNCHANGED <<srv, vm, rr, state, torn>>

\* The rest, in process p: the file is mapped from its start, whatever part of
\* it the source shows.
Clone(p, spec, a, n, prot, file) ==
    LET in == InBooks(p, spec, a, n)
        id == FreeId(srv)
    IN  \E lo \in Landing(p, spec, a, n, in) :
        LET s == RegisterArea(srv, p, NewArea(p, lo, lo + n, prot, "private"))
        IN  Set(p, IF "clone" \in prot THEN SharedHandle(s, id, file, 0, TRUE) ELSE s,
                Mapped(vm[p], lo, n, LAMBDA i : InFile(file, i)),
                Booked(p, a, n, in))
MayClone(p, spec, a, n) ==
    /\ Room(1) /\ Fits(a, n)
    /\ Landing(p, spec, a, n, InBooks(p, spec, a, n)) # {}

CloneEnd(t, spec, a, prot) ==
    LET p == ProcessOf[t]
        d == pc[t]
    IN  /\ d.at = "clone" /\ state[p] = "alive"
        /\ IF MayClone(p, spec, a, d.n) THEN Clone(p, spec, a, d.n, prot, d.file)
           ELSE UNCHANGED <<srv, vm, rr>>
        /\ Done(t)
        /\ UNCHANGED <<state, torn>>

(* _moni_transfer_area.  An area that cannot be cloned is copied to one that
   can. *)
TransferBegin(t, id, q) ==
    LET p == ProcessOf[t]
        a == srv.areas[id]
        Going(x) == pc' = [pc EXCEPT ![t] = [at |-> "transfer", id |-> x,
                                            base |-> id, to |-> q]]
    IN  /\ Ready(t) /\ id \in Own(t)
        /\ IF "clone" \in a.prot
           THEN Going(id) /\ UNCHANGED <<srv, vm, rr>>
           ELSE /\ Room(1)
                /\ \E lo \in FreePlaces(p, NoFile, Extent(id)) :
                    LET n == Extent(id)
                        x == FreeId(srv)
                        s == RegisterArea(srv, p, NewArea(p, lo, lo + n,
                                 a.prot \cup {"clone", "write"}, "private"))
                    IN  /\ Set(p, SharedNew(s, x),
                               Mapped(vm[p], lo, n, LAMBDA i : InFile(x, i)), rr[p])
                        /\ Going(x)
        /\ UNCHANGED <<state, torn>>

\* transfer_area and the request: the target clones.  Its answer is the id of
\* the clone, which both callers take for an error: the copy is deleted, the
\* area itself stays.
TransferEnd(t) ==
    LET d == pc[t]
        p == ProcessOf[t]
        valid == d.id \in Own(t) /\ d.base \in Own(t)
        n == Extent(d.id)
    IN  /\ d.at = "transfer" /\ state[p] = "alive"
        /\ IF valid /\ state[d.to] = "alive" /\ Clonable(d.id)
                    /\ MayClone(d.to, "any", 1, n)
           THEN Clone(d.to, "any", 1, n, srv.areas[d.base].prot, srv.areas[d.id].file)
           ELSE UNCHANGED <<srv, vm, rr>>
        /\ pc' = [pc EXCEPT ![t] = IF d.id # d.base /\ d.id \in DOMAIN srv.areas
                                   THEN Deleting(d.id) ELSE InGuest]
        /\ UNCHANGED <<state, torn>>

-----------------------------------------------------------------------------
(* _moni_reserve_address_range: an exact address is mapped over whatever is
   there.  The asserts of the loader see what was reserved before. *)
Reserve(t, spec, a, n) ==
    LET p == ProcessOf[t] IN
    /\ Cardinality(rr[p]) < bound.ranges /\ Ready(t) /\ Fits(a, n)
    /\ \E lo \in IF spec = "exact" THEN {a} ELSE FreePlaces(p, Hint(spec, a), n) :
        /\ Accepted(spec, lo, a)
        /\ Set(p, srv, Given(vm[p], lo, n),
               IF MayRegister(rr[p], lo, lo + n)
               THEN RegisterRange(rr[p], lo, lo + n) ELSE rr[p])
        /\ state' = IF MayRegister(rr[p], lo, lo + n) THEN state
                    ELSE [state EXCEPT ![p] = "aborted"]
        /\ torn' = IF Untouched(p, lo, n) THEN torn ELSE torn \cup {p}
    /\ UNCHANGED pc

(* _moni_unreserve_address_range *)
Unreserve(t, lo, n) ==
    LET p == ProcessOf[t] IN
    /\ Ready(t) /\ IsInReserved(rr[p], lo, lo + n)
    /\ Set(p, srv, Unmapped(vm[p], lo, n), UnregisterRange(rr[p], lo, lo + n))
    /\ torn' = IF Untouched(p, lo, n) THEN torn ELSE torn \cup {p}
    /\ UNCHANGED <<state, pc>>

-----------------------------------------------------------------------------
(* fork, and the loop of loader_fork in the child, which maps the private
   areas anew, each from the start of the file named after it.  It misses the
   areas that are shared and no longer cloneable, and those with an offset. *)
Fork(t, q) ==
    LET p == ProcessOf[t]
        s == ForkAreas(srv, p, q)
        fixed == {id \in s.owned[q] : s.areas[id].mapping = "private"
                      /\ "clone" \in s.areas[id].prot /\ id \in s.disk}
        missed == \E id \in s.owned[q] : IsShared(s.areas[id])
                      /\ (id \notin fixed \/ s.areas[id].off # 0)
        At(x) == {id \in fixed : s.areas[id].lo <= x /\ x < s.areas[id].hi}
    IN  /\ Ready(t) /\ bound.forks /\ state[q] = "unborn"
        /\ Room(Cardinality(Own(t)))
        /\ srv' = s
        /\ vm' = [vm EXCEPT ![q] = [x \in Page |->
                      IF At(x) = {} THEN vm[p][x]
                      ELSE LET id == Max(At(x)) IN InFile(id, x - s.areas[id].lo)]]
        /\ rr' = [rr EXCEPT ![q] = rr[p]]
        /\ state' = [state EXCEPT ![q] = "alive"]
        /\ torn' = IF p \in torn \/ missed THEN torn \cup {q} ELSE torn
        /\ UNCHANGED pc

(* the end of a team: the kernel takes its memory, the server its areas *)
Exit(p) ==
    /\ state[p] \in {"alive", "aborted"}
    /\ srv' = ExitAreas(srv, p)
    /\ vm' = [vm EXCEPT ![p] = [x \in Page |-> Free]]
    /\ rr' = [rr EXCEPT ![p] = {}]
    /\ state' = [state EXCEPT ![p] = "gone"]
    /\ pc' = [t \in GuestThread |-> IF ProcessOf[t] = p THEN InGuest ELSE pc[t]]
    /\ UNCHANGED torn

\* no file, or the file of the guest at one of two offsets, which the server
\* can open for writing or not
Sources == {[fd |-> NoFile, off |-> 0, ok |-> TRUE]}
               \cup [fd : {Host}, off : 0..1, ok : BOOLEAN]
Calls(t) ==
    \/ \E a \in Page, n \in Sizes :
        \/ \E spec \in Specs, prot \in Prots, ok \in BOOLEAN :
              CreateArea(t, spec, a, n, prot, ok)
        \/ \E prot \in Prots : SetMemoryProtection(t, a, n, prot)
        \/ UnmapMemory(t, a, n)
        \/ \E spec \in Specs, prot \in Prots, m \in Mapping, f \in Sources :
              MapFileAtOnce(t, spec, a, n, prot, m, f.fd, f.off, f.ok)
        \/ \E m \in Mapping : MapOverBegin(t, a, n, m)
        \/ \E spec \in Specs : Reserve(t, spec, a, n)
        \/ Unreserve(t, a, n)
    \/ \E id \in DOMAIN srv.areas :
        \/ DeleteBegin(t, id)
        \/ \E n \in Sizes : Shrink(t, id, n) \/ Grow(t, id, n)
        \/ \E prot \in Prots : SetAreaProtection(t, id, prot)
        \/ CloneBegin(t, id)
        \/ \E q \in Process : TransferBegin(t, id, q)
    \/ \E q \in Process : Fork(t, q)
Continues(t) ==
    \/ DeleteEnd(t)
    \/ \E ok \in BOOLEAN : MapOverEnd(t, ok)
    \/ \E spec \in Specs, a \in Page, prot \in Prots : CloneEnd(t, spec, a, prot)
    \/ TransferEnd(t)
AddressSpaceStep ==
    /\ UNCHANGED bound
    /\ \/ \E t \in GuestThread : IF Ready(t) THEN Calls(t) ELSE Continues(t)
       \/ \E p \in Process : Exit(p)

AddressSpaceSpec == AddressSpaceInit /\ [][AddressSpaceStep]_spaceVars

-----------------------------------------------------------------------------
(* Properties *)

\* The reference count of a shared file (server_memory.cpp) is the number of
\* areas registered with it, over clones, splits, forks, transfers and exits,
\* and the shm directory holds exactly the files that are in use by name.
RefsExact ==
    /\ \A f \in File :
          Cardinality({id \in DOMAIN srv.areas : srv.areas[id].file = f})
              = IF f \in DOMAIN srv.shared THEN srv.shared[f].refs ELSE 0
    /\ srv.disk = {f \in DOMAIN srv.shared : ~srv.shared[f].handle}

Intact(p) == state[p] = "alive" /\ p \notin torn

\* Every page of an area the server knows is memory in the kernel, and no page
\* is in two areas: area_for has one answer.  Processes that hit a known gap
\* (torn) are left out.
AreasBacked ==
    \A p \in Process : Intact(p) =>
        \A x \in Page :
            /\ AreaFor(srv, p, x) # {} => vm[p][x][1] \in {"anon", "file"}
            /\ Cardinality(AreaFor(srv, p, x)) <= 1

\* The loader's books say a reserved page is mapped exactly when the kernel has
\* memory there, so MAP_FIXED (create_area, map_file) never hits live memory.
BooksAgree ==
    \A p \in Process : Intact(p) =>
        \A x \in ReservedPages(rr[p]) :
            (x \in MappedPages(rr[p])) <=> (vm[p][x] # None)

\* The server, the loader and the kernel agree on what memory is there.  (the
\* areas of a process, its reserved ranges, and mmap)
AreasBooked == AreasBacked /\ BooksAgree

\* A shared area shows the part of its file that the server believes: the
\* offset follows every split, shrink and growth.
OffsetsAgree ==
    \A p \in Process : Intact(p) =>
        \A id \in srv.owned[p] :
            LET a == srv.areas[id] IN
            IsShared(a) =>
                \A x \in a.lo..(a.hi - 1) :
                    vm[p][x] = InFile(a.file, a.off + (x - a.lo))
=============================================================================
