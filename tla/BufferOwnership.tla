---------------------------- MODULE BufferOwnership ----------------------------
(***************************************************************************)
(* Who owns the memory of a message under construction: FlatBufferBuilder, *)
(* DetachedBuffer, and the MessageBuilder of grpc.h, whose memory is a     *)
(* reference-counted slice.  Each of them can be moved, swapped, reset and *)
(* released; every block must be given back once, to the allocator it came *)
(* from, while that allocator exists.                                      *)
(*                                                                         *)
(* A slice frees its block when the last reference to it goes; here the    *)
(* block is free when nothing refers to it.  For a MessageBuilder the      *)
(* FlatBufferBuilder operations it inherits and does not redefine          *)
(* (Release, a move into a plain builder) are left out.                    *)
(***************************************************************************)
EXTENDS FiniteSets

CONSTANTS Builders, Detached, Messengers,
          Allocators,     \* custom allocators
          Blocks,         \* bound: blocks of memory
          Temp,           \* the temporary of the move assignments
          None            \* a null pointer; as an allocator, the default one

Objects == Builders \union Detached \union Messengers \union {Temp}
SliceHolders == Messengers \union {Temp}

ASSUME ClassesAssumption ==
  /\ (Builders \union Detached) \intersect Messengers = {}
  /\ Temp \notin Builders \union Detached \union Messengers

\* A MessageBuilder is itself an allocator, that of its slice.
ASSUME NamesAssumption ==
  /\ Objects \intersect Allocators = {}
  /\ None \notin Objects \union Allocators \union Blocks

VARIABLES
  s,          \* objects and memory, see OwnershipInit
  raw,        \* blocks whose pointer ReleaseRaw gave to the caller
  messages    \* blocks of the slices in grpc Messages, or given to the caller

ownership == <<s, raw, messages>>

\* alive: constructed objects; deleted: custom allocators; by: for a block of an
\* allocator, the allocator it came from (None: the default one); slice: in a
\* MessageBuilder slice_allocator_.slice_, the slice_allocator_ itself being named m.
\* ok: every deallocation so far was right, and every assertion held.
OwnershipInit ==
  /\ s = [alive |-> {}, deleted |-> {}, ok |-> TRUE,
          alloc |-> [x \in Objects |-> None],
          own |-> [x \in Objects |-> FALSE],
          buf |-> [x \in Objects |-> None],
          slice |-> [m \in SliceHolders |-> None],
          by |-> [b \in {} |-> None]]
  /\ raw = {} /\ messages = {}

InUse(st) ==
  DOMAIN st.by \union messages \union ({st.slice[m] : m \in SliceHolders} \ {None})

Fresh == Blocks \ InUse(s)

Without(f, b) == [x \in DOMAIN f \ {b} |-> f[x]]
With(f, b, v) == [x \in DOMAIN f \union {b} |-> IF x = b THEN v ELSE f[x]]

-----------------------------------------------------------------------------
(* What the operations are made of: each takes the state to the next one. *)

Constructed(st, x, allocator, owned) ==
  [st EXCEPT !.alive = @ \union {x}, !.alloc[x] = allocator, !.own[x] = owned,
             !.buf[x] = None]

\* Whether x's allocator is the one its block came from, and still exists; for a slice
\* allocator, these are its assertions.
Right(st, x) ==
  LET a == st.alloc[x] IN
  IF a \in SliceHolders
  THEN a \in st.alive /\ st.slice[a] = st.buf[x]
  ELSE a \notin st.deleted /\ st.buf[x] \in DOMAIN st.by /\ st.by[st.buf[x]] = a

Deallocated(st, x) ==
  IF st.buf[x] = None THEN st
  ELSE LET a == st.alloc[x]
           checked == [st EXCEPT !.ok = @ /\ Right(st, x), !.buf[x] = None] IN
       IF a \in SliceHolders THEN [checked EXCEPT !.slice[a] = None]
                             ELSE [checked EXCEPT !.by = Without(@, st.buf[x])]

clear_allocator(st, x) ==
  [st EXCEPT !.deleted = IF st.own[x] THEN @ \union {st.alloc[x]} ELSE @,
             !.alloc[x] = None, !.own[x] = FALSE]

\* Fault: the allocator goes first.
DestroyedBackwards(st, x) ==
  Deallocated(clear_allocator([st EXCEPT !.alive = @ \ {x}], x), x)

Destroyed(st, x) ==
  LET done == clear_allocator(Deallocated(st, x), x) IN
  [done EXCEPT !.alive = @ \ {x},
               !.slice = IF x \in SliceHolders THEN [@ EXCEPT ![x] = None] ELSE @]

Exchange(f, x, y) == [f EXCEPT ![x] = f[y], ![y] = f[x]]

swap_allocator(st, x, y) ==
  [st EXCEPT !.alloc = Exchange(@, x, y), !.own = Exchange(@, x, y)]

Swap(st, x, y) == swap_allocator([st EXCEPT !.buf = Exchange(@, x, y)], x, y)

\* The default-construct and swap idiom of the move constructor.
Moved(st, x, y) == Swap(Constructed(st, x, None, FALSE), x, y)

SwapMessengers(st, m, n) ==
  swap_allocator(Swap([st EXCEPT !.slice = Exchange(@, m, n)], m, n), m, n)

ConstructedMessenger(st, m) == Constructed(st, m, m, FALSE)

MovedMessenger(st, m, n) == SwapMessengers(ConstructedMessenger(st, m), m, n)

\* A MessageBuilder from a FlatBufferBuilder: the slice takes the memory over.
Adopted(st, m, x) ==
  LET swapped == swap_allocator(Swap(ConstructedMessenger(st, m), x, m), x, m) IN
  [swapped EXCEPT !.slice[m] = swapped.buf[m], !.by = Without(@, swapped.buf[m])]

\* Memory from x's allocator, in place of what x had: the default and custom ones
\* allocate and deallocate, a slice allocator replaces its slice.
Reallocated(st, x, b) ==
  LET freed == Deallocated(st, x)
      a == st.alloc[x]
      given == [freed EXCEPT !.buf[x] = b,
                  !.ok = @ /\ (a \in SliceHolders => freed.slice[a] = None)] IN
  IF a \in SliceHolders THEN [given EXCEPT !.slice[a] = b]
                        ELSE [given EXCEPT !.by = With(@, b, a)]

-----------------------------------------------------------------------------
(* FlatBufferBuilder. *)

Do(st) == s' = st /\ UNCHANGED <<raw, messages>>

Live(x) == x \in s.alive
Holds(x) == Live(x) /\ s.buf[x] # None

\* An allocator handed over to a builder (own_allocator) is not used elsewhere; the
\* caller keeps one that it lends for as long as anything uses it.
Construct(x) ==
  /\ ~Live(x)
  /\ \/ Do(Constructed(s, x, None, FALSE))
     \/ \E a \in Allocators \ s.deleted :
          /\ \A y \in s.alive : s.alloc[y] # a
          /\ \A b \in DOMAIN s.by : s.by[b] # a
          /\ Do(Constructed(s, x, a, TRUE))

ConstructLent(x) ==
  /\ ~Live(x)
  /\ \E a \in Allocators \ s.deleted :
       /\ \A y \in s.alive : s.alloc[y] = a => ~s.own[y]
       /\ Do(Constructed(s, x, a, FALSE))

\* A write that needs memory, or more of it.
Grow(x) == Live(x) /\ \E b \in Fresh : Do(Reallocated(s, x, b))

Reset(x) == Holds(x) /\ Do(Deallocated(s, x))

\* Fault: the builder goes on with an allocator it gave away.
released_KeepsAllocator(st, x, d) ==
  [st EXCEPT !.alive = @ \union {d}, !.alloc[d] = st.alloc[x], !.own[d] = st.own[x],
             !.buf[d] = st.buf[x], !.buf[x] = None]

\* An owned allocator goes with the buffer; a lent one serves both.
released(st, x, d) ==
  [st EXCEPT !.alive = @ \union {d}, !.alloc[d] = st.alloc[x], !.own[d] = st.own[x],
             !.buf[d] = st.buf[x], !.buf[x] = None,
             !.alloc[x] = IF st.own[x] THEN None ELSE @, !.own[x] = FALSE]

Release(x, d) == Holds(x) /\ ~Live(d) /\ Do(released(s, x, d))

\* The caller gets the block, and the allocator it must go back to stays here.
ReleaseRaw(x) ==
  /\ Holds(x)
  /\ raw' = raw \union {s.buf[x]}
  /\ s' = [s EXCEPT !.buf[x] = None]
  /\ UNCHANGED messages

\* The caller's own deallocation of a raw block.
FreeRaw(b) ==
  /\ b \in raw
  /\ raw' = raw \ {b}
  /\ s' = [s EXCEPT !.by = Without(@, b)]
  /\ UNCHANGED messages

MoveConstruct(x, y) == ~Live(x) /\ Live(y) /\ Do(Moved(s, x, y))

MoveAssign(x, y) ==
  /\ Live(x) /\ Live(y)
  /\ Do(Destroyed(Swap(Moved(s, Temp, y), x, Temp), Temp))

SwapBuilders(x, y) == Live(x) /\ Live(y) /\ x # y /\ Do(Swap(s, x, y))

Destroy(x) == Live(x) /\ Do(Destroyed(s, x))

-----------------------------------------------------------------------------
(* DetachedBuffer. *)

\* The target takes everything over and the other is as constructed by default.
Took(st, d, e) ==
  [st EXCEPT !.alive = @ \union {d}, !.alloc[d] = st.alloc[e], !.own[d] = st.own[e],
             !.buf[d] = st.buf[e], !.alloc[e] = None, !.own[e] = FALSE, !.buf[e] = None]

MoveConstructDetached(d, e) == ~Live(d) /\ Live(e) /\ Do(Took(s, d, e))

\* Fault: what the target held is forgotten.
Replaced_Forgets(st, d, e) == Took(st, d, e)

Replaced(st, d, e) == Took(Destroyed(st, d), d, e)

MoveAssignDetached(d, e) == Live(d) /\ Live(e) /\ d # e /\ Do(Replaced(s, d, e))

-----------------------------------------------------------------------------
(* MessageBuilder. *)

ConstructMessenger(m) == ~Live(m) /\ Do(ConstructedMessenger(s, m))

MoveMessenger(m, n) == ~Live(m) /\ Live(n) /\ Do(MovedMessenger(s, m, n))

AssignMessenger(m, n) ==
  /\ Live(m) /\ Live(n)
  /\ Do(Destroyed(SwapMessengers(MovedMessenger(s, Temp, n), m, Temp), Temp))

\* Only a builder with the default allocator is supported.
Adopt(m, x) == ~Live(m) /\ Live(x) /\ s.alloc[x] = None /\ Do(Adopted(s, m, x))

AssignBuilder(m, x) ==
  /\ Live(m) /\ Live(x) /\ s.alloc[x] = None
  /\ Do(Destroyed(SwapMessengers(Adopted(s, Temp, x), m, Temp), Temp))

\* The slice goes to the caller, and the builder forgets its block.
ReleaseRawMessenger(m) ==
  /\ Holds(m)
  /\ messages' = messages \union {s.slice[m]}
  /\ s' = [s EXCEPT !.buf[m] = None, !.slice[m] = None]
  /\ UNCHANGED raw

\* The message refers to the block, too: writing goes on, the message with it.
GetMessage(m) ==
  /\ Holds(m)
  /\ s' = [s EXCEPT !.ok = @ /\ s.buf[m] = s.slice[m]]
  /\ messages' = messages \union {s.slice[m]}
  /\ UNCHANGED raw

ReleaseMessage(m) ==
  /\ Holds(m)
  /\ messages' = messages \union {s.slice[m]}
  /\ s' = Deallocated([s EXCEPT !.ok = @ /\ s.buf[m] = s.slice[m]], m)
  /\ UNCHANGED raw

DropMessage(b) == b \in messages /\ messages' = messages \ {b} /\ UNCHANGED <<s, raw>>

-----------------------------------------------------------------------------
BuilderStep ==
  \E x \in Builders :
    \/ Construct(x) \/ ConstructLent(x) \/ Grow(x) \/ Reset(x) \/ ReleaseRaw(x)
    \/ Destroy(x)
    \/ \E y \in Builders : MoveConstruct(x, y) \/ MoveAssign(x, y) \/ SwapBuilders(x, y)
    \/ \E d \in Detached : Release(x, d)

DetachedStep ==
  \E d \in Detached :
    \/ Destroy(d)
    \/ \E e \in Detached : MoveConstructDetached(d, e) \/ MoveAssignDetached(d, e)

MessengerStep ==
  \E m \in Messengers :
    \/ ConstructMessenger(m) \/ Grow(m) \/ Reset(m) \/ Destroy(m)
    \/ ReleaseRawMessenger(m) \/ GetMessage(m) \/ ReleaseMessage(m)
    \/ \E n \in Messengers : MoveMessenger(m, n) \/ AssignMessenger(m, n)
    \/ \E x \in Builders : Adopt(m, x) \/ AssignBuilder(m, x)

CallerStep == \E b \in Blocks : FreeRaw(b) \/ DropMessage(b)

OwnershipNext == BuilderStep \/ DetachedStep \/ MessengerStep \/ CallerStep

OwnershipSpec == OwnershipInit /\ [][OwnershipNext]_ownership

-----------------------------------------------------------------------------
(* Properties. *)

\* Every deallocation goes to the allocator the block came from, which still exists, and
\* the assertions of SliceAllocator and GetMessage hold: after any moves, swaps and
\* releases.
RightAllocator == s.ok

\* Each block in use has one owner that will give it back: none is lost, none will be
\* given back twice, and a slice's block is the one its own MessageBuilder writes to.
OneOwner ==
  /\ \A b \in DOMAIN s.by :
       Cardinality({x \in s.alive : s.buf[x] = b}) = IF b \in raw THEN 0 ELSE 1
  /\ \A m \in Messengers :
       m \in s.alive => s.alloc[m] = m /\ s.buf[m] = s.slice[m]
  /\ \A x, y \in s.alive : x # y /\ s.buf[x] # None => s.buf[x] # s.buf[y]

\* A custom allocator that was handed over is deleted by one object, and after every
\* block it gave out, those of ReleaseRaw apart; no object is left with a deleted one.
AllocatorOutlives ==
  /\ \A x \in s.alive : s.alloc[x] \notin s.deleted
  /\ \A x, y \in s.alive : s.own[x] /\ x # y => s.alloc[x] # s.alloc[y]
  /\ \A b \in DOMAIN s.by : s.by[b] \in s.deleted => b \in raw

-----------------------------------------------------------------------------
(* The inductive invariant of the properties, for every r of the blocks raw *)
(* holds, and for the states within an operation, in which Temp is alive.   *)

States ==
  [alive : SUBSET Objects, deleted : SUBSET Allocators, ok : BOOLEAN,
   alloc : [Objects -> Objects \union Allocators \union {None}],
   own : [Objects -> BOOLEAN],
   buf : [Objects -> Blocks \union {None}],
   slice : [SliceHolders -> Blocks \union {None}],
   by : UNION {[held -> Allocators \union {None}] : held \in SUBSET Blocks}]

\* What is not constructed holds nothing that constructing it would forget.
Unborn(st) ==
  /\ \A x \in Objects \ st.alive :
       st.alloc[x] = None /\ ~st.own[x] /\ st.buf[x] = None
  /\ \A m \in SliceHolders \ st.alive : st.slice[m] = None

\* An object is the allocator of its own slice, or has one that still exists.
Served(st) ==
  \A x \in st.alive :
    \/ /\ x \in SliceHolders
       /\ st.alloc[x] = x /\ ~st.own[x] /\ st.slice[x] = st.buf[x]
    \/ /\ x \notin Messengers
       /\ st.alloc[x] \in (Allocators \ st.deleted) \union {None}
       /\ st.own[x] => st.alloc[x] # None

\* A block is held by an object with the allocator it came from, or the caller has it.
Returnable(st, r) ==
  /\ r \subseteq DOMAIN st.by
  /\ \A x \in st.alive :
       st.buf[x] # None =>
         IF st.alloc[x] = x
         THEN st.buf[x] \notin DOMAIN st.by
         ELSE st.buf[x] \in DOMAIN st.by \ r /\ st.by[st.buf[x]] = st.alloc[x]
  /\ \A b \in DOMAIN st.by \ r : \E x \in st.alive : st.buf[x] = b

Apart(st) ==
  \A x, y \in st.alive :
    x # y => /\ st.buf[x] # None => st.buf[x] # st.buf[y]
             /\ st.own[x] => st.alloc[x] # st.alloc[y]

Sound(st, r) ==
  /\ st \in States /\ st.ok
  /\ Unborn(st) /\ Served(st) /\ Returnable(st, r) /\ Apart(st)

IInv == Sound(s, raw) /\ Temp \notin s.alive
=============================================================================
