-------------------------- MODULE BuilderMemory_proofs --------------------------
(***************************************************************************)
(* The memory of a builder, for any sizes, bytes, objects and blocks: what *)
(* its vector_downward holds, and who owns the blocks it is given.         *)
(*                                                                         *)
(* The two vectors of VectorDownward do not meet and hold what was pushed. *)
(* That is inductive as it stands; what has to be shown is that growing    *)
(* moves every byte to where it is looked for (GrowingKeeps), and then     *)
(* what each operation writes.                                             *)
(*                                                                         *)
(* In BufferOwnership every block has one owner and goes back to the       *)
(* allocator it came from, whatever builders, buffers and messages are     *)
(* made, moved, swapped and released.  An operation there is a composition *)
(* of operators that take a state to the next one.  So the invariant,      *)
(* Sound, is one of states, those within an operation included, and there  *)
(* is a lemma ...Sound for each operator that says under which condition   *)
(* it keeps it; those named ...Is say which fields the operator changes,   *)
(* and how.  A step of the specification (...Keeps) is then a chain of     *)
(* those lemmas.                                                           *)
(***************************************************************************)
EXTENDS VectorDownward, BufferOwnership, FiniteSetTheorems, TLAPS

(* What vector_downward holds. *)

VectorInv == TypeOK /\ Intact

LEMMA Remainder ==
  ASSUME NEW k \in Int, NEW d \in Nat \ {0}
  PROVE  k % d \in 0 .. d - 1
BY SMTT(30)

\* Rounding up rounds up.
LEMMA RoundedUp ==
  ASSUME NEW n \in Nat
  PROVE  Rounded(n) \in Nat /\ Rounded(n) >= n
<1>1. 0 - n \in Int /\ buffer_minalign_ \in Nat \ {0}
  BY SizesAssumption
<1>2. (0 - n) % buffer_minalign_ \in 0 .. buffer_minalign_ - 1
  BY <1>1, Remainder
<1> QED
  BY <1>1, <1>2 DEF Rounded

\* A larger allocation has room for len more bytes between the two vectors.
LEMMA RoomGrows ==
  ASSUME VectorInv, NEW len \in Nat
  PROVE  /\ NewReserved(len) \in Nat
         /\ NewReserved(len) >= size_ + scratch_ + len
<1> DEFINE more == Larger(len, IF reserved_ # 0 THEN reserved_ \div 2 ELSE initial_size_)
<1>1. reserved_ \in Nat /\ size_ \in Nat /\ scratch_ \in Nat /\ cur_ \in Nat
      /\ scratch_ <= cur_ /\ cur_ + size_ = reserved_
  BY DEF VectorInv, TypeOK, Intact
<1>2. more \in Nat /\ more >= len
  <2>1. reserved_ \div 2 \in Nat
    BY <1>1
  <2> QED
    BY <2>1, SizesAssumption DEF Larger
<1>3. reserved_ + more \in Nat
  BY <1>1, <1>2
<1>4. Rounded(reserved_ + more) \in Nat /\ Rounded(reserved_ + more) >= reserved_ + more
  BY <1>3, RoundedUp
<1>5. NewReserved(len) = Rounded(reserved_ + more)
  BY DEF NewReserved
<1> HIDE DEF more
<1> QED
  BY <1>1, <1>2, <1>4, <1>5

\* ensure_space(len) moves nothing that is looked for by its distance from either
\* end, and makes room.
LEMMA GrowingKeeps ==
  ASSUME VectorInv, NEW len \in Nat
  PROVE  /\ Reserved(len) \in Nat
         /\ Cur(len) = Reserved(len) - size_
         /\ scratch_ + len <= Cur(len)
         /\ Memory(len) \in [0 .. Reserved(len) - 1 -> Data \union {Undefined}]
         /\ \A i \in 1 .. size_ : Memory(len)[Reserved(len) - i] = back[i]
         /\ \A i \in 1 .. scratch_ : Memory(len)[i - 1] = front[i]
<1>1. /\ reserved_ \in Nat /\ size_ \in Nat /\ scratch_ \in Nat /\ cur_ \in Nat
      /\ mem \in [0 .. reserved_ - 1 -> Data \union {Undefined}]
      /\ scratch_ <= cur_ /\ cur_ + size_ = reserved_
      /\ \A i \in 1 .. size_ : mem[reserved_ - i] = back[i]
      /\ \A i \in 1 .. scratch_ : mem[i - 1] = front[i]
  BY DEF VectorInv, TypeOK, Intact
<1>2. CASE ~Grows(len)
  BY <1>1, <1>2 DEF Grows, Reserved, Cur, Memory, unused_buffer_size
<1>3. CASE Grows(len)
  <2> DEFINE new == NewReserved(len)
  <2>1. new \in Nat /\ new >= size_ + scratch_ + len
    BY RoomGrows
  <2>2. Reserved(len) = new /\ Cur(len) = new - size_ /\ Memory(len) = memcpy_downward(new)
    BY <1>3 DEF Reserved, Cur, Memory
  <2> HIDE DEF new
  <2>3. \A a \in 0 .. new - 1 : a >= new - size_ => a - new + reserved_ \in 0 .. reserved_ - 1
    BY <1>1, <2>1
  <2>4. \A a \in 0 .. new - 1 : a < scratch_ => a \in 0 .. reserved_ - 1
    BY <1>1, <2>1
  <2>5. memcpy_downward(new) \in [0 .. new - 1 -> Data \union {Undefined}]
    BY <1>1, <2>3, <2>4 DEF memcpy_downward
  <2>6. ASSUME NEW i \in 1 .. size_
        PROVE  memcpy_downward(new)[new - i] = back[i]
    <3>1. new - i \in 0 .. new - 1 /\ new - i >= new - size_
          /\ (new - i) - new + reserved_ = reserved_ - i
      BY <1>1, <2>1
    <3>2. memcpy_downward(new)[new - i] = mem[reserved_ - i]
      BY <3>1 DEF memcpy_downward
    <3> QED
      BY <1>1, <3>2
  <2>7. ASSUME NEW i \in 1 .. scratch_
        PROVE  memcpy_downward(new)[i - 1] = front[i]
    <3>1. i - 1 \in 0 .. new - 1 /\ ~(i - 1 >= new - size_) /\ i - 1 < scratch_
      BY <1>1, <2>1
    <3>2. memcpy_downward(new)[i - 1] = mem[i - 1]
      BY <3>1 DEF memcpy_downward
    <3> QED
      BY <1>1, <3>2
  <2> QED
    BY <1>1, <2>1, <2>2, <2>5, <2>6, <2>7
<1> QED
  BY <1>2, <1>3

\* push and fill: the bytes go below the data, in order.
LEMMA WriteKeeps ==
  ASSUME VectorInv, NEW len \in Nat, len > 0, NEW bytes \in [1 .. len -> Data],
         Write(bytes, len)
  PROVE  VectorInv'
<1> DEFINE R == Reserved(len)
           C == Cur(len)
           M == Memory(len)
<1>1. /\ R \in Nat /\ C = R - size_ /\ scratch_ + len <= C
      /\ M \in [0 .. R - 1 -> Data \union {Undefined}]
      /\ \A i \in 1 .. size_ : M[R - i] = back[i]
      /\ \A i \in 1 .. scratch_ : M[i - 1] = front[i]
  BY GrowingKeeps
<1>2. /\ size_ \in Nat /\ scratch_ \in Nat
      /\ back \in [1 .. size_ -> Data] /\ front \in [1 .. scratch_ -> Data]
  BY DEF VectorInv, TypeOK
<1>3. /\ reserved_' = R /\ cur_' = C - len /\ size_' = size_ + len
      /\ mem' = [a \in 0 .. R - 1 |->
                   IF C - len <= a /\ a < C THEN bytes[a - (C - len) + 1] ELSE M[a]]
      /\ back' = [i \in 1 .. size_ + len |->
                    IF i <= size_ THEN back[i] ELSE bytes[size_ + len - i + 1]]
      /\ scratch_' = scratch_ /\ front' = front
  BY DEF Write
<1> HIDE DEF R, C, M
<1>4. TypeOK'
  <2>1. \A a \in 0 .. R - 1 : C - len <= a /\ a < C => a - (C - len) + 1 \in 1 .. len
    BY <1>1, <1>2
  <2>2. mem' \in [0 .. R - 1 -> Data \union {Undefined}]
    BY <1>1, <1>3, <2>1
  <2>3. \A i \in 1 .. size_ + len : ~(i <= size_) => size_ + len - i + 1 \in 1 .. len
    BY <1>2
  <2>4. back' \in [1 .. size_ + len -> Data]
    BY <1>2, <1>3, <2>3
  <2> QED
    BY <1>1, <1>2, <1>3, <2>2, <2>4 DEF TypeOK
<1>5. ASSUME NEW i \in 1 .. size_ + len
      PROVE  mem'[R - i] = back'[i]
  <2>1. R - i \in 0 .. R - 1
    BY <1>1, <1>2
  <2>2. CASE i <= size_
    <3>1. ~(R - i < C) /\ i \in 1 .. size_
      BY <1>1, <1>2, <2>2
    <3>2. mem'[R - i] = M[R - i] /\ back'[i] = back[i]
      BY <1>3, <2>1, <2>2, <3>1
    <3> QED
      BY <1>1, <3>1, <3>2
  <2>3. CASE ~(i <= size_)
    <3>1. C - len <= R - i /\ R - i < C /\ (R - i) - (C - len) + 1 = size_ + len - i + 1
      BY <1>1, <1>2, <2>3
    <3>2. mem'[R - i] = bytes[(R - i) - (C - len) + 1]
      BY <1>3, <2>1, <3>1
    <3>3. back'[i] = bytes[size_ + len - i + 1]
      BY <1>3, <2>3
    <3> QED
      BY <3>1, <3>2, <3>3
  <2> QED
    BY <2>2, <2>3
<1>6. ASSUME NEW i \in 1 .. scratch_
      PROVE  mem'[i - 1] = front[i]
  <2>1. i - 1 \in 0 .. R - 1 /\ ~(C - len <= i - 1)
    BY <1>1, <1>2
  <2>2. mem'[i - 1] = M[i - 1]
    BY <1>3, <2>1
  <2> QED
    BY <1>1, <2>2
<1>7. scratch_' <= cur_' /\ cur_' + size_' = reserved_'
  BY <1>1, <1>2, <1>3
<1>8. Intact'
  BY <1>3, <1>5, <1>6, <1>7 DEF Intact
<1> QED
  BY <1>4, <1>8 DEF VectorInv

\* scratch_push_small: the bytes go above the scratch pad.
LEMMA ScratchPushKeeps ==
  ASSUME VectorInv, NEW len \in Nat, NEW bytes \in [1 .. len -> Data],
         scratch_push_small(bytes, len)
  PROVE  VectorInv'
<1> DEFINE R == Reserved(len)
           C == Cur(len)
           M == Memory(len)
<1>1. /\ R \in Nat /\ C = R - size_ /\ scratch_ + len <= C
      /\ M \in [0 .. R - 1 -> Data \union {Undefined}]
      /\ \A i \in 1 .. size_ : M[R - i] = back[i]
      /\ \A i \in 1 .. scratch_ : M[i - 1] = front[i]
  BY GrowingKeeps
<1>2. /\ size_ \in Nat /\ scratch_ \in Nat
      /\ back \in [1 .. size_ -> Data] /\ front \in [1 .. scratch_ -> Data]
  BY DEF VectorInv, TypeOK
<1>3. /\ reserved_' = R /\ cur_' = C /\ scratch_' = scratch_ + len
      /\ mem' = [a \in 0 .. R - 1 |->
                   IF scratch_ <= a /\ a < scratch_ + len THEN bytes[a - scratch_ + 1]
                                                          ELSE M[a]]
      /\ front' = [i \in 1 .. scratch_ + len |->
                     IF i <= scratch_ THEN front[i] ELSE bytes[i - scratch_]]
      /\ size_' = size_ /\ back' = back
  BY DEF scratch_push_small
<1> HIDE DEF R, C, M
<1>4. TypeOK'
  <2>1. \A a \in 0 .. R - 1 : scratch_ <= a /\ a < scratch_ + len => a - scratch_ + 1 \in 1 .. len
    BY <1>1, <1>2
  <2>2. mem' \in [0 .. R - 1 -> Data \union {Undefined}]
    BY <1>1, <1>3, <2>1
  <2>3. \A i \in 1 .. scratch_ + len : ~(i <= scratch_) => i - scratch_ \in 1 .. len
    BY <1>2
  <2>4. front' \in [1 .. scratch_ + len -> Data]
    BY <1>2, <1>3, <2>3
  <2> QED
    BY <1>1, <1>2, <1>3, <2>2, <2>4 DEF TypeOK
<1>5. ASSUME NEW i \in 1 .. size_
      PROVE  mem'[R - i] = back[i]
  <2>1. R - i \in 0 .. R - 1 /\ ~(R - i < scratch_ + len)
    BY <1>1, <1>2
  <2>2. mem'[R - i] = M[R - i]
    BY <1>3, <2>1
  <2> QED
    BY <1>1, <2>2
<1>6. ASSUME NEW i \in 1 .. scratch_ + len
      PROVE  mem'[i - 1] = front'[i]
  <2>1. i - 1 \in 0 .. R - 1
    BY <1>1, <1>2
  <2>2. CASE i <= scratch_
    <3>1. ~(scratch_ <= i - 1) /\ i \in 1 .. scratch_
      BY <1>2, <2>2
    <3>2. mem'[i - 1] = M[i - 1] /\ front'[i] = front[i]
      BY <1>3, <2>1, <2>2, <3>1
    <3> QED
      BY <1>1, <3>1, <3>2
  <2>3. CASE ~(i <= scratch_)
    <3>1. scratch_ <= i - 1 /\ i - 1 < scratch_ + len /\ (i - 1) - scratch_ + 1 = i - scratch_
      BY <1>2, <2>3
    <3>2. mem'[i - 1] = bytes[(i - 1) - scratch_ + 1]
      BY <1>3, <2>1, <3>1
    <3>3. front'[i] = bytes[i - scratch_]
      BY <1>3, <2>3
    <3> QED
      BY <3>1, <3>2, <3>3
  <2> QED
    BY <2>2, <2>3
<1>7. scratch_' <= cur_' /\ cur_' + size_' = reserved_'
  BY <1>1, <1>2, <1>3
<1>8. Intact'
  BY <1>3, <1>5, <1>6, <1>7 DEF Intact
<1> QED
  BY <1>4, <1>8 DEF VectorInv

\* The empty allocation holds two empty vectors.
LEMMA NothingHolds ==
  ASSUME reserved_ = 0, size_ = 0, cur_ = 0, scratch_ = 0,
         mem = [a \in 0 .. -1 |-> Undefined], back = Empty, front = Empty
  PROVE  VectorInv
<1>1. 1 .. 0 = {} /\ 0 .. -1 = {}
  OBVIOUS
<1>2. Empty \in [1 .. 0 -> Data]
  BY <1>1 DEF Empty
<1>3. mem \in [0 .. -1 -> Data \union {Undefined}]
  BY <1>1
<1> QED
  BY <1>1, <1>2, <1>3 DEF VectorInv, TypeOK, Intact

\* Every operation keeps the invariant.
LEMMA StepKeeps == VectorInv /\ [Next]_vars => VectorInv'
<1> SUFFICES ASSUME VectorInv, [Next]_vars
             PROVE  VectorInv'
  OBVIOUS
<1>0. /\ {reserved_, size_, cur_, scratch_} \subseteq Nat
      /\ mem \in [0 .. reserved_ - 1 -> Data \union {Undefined}]
      /\ back \in [1 .. size_ -> Data] /\ front \in [1 .. scratch_ -> Data]
      /\ scratch_ <= cur_ /\ cur_ + size_ = reserved_
      /\ \A i \in 1 .. size_ : mem[reserved_ - i] = back[i]
      /\ \A i \in 1 .. scratch_ : mem[i - 1] = front[i]
  BY DEF VectorInv, TypeOK, Intact
<1>1. CASE Pushes
  <2>1. PICK len \in 0 .. MaxLength :
               \/ \E bytes \in [1 .. len -> Data] :
                    push(bytes, len) \/ scratch_push_small(bytes, len)
               \/ fill(len)
    BY <1>1 DEF Pushes
  <2>2. len \in Nat
    BY BoundsAssumption
  <2>3. CASE fill(len)
    <3>1. [i \in 1 .. len |-> 0] \in [1 .. len -> Data]
      BY DataAssumption
    <3>2. len > 0 /\ Write([i \in 1 .. len |-> 0], len)
      BY <2>3 DEF fill, push
    <3> QED
      BY <2>2, <3>1, <3>2, WriteKeeps
  <2>4. ASSUME NEW bytes \in [1 .. len -> Data], push(bytes, len)
        PROVE  VectorInv'
    BY <2>2, <2>4, WriteKeeps DEF push
  <2>5. ASSUME NEW bytes \in [1 .. len -> Data], scratch_push_small(bytes, len)
        PROVE  VectorInv'
    BY <2>2, <2>5, ScratchPushKeeps
  <2> QED
    BY <2>1, <2>3, <2>4, <2>5
<1>2. CASE Pops
  <2>1. PICK n \in 1 .. MaxLength : pop(n) \/ scratch_pop(n)
    BY <1>2 DEF Pops
  <2>2. n \in Nat
    BY BoundsAssumption
  <2>3. CASE pop(n)
    <3>1. /\ n <= size_ /\ cur_' = cur_ + n /\ size_' = size_ - n
          /\ back' = [i \in 1 .. size_ - n |-> back[i]]
          /\ mem' = mem /\ reserved_' = reserved_ /\ scratch_' = scratch_ /\ front' = front
      BY <2>3 DEF pop
    <3>2. \A i \in 1 .. size_ - n : i \in 1 .. size_
      BY <1>0, <2>2
    <3>3. back' \in [1 .. size_' -> Data] /\ \A i \in 1 .. size_ - n : back'[i] = back[i]
      BY <1>0, <3>1, <3>2
    <3>4. TypeOK'
      BY <1>0, <2>2, <3>1, <3>3 DEF TypeOK
    <3>5. scratch_' <= cur_' /\ cur_' + size_' = reserved_'
      BY <1>0, <2>2, <3>1
    <3>6. \A i \in 1 .. size_' : mem'[reserved_' - i] = back'[i]
      BY <1>0, <3>1, <3>2, <3>3
    <3> QED
      BY <1>0, <3>1, <3>4, <3>5, <3>6 DEF VectorInv, Intact
  <2>4. CASE scratch_pop(n)
    <3>1. /\ n <= scratch_ /\ scratch_' = scratch_ - n
          /\ front' = [i \in 1 .. scratch_ - n |-> front[i]]
          /\ mem' = mem /\ reserved_' = reserved_ /\ size_' = size_ /\ cur_' = cur_
          /\ back' = back
      BY <2>4 DEF scratch_pop
    <3>2. \A i \in 1 .. scratch_ - n : i \in 1 .. scratch_
      BY <1>0, <2>2
    <3>3. front' \in [1 .. scratch_' -> Data] /\ \A i \in 1 .. scratch_ - n : front'[i] = front[i]
      BY <1>0, <3>1, <3>2
    <3>4. TypeOK'
      BY <1>0, <2>2, <3>1, <3>3 DEF TypeOK
    <3>5. scratch_' <= cur_' /\ cur_' + size_' = reserved_'
      BY <1>0, <2>2, <3>1
    <3>6. \A i \in 1 .. scratch_' : mem'[i - 1] = front'[i]
      BY <1>0, <3>1, <3>2, <3>3
    <3> QED
      BY <1>0, <3>1, <3>4, <3>5, <3>6 DEF VectorInv, Intact
  <2> QED
    BY <2>1, <2>3, <2>4
<1>3. CASE clear
  <2>1. /\ cur_' = reserved_ /\ size_' = 0 /\ scratch_' = 0
        /\ back' = Empty /\ front' = Empty /\ mem' = mem /\ reserved_' = reserved_
    BY <1>3 DEF clear
  <2>2. 1 .. 0 = {} /\ Empty \in [1 .. 0 -> Data]
    BY DEF Empty
  <2> QED
    BY <1>0, <2>1, <2>2 DEF VectorInv, TypeOK, Intact
<1>4. CASE reset
  <2>1. 1 .. 0 = {} /\ 0 .. -1 = {} /\ Empty \in [1 .. 0 -> Data]
    BY DEF Empty
  <2>2. [a \in 0 .. -1 |-> Undefined] \in [0 .. -1 -> Data \union {Undefined}]
    OBVIOUS
  <2> QED
    BY <1>4, <2>1, <2>2 DEF reset, VectorInv, TypeOK, Intact
<1>5. CASE UNCHANGED vars
  BY <1>0, <1>5 DEF vars, VectorInv, TypeOK, Intact
<1> QED
  BY <1>1, <1>2, <1>3, <1>4, <1>5 DEF Next

\* The two vectors are disjoint and hold what was pushed, after any sequence of
\* calls.
THEOREM VectorsIntact == Spec => [](TypeOK /\ Intact)
<1>1. Init => VectorInv
  BY NothingHolds DEF Init
<1>2. VectorInv /\ [Next]_vars => VectorInv'
  BY StepKeeps
<1>3. VectorInv => TypeOK /\ Intact
  BY DEF VectorInv
<1> QED
  BY <1>1, <1>2, <1>3, PTL DEF Spec

-----------------------------------------------------------------------------
(* Who owns the blocks: how the parts of the states are read. *)

LEMMA Fields ==
  ASSUME NEW st \in States
  PROVE  /\ st.alive \subseteq Objects /\ st.deleted \subseteq Allocators
         /\ st.ok \in BOOLEAN
         /\ st.alloc \in [Objects -> Objects \union Allocators \union {None}]
         /\ st.own \in [Objects -> BOOLEAN]
         /\ st.buf \in [Objects -> Blocks \union {None}]
         /\ st.slice \in [SliceHolders -> Blocks \union {None}]
         /\ DOMAIN st.by \subseteq Blocks
         /\ st.by \in [DOMAIN st.by -> Allocators \union {None}]
BY DEF States

LEMMA ByType ==
  ASSUME NEW held \in SUBSET Blocks, NEW f \in [held -> Allocators \union {None}]
  PROVE  f \in UNION {[h -> Allocators \union {None}] : h \in SUBSET Blocks}
OBVIOUS

\* An allocator is never an object, and nothing has a name of another kind.
LEMMA Names ==
  /\ None \notin Objects /\ None \notin Allocators /\ None \notin Blocks
  /\ \A a \in Allocators : a \notin Objects
  /\ SliceHolders \subseteq Objects /\ Messengers \subseteq SliceHolders
  /\ Temp \in SliceHolders /\ Temp \notin Messengers
  /\ Builders \subseteq Objects \ SliceHolders
  /\ Detached \subseteq Objects \ SliceHolders
BY ClassesAssumption, NamesAssumption DEF Objects, SliceHolders

-----------------------------------------------------------------------------

LEMMA ConstructedIs ==
  ASSUME NEW st \in States, NEW x \in Objects,
         NEW a \in Objects \union Allocators \union {None}, NEW o \in BOOLEAN
  PROVE  LET new == Constructed(st, x, a, o) IN
         /\ new \in States
         /\ new.alive = st.alive \union {x} /\ new.deleted = st.deleted
         /\ new.ok = st.ok /\ new.slice = st.slice /\ new.by = st.by
         /\ new.alloc = [st.alloc EXCEPT ![x] = a]
         /\ new.own = [st.own EXCEPT ![x] = o]
         /\ new.buf = [st.buf EXCEPT ![x] = None]
BY DEF Constructed, States

\* An object that takes an allocator which nobody else owns, and none if it is to own it.
LEMMA ConstructedSound ==
  ASSUME NEW st, NEW r, Sound(st, r),
         NEW x \in Objects \ st.alive, x \notin Messengers,
         NEW a \in (Allocators \ st.deleted) \union {None}, NEW o \in BOOLEAN,
         o => a # None,
         \A y \in st.alive : st.own[y] \/ o => st.alloc[y] # a
  PROVE  Sound(Constructed(st, x, a, o), r)
<1> DEFINE new == Constructed(st, x, a, o)
<1>s. st \in States /\ st.ok
  BY DEF Sound
<1>0. st \in States /\ x \in Objects /\ a \in Objects \union Allocators \union {None}
  BY DEF Sound
<1>1. /\ new \in States
      /\ new.alive = st.alive \union {x} /\ new.deleted = st.deleted
      /\ new.ok = st.ok /\ new.slice = st.slice /\ new.by = st.by
      /\ new.alloc = [st.alloc EXCEPT ![x] = a]
      /\ new.own = [st.own EXCEPT ![x] = o]
      /\ new.buf = [st.buf EXCEPT ![x] = None]
  BY <1>0, ConstructedIs
<1> HIDE DEF new
<1>2. /\ st.alloc \in [Objects -> Objects \union Allocators \union {None}]
      /\ st.own \in [Objects -> BOOLEAN] /\ st.buf \in [Objects -> Blocks \union {None}]
      /\ st.alive \subseteq Objects
  BY <1>s, Fields
<1>3. \A y \in st.alive : y # x /\ new.alloc[y] = st.alloc[y] /\ new.own[y] = st.own[y]
                          /\ new.buf[y] = st.buf[y]
  BY <1>1, <1>2
<1>4. new.alloc[x] = a /\ new.own[x] = o /\ new.buf[x] = None
  BY <1>1, <1>2
<1>5. Unborn(new)
  BY <1>1, <1>2 DEF Sound, Unborn
<1>6. Served(new)
  BY <1>1, <1>3, <1>4 DEF Sound, Served
<1>7. Returnable(new, r)
  BY <1>1, <1>3, <1>4 DEF Sound, Returnable
<1>8. Apart(new)
  BY <1>1, <1>3, <1>4 DEF Sound, Apart
<1> QED
  BY <1>s, <1>1, <1>5, <1>6, <1>7, <1>8 DEF Sound, new

LEMMA MessengerSound ==
  ASSUME NEW st, NEW r, Sound(st, r), NEW m \in SliceHolders \ st.alive
  PROVE  Sound(ConstructedMessenger(st, m), r)
<1> DEFINE new == Constructed(st, m, m, FALSE)
<1>s. st \in States /\ st.ok /\ m \in Objects
  BY Names DEF Sound
<1>1. /\ new \in States
      /\ new.alive = st.alive \union {m} /\ new.deleted = st.deleted
      /\ new.ok = st.ok /\ new.slice = st.slice /\ new.by = st.by
      /\ new.alloc = [st.alloc EXCEPT ![m] = m]
      /\ new.own = [st.own EXCEPT ![m] = FALSE]
      /\ new.buf = [st.buf EXCEPT ![m] = None]
  BY <1>s DEF Constructed, States
<1> HIDE DEF new
<1>2. /\ st.alloc \in [Objects -> Objects \union Allocators \union {None}]
      /\ st.own \in [Objects -> BOOLEAN] /\ st.buf \in [Objects -> Blocks \union {None}]
      /\ st.alive \subseteq Objects
  BY <1>s, Fields
<1>3. \A y \in st.alive : y # m /\ new.alloc[y] = st.alloc[y] /\ new.own[y] = st.own[y]
                          /\ new.buf[y] = st.buf[y]
  BY <1>1, <1>2
<1>4. new.alloc[m] = m /\ ~new.own[m] /\ new.buf[m] = None /\ new.slice[m] = None
  BY <1>s, <1>1, <1>2 DEF Sound, Unborn
<1>a. \A y \in st.alive : st.own[y] => st.alloc[y] # m
  BY <1>s, Names DEF Sound, Served
<1>b. None \notin DOMAIN st.by
  BY <1>s, Fields, Names
<1>5. Unborn(new)
  BY <1>1, <1>2 DEF Sound, Unborn
<1>6. Served(new)
  BY <1>1, <1>3, <1>4 DEF Sound, Served
<1>7. Returnable(new, r)
  BY <1>1, <1>3, <1>4, <1>b DEF Sound, Returnable
<1>8. Apart(new)
  BY <1>1, <1>3, <1>4, <1>a DEF Sound, Apart
<1> QED
  BY <1>s, <1>1, <1>5, <1>6, <1>7, <1>8 DEF Sound, ConstructedMessenger, new

-----------------------------------------------------------------------------

LEMMA ExchangeIs ==
  ASSUME NEW D, NEW R, NEW f \in [D -> R], NEW x \in D, NEW y \in D
  PROVE  /\ Exchange(f, x, y) \in [D -> R]
         /\ Exchange(f, x, y)[x] = f[y] /\ Exchange(f, x, y)[y] = f[x]
         /\ \A z \in D : z # x /\ z # y => Exchange(f, x, y)[z] = f[z]
BY DEF Exchange

LEMMA SwapIs ==
  ASSUME NEW st \in States, NEW x \in Objects, NEW y \in Objects
  PROVE  LET new == Swap(st, x, y) IN
         /\ new \in States
         /\ new.alive = st.alive /\ new.deleted = st.deleted
         /\ new.ok = st.ok /\ new.slice = st.slice /\ new.by = st.by
         /\ new.alloc = Exchange(st.alloc, x, y)
         /\ new.own = Exchange(st.own, x, y)
         /\ new.buf = Exchange(st.buf, x, y)
<1>1. /\ Exchange(st.alloc, x, y) \in [Objects -> Objects \union Allocators \union {None}]
      /\ Exchange(st.own, x, y) \in [Objects -> BOOLEAN]
      /\ Exchange(st.buf, x, y) \in [Objects -> Blocks \union {None}]
  BY Fields, ExchangeIs
<1> QED
  BY <1>1 DEF Swap, swap_allocator, States

\* Two objects that are not allocators of slices swap everything.
LEMMA SwapSound ==
  ASSUME NEW st, NEW r, Sound(st, r), NEW x \in st.alive, NEW y \in st.alive, x # y,
         st.alloc[x] # x, st.alloc[y] # y
  PROVE  Sound(Swap(st, x, y), r)
<1> DEFINE new == Swap(st, x, y)
<1>s. st \in States /\ st.ok
  BY DEF Sound
<1>2. /\ st.alloc \in [Objects -> Objects \union Allocators \union {None}]
      /\ st.own \in [Objects -> BOOLEAN] /\ st.buf \in [Objects -> Blocks \union {None}]
      /\ st.alive \subseteq Objects /\ x \in Objects /\ y \in Objects
  BY <1>s, Fields
<1>1. /\ new \in States
      /\ new.alive = st.alive /\ new.deleted = st.deleted
      /\ new.ok = st.ok /\ new.slice = st.slice /\ new.by = st.by
      /\ new.alloc = Exchange(st.alloc, x, y)
      /\ new.own = Exchange(st.own, x, y)
      /\ new.buf = Exchange(st.buf, x, y)
  BY <1>s, <1>2, SwapIs
<1> HIDE DEF new
<1>3. \A z \in Objects : z # x /\ z # y =>
        new.alloc[z] = st.alloc[z] /\ new.own[z] = st.own[z] /\ new.buf[z] = st.buf[z]
  BY <1>1, <1>2 DEF Exchange
<1>4. /\ new.alloc[x] = st.alloc[y] /\ new.own[x] = st.own[y] /\ new.buf[x] = st.buf[y]
      /\ new.alloc[y] = st.alloc[x] /\ new.own[y] = st.own[x] /\ new.buf[y] = st.buf[x]
  BY <1>1, <1>2 DEF Exchange
<1>5. Unborn(new)
  BY <1>1, <1>2, <1>3 DEF Sound, Unborn
<1>p. /\ x \notin Messengers /\ st.alloc[x] \in (Allocators \ st.deleted) \union {None}
      /\ y \notin Messengers /\ st.alloc[y] \in (Allocators \ st.deleted) \union {None}
      /\ st.own[x] => st.alloc[x] # None
      /\ st.own[y] => st.alloc[y] # None
  BY DEF Sound, Served
<1>q. new.alloc[x] # x /\ new.alloc[y] # y
  BY <1>2, <1>4, <1>p, Names
<1>6. Served(new)
  BY <1>1, <1>2, <1>3, <1>4, <1>p DEF Sound, Served
<1>7. Returnable(new, r)
  BY <1>1, <1>2, <1>3, <1>4, <1>q DEF Sound, Returnable
<1>8. Apart(new)
  BY <1>1, <1>2, <1>3, <1>4 DEF Sound, Apart
<1> QED
  BY <1>s, <1>1, <1>5, <1>6, <1>7, <1>8 DEF Sound, new

LEMMA SwapMessengersIs ==
  ASSUME NEW st \in States, NEW m \in SliceHolders, NEW n \in SliceHolders, m # n
  PROVE  LET new == SwapMessengers(st, m, n) IN
         /\ new \in States
         /\ new.alive = st.alive /\ new.deleted = st.deleted
         /\ new.ok = st.ok /\ new.by = st.by
         /\ new.alloc = st.alloc /\ new.own = st.own
         /\ new.slice = Exchange(st.slice, m, n)
         /\ new.buf = Exchange(st.buf, m, n)
<1> DEFINE one == [st EXCEPT !.slice = Exchange(@, m, n)]
           two == Swap(one, m, n)
           new == swap_allocator(two, m, n)
<1>1. m \in Objects /\ n \in Objects
  BY Names
<1>2. Exchange(st.slice, m, n) \in [SliceHolders -> Blocks \union {None}]
  BY Fields, ExchangeIs
<1>3. /\ one \in States
      /\ one.alive = st.alive /\ one.deleted = st.deleted
      /\ one.ok = st.ok /\ one.by = st.by
      /\ one.alloc = st.alloc /\ one.own = st.own /\ one.buf = st.buf
      /\ one.slice = Exchange(st.slice, m, n)
  BY <1>2 DEF States
<1> HIDE DEF one
<1>4. /\ two \in States
      /\ two.alive = st.alive /\ two.deleted = st.deleted
      /\ two.ok = st.ok /\ two.by = st.by
      /\ two.alloc = Exchange(st.alloc, m, n) /\ two.own = Exchange(st.own, m, n)
      /\ two.buf = Exchange(st.buf, m, n)
      /\ two.slice = Exchange(st.slice, m, n)
  BY <1>1, <1>3, SwapIs
<1> HIDE DEF two
<1>5. /\ Exchange(two.alloc, m, n) = st.alloc
      /\ Exchange(two.own, m, n) = st.own
  <2>1. \A f : f \in [Objects -> Objects \union Allocators \union {None}]
               => Exchange(Exchange(f, m, n), m, n) = f
    BY <1>1 DEF Exchange
  <2>2. \A f : f \in [Objects -> BOOLEAN] => Exchange(Exchange(f, m, n), m, n) = f
    BY <1>1, Zenon DEF Exchange
  <2> QED
    BY <1>4, <2>1, <2>2, Fields
<1>6. /\ new.alive = two.alive /\ new.deleted = two.deleted
      /\ new.ok = two.ok /\ new.by = two.by
      /\ new.alloc = Exchange(two.alloc, m, n) /\ new.own = Exchange(two.own, m, n)
      /\ new.buf = two.buf /\ new.slice = two.slice
  BY <1>4 DEF swap_allocator, States
<1>7. /\ st.alloc \in [Objects -> Objects \union Allocators \union {None}]
      /\ st.own \in [Objects -> BOOLEAN]
  BY Fields
<1>8. new \in States
  BY <1>4, <1>5, <1>7 DEF swap_allocator, States
<1>9. new = SwapMessengers(st, m, n)
  BY DEF SwapMessengers, new, two, one
<1> HIDE DEF new
<1> QED
  BY <1>4, <1>5, <1>6, <1>8, <1>9

\* Two slice allocators swap slices, the builders swap what refers to them.
LEMMA SwapMessengersSound ==
  ASSUME NEW st, NEW r, Sound(st, r), NEW m \in st.alive, NEW n \in st.alive, m # n,
         st.alloc[m] = m, st.alloc[n] = n
  PROVE  Sound(SwapMessengers(st, m, n), r)
<1> DEFINE new == SwapMessengers(st, m, n)
<1>s. st \in States /\ st.ok /\ m \in Objects /\ n \in Objects
  BY Fields DEF Sound
<1>0. m \in SliceHolders /\ n \in SliceHolders
      /\ st.slice[m] = st.buf[m] /\ st.slice[n] = st.buf[n] /\ ~st.own[m] /\ ~st.own[n]
  BY <1>s, Names DEF Sound, Served
<1>2. /\ st.alloc \in [Objects -> Objects \union Allocators \union {None}]
      /\ st.own \in [Objects -> BOOLEAN] /\ st.buf \in [Objects -> Blocks \union {None}]
      /\ st.slice \in [SliceHolders -> Blocks \union {None}]
      /\ st.alive \subseteq Objects
  BY <1>s, Fields
<1>1. /\ new \in States
      /\ new.alive = st.alive /\ new.deleted = st.deleted
      /\ new.ok = st.ok /\ new.by = st.by
      /\ new.alloc = st.alloc /\ new.own = st.own
      /\ new.slice = Exchange(st.slice, m, n)
      /\ new.buf = Exchange(st.buf, m, n)
  BY <1>s, <1>0, SwapMessengersIs
<1> HIDE DEF new
<1>3. /\ \A z \in Objects : z # m /\ z # n => new.buf[z] = st.buf[z]
      /\ \A z \in SliceHolders : z # m /\ z # n => new.slice[z] = st.slice[z]
  BY <1>s, <1>0, <1>1, <1>2 DEF Exchange
<1>4. /\ new.buf[m] = st.buf[n] /\ new.buf[n] = st.buf[m]
      /\ new.slice[m] = st.slice[n] /\ new.slice[n] = st.slice[m]
  BY <1>s, <1>0, <1>1, <1>2 DEF Exchange
<1>5. Unborn(new)
  BY <1>1, <1>2, <1>3 DEF Sound, Unborn
<1>6. Served(new)
  <2> SUFFICES ASSUME NEW x \in st.alive
               PROVE  \/ /\ x \in SliceHolders
                         /\ new.alloc[x] = x /\ ~new.own[x] /\ new.slice[x] = new.buf[x]
                      \/ /\ x \notin Messengers
                         /\ new.alloc[x] \in (Allocators \ new.deleted) \union {None}
                         /\ new.own[x] => new.alloc[x] # None
    BY <1>1 DEF Served
  <2>1. CASE x \in {m, n}
    BY <1>0, <1>1, <1>4, <2>1
  <2>2. CASE x \notin {m, n}
    BY <1>1, <1>2, <1>3, <2>2 DEF Sound, Served
  <2> QED
    BY <2>1, <2>2
<1>7. Returnable(new, r)
  <2>1. \A x \in st.alive :
          new.buf[x] # None =>
            IF new.alloc[x] = x
            THEN new.buf[x] \notin DOMAIN new.by
            ELSE new.buf[x] \in DOMAIN new.by \ r /\ new.by[new.buf[x]] = new.alloc[x]
    BY <1>1, <1>2, <1>3, <1>4 DEF Sound, Returnable
  <2>2. \A b \in DOMAIN new.by \ r : \E x \in st.alive : new.buf[x] = b
    BY <1>1, <1>2, <1>3, <1>4 DEF Sound, Returnable
  <2> QED
    BY <1>1, <2>1, <2>2 DEF Sound, Returnable
<1>8. Apart(new)
  BY <1>0, <1>1, <1>2, <1>3, <1>4 DEF Sound, Apart
<1> QED
  BY <1>s, <1>1, <1>5, <1>6, <1>7, <1>8 DEF Sound, new

-----------------------------------------------------------------------------

LEMMA WithoutIs ==
  ASSUME NEW D, NEW R, NEW f \in [D -> R], NEW b
  PROVE  /\ Without(f, b) \in [D \ {b} -> R]
         /\ DOMAIN Without(f, b) = D \ {b}
         /\ \A d \in D \ {b} : Without(f, b)[d] = f[d]
         /\ b \notin D => Without(f, b) = f
BY DEF Without

\* What an object's allocator says of its block is right.
LEMMA RightOne ==
  ASSUME NEW st, NEW r, Sound(st, r), NEW x \in st.alive, st.buf[x] # None
  PROVE  Right(st, x)
<1>1. st \in States /\ x \in Objects
  BY Fields DEF Sound
<1>2. CASE st.alloc[x] = x
  <2>1. x \in SliceHolders /\ st.slice[x] = st.buf[x]
    BY <1>1, <1>2, Names DEF Sound, Served
  <2> QED
    BY <1>2, <2>1 DEF Right
<1>3. CASE st.alloc[x] # x
  <2>1. st.alloc[x] \in (Allocators \ st.deleted) \union {None}
    BY <1>3 DEF Sound, Served
  <2>2. st.alloc[x] \notin SliceHolders /\ st.alloc[x] \notin st.deleted
    BY <1>1, <2>1, Names, Fields
  <2>3. st.buf[x] \in DOMAIN st.by /\ st.by[st.buf[x]] = st.alloc[x]
    BY <1>3 DEF Sound, Returnable
  <2> QED
    BY <2>2, <2>3 DEF Right
<1> QED
  BY <1>2, <1>3

LEMMA DeallocatedIs ==
  ASSUME NEW st, NEW r, Sound(st, r), NEW x \in st.alive
  PROVE  LET new == Deallocated(st, x) IN
         /\ new \in States
         /\ new.alive = st.alive /\ new.deleted = st.deleted /\ new.ok
         /\ new.alloc = st.alloc /\ new.own = st.own
         /\ new.buf = [st.buf EXCEPT ![x] = None]
         /\ st.alloc[x] = x => /\ new.slice = [st.slice EXCEPT ![x] = None]
                               /\ new.by = st.by
         /\ st.alloc[x] # x => /\ new.slice = st.slice
                               /\ new.by = Without(st.by, st.buf[x])
<1>s. st \in States /\ st.ok /\ x \in Objects
  BY Fields DEF Sound
<1>1. /\ st.buf \in [Objects -> Blocks \union {None}]
      /\ st.slice \in [SliceHolders -> Blocks \union {None}]
      /\ DOMAIN st.by \subseteq Blocks
      /\ st.by \in [DOMAIN st.by -> Allocators \union {None}]
  BY <1>s, Fields
<1>2. /\ st.alloc[x] = x => x \in SliceHolders /\ st.slice[x] = st.buf[x]
      /\ st.alloc[x] # x => st.alloc[x] \notin SliceHolders
  <2>1. CASE st.alloc[x] = x
    BY <1>s, <2>1, Names DEF Sound, Served
  <2>2. CASE st.alloc[x] # x
    <3>1. st.alloc[x] \in (Allocators \ st.deleted) \union {None}
      BY <2>2 DEF Sound, Served
    <3> QED
      BY <2>2, <3>1, Names
  <2> QED
    BY <2>1, <2>2
<1>3. CASE st.buf[x] = None
  <2>1. Deallocated(st, x) = st
    BY <1>3 DEF Deallocated
  <2>2. st.buf = [st.buf EXCEPT ![x] = None]
    BY <1>s, <1>1, <1>3
  <2>3. st.alloc[x] = x => st.slice = [st.slice EXCEPT ![x] = None]
    BY <1>s, <1>1, <1>2, <1>3
  <2>4. st.by = Without(st.by, st.buf[x])
    <3>1. st.buf[x] \notin DOMAIN st.by
      BY <1>1, <1>3, Names
    <3> QED
      BY <1>1, <3>1 DEF Without
  <2> QED
    BY <1>s, <2>1, <2>2, <2>3, <2>4
<1>4. CASE st.buf[x] # None
  <2> DEFINE checked == [st EXCEPT !.ok = @ /\ Right(st, x), !.buf[x] = None]
  <2>1. Right(st, x)
    BY <1>4, RightOne
  <2>2. /\ checked.alive = st.alive /\ checked.deleted = st.deleted /\ checked.ok
        /\ checked.alloc = st.alloc /\ checked.own = st.own
        /\ checked.buf = [st.buf EXCEPT ![x] = None]
        /\ checked.slice = st.slice /\ checked.by = st.by
        /\ checked \in States
    BY <1>s, <2>1 DEF States
  <2>3. CASE st.alloc[x] = x
    <3>1. Deallocated(st, x) = [checked EXCEPT !.slice[x] = None]
      BY <1>2, <1>4, <2>3 DEF Deallocated
    <3> HIDE DEF checked
    <3>2. [checked EXCEPT !.slice[x] = None] \in States
      BY <2>2 DEF States
    <3>3. /\ [checked EXCEPT !.slice[x] = None].alive = checked.alive
          /\ [checked EXCEPT !.slice[x] = None].deleted = checked.deleted
          /\ [checked EXCEPT !.slice[x] = None].ok = checked.ok
          /\ [checked EXCEPT !.slice[x] = None].alloc = checked.alloc
          /\ [checked EXCEPT !.slice[x] = None].own = checked.own
          /\ [checked EXCEPT !.slice[x] = None].buf = checked.buf
          /\ [checked EXCEPT !.slice[x] = None].by = checked.by
          /\ [checked EXCEPT !.slice[x] = None].slice = [checked.slice EXCEPT ![x] = None]
      BY <2>2 DEF States
    <3> QED
      BY <2>2, <2>3, <3>1, <3>2, <3>3
  <2>4. CASE st.alloc[x] # x
    <3> DEFINE rest == Without(checked.by, st.buf[x])
    <3>1. Deallocated(st, x) = [checked EXCEPT !.by = rest]
      BY <1>2, <1>4, <2>4 DEF Deallocated
    <3>0. rest = Without(st.by, st.buf[x])
      BY <2>2
    <3> HIDE DEF checked, rest
    <3>2. rest \in UNION {[h -> Allocators \union {None}] : h \in SUBSET Blocks}
      <4>1. rest \in [DOMAIN st.by \ {st.buf[x]} -> Allocators \union {None}]
        BY <1>1, <3>0, WithoutIs
      <4> QED
        BY <1>1, <4>1, ByType
    <3>3. [checked EXCEPT !.by = rest] \in States
      BY <2>2, <3>2 DEF States
    <3>4. /\ [checked EXCEPT !.by = rest].alive = checked.alive
          /\ [checked EXCEPT !.by = rest].deleted = checked.deleted
          /\ [checked EXCEPT !.by = rest].ok = checked.ok
          /\ [checked EXCEPT !.by = rest].alloc = checked.alloc
          /\ [checked EXCEPT !.by = rest].own = checked.own
          /\ [checked EXCEPT !.by = rest].buf = checked.buf
          /\ [checked EXCEPT !.by = rest].slice = checked.slice
          /\ [checked EXCEPT !.by = rest].by = rest
      BY <2>2 DEF States
    <3> QED
      BY <2>2, <2>4, <3>0, <3>1, <3>3, <3>4
  <2> QED
    BY <2>3, <2>4
<1> QED
  BY <1>3, <1>4

\* Afterwards x holds nothing; everybody else's block is still theirs.
LEMMA DeallocatedSound ==
  ASSUME NEW st, NEW r, Sound(st, r), NEW x \in st.alive
  PROVE  Sound(Deallocated(st, x), r)
<1> DEFINE new == Deallocated(st, x)
<1>s. st \in States /\ st.ok /\ x \in Objects
  BY Fields DEF Sound
<1>1. /\ new \in States
      /\ new.alive = st.alive /\ new.deleted = st.deleted /\ new.ok
      /\ new.alloc = st.alloc /\ new.own = st.own
      /\ new.buf = [st.buf EXCEPT ![x] = None]
      /\ st.alloc[x] = x => /\ new.slice = [st.slice EXCEPT ![x] = None]
                            /\ new.by = st.by
      /\ st.alloc[x] # x => /\ new.slice = st.slice
                            /\ new.by = Without(st.by, st.buf[x])
  BY DeallocatedIs
<1> HIDE DEF new
<1>2. /\ st.alloc \in [Objects -> Objects \union Allocators \union {None}]
      /\ st.own \in [Objects -> BOOLEAN] /\ st.buf \in [Objects -> Blocks \union {None}]
      /\ st.slice \in [SliceHolders -> Blocks \union {None}]
      /\ DOMAIN st.by \subseteq Blocks
      /\ st.by \in [DOMAIN st.by -> Allocators \union {None}]
      /\ st.alive \subseteq Objects
  BY <1>s, Fields
<1>3. /\ \A y \in Objects : y # x => new.buf[y] = st.buf[y]
      /\ new.buf[x] = None
  BY <1>s, <1>1, <1>2
<1>4. /\ \A m \in SliceHolders : m # x => new.slice[m] = st.slice[m]
      /\ st.alloc[x] = x /\ x \in SliceHolders => new.slice[x] = None
  BY <1>s, <1>1, <1>2
<1>5. Unborn(new)
  BY <1>1, <1>2, <1>3, <1>4 DEF Sound, Unborn
<1>6. Served(new)
  BY <1>1, <1>2, <1>3, <1>4 DEF Sound, Served
<1>7. /\ DOMAIN new.by = IF st.alloc[x] = x THEN DOMAIN st.by
                                            ELSE DOMAIN st.by \ {st.buf[x]}
      /\ \A b \in DOMAIN new.by : new.by[b] = st.by[b]
  <2>1. CASE st.alloc[x] = x
    BY <1>1, <2>1
  <2>2. CASE st.alloc[x] # x
    <3>1. /\ DOMAIN Without(st.by, st.buf[x]) = DOMAIN st.by \ {st.buf[x]}
          /\ \A d \in DOMAIN st.by \ {st.buf[x]} : Without(st.by, st.buf[x])[d] = st.by[d]
      BY DEF Without
    <3> QED
      BY <1>1, <2>2, <3>1
  <2> QED
    BY <2>1, <2>2
<1>8. Returnable(new, r)
  <2>1. r \subseteq DOMAIN new.by
    BY <1>7, <1>2, Names DEF Sound, Returnable
  <2>2. \A y \in st.alive :
          new.buf[y] # None =>
            IF new.alloc[y] = y
            THEN new.buf[y] \notin DOMAIN new.by
            ELSE new.buf[y] \in DOMAIN new.by \ r /\ new.by[new.buf[y]] = new.alloc[y]
    BY <1>1, <1>2, <1>3, <1>7 DEF Sound, Returnable, Apart
  <2>3. \A b \in DOMAIN new.by \ r : \E y \in st.alive : new.buf[y] = b
    <3> SUFFICES ASSUME NEW b \in DOMAIN new.by \ r
                 PROVE  \E y \in st.alive : new.buf[y] = b
      OBVIOUS
    <3>1. b \in DOMAIN st.by \ r
      BY <1>7
    <3>2. PICK y \in st.alive : st.buf[y] = b
      BY <3>1 DEF Sound, Returnable
    <3>3. y # x
      <4>1. CASE st.alloc[x] = x
        BY <3>1, <3>2, <4>1, <1>2, Names DEF Sound, Returnable
      <4>2. CASE st.alloc[x] # x
        BY <3>2, <4>2, <1>7
      <4> QED
        BY <4>1, <4>2
    <3> QED
      BY <1>2, <1>3, <3>2, <3>3
  <2> QED
    BY <1>1, <2>1, <2>2, <2>3 DEF Returnable
<1>9. Apart(new)
  BY <1>1, <1>2, <1>3 DEF Sound, Apart
<1> QED
  BY <1>1, <1>5, <1>6, <1>8, <1>9 DEF Sound, new

\* An object that holds no block any more goes, with the allocator it owned.
LEMMA DestroyedSound ==
  ASSUME NEW st, NEW r, Sound(st, r), NEW x \in st.alive
  PROVE  /\ Sound(Destroyed(st, x), r)
         /\ Destroyed(st, x).alive = st.alive \ {x}
<1> DEFINE mid == Deallocated(st, x)
           cleared == clear_allocator(mid, x)
           new == Destroyed(st, x)
<1>1. Sound(mid, r) /\ mid.alive = st.alive /\ mid.alloc = st.alloc /\ mid.own = st.own
      /\ mid.buf = [st.buf EXCEPT ![x] = None]
  BY DeallocatedSound, DeallocatedIs
<1>d. new = [cleared EXCEPT !.alive = @ \ {x},
               !.slice = IF x \in SliceHolders THEN [@ EXCEPT ![x] = None] ELSE @]
  BY DEF Destroyed
<1>c. cleared = [mid EXCEPT !.deleted = IF mid.own[x] THEN @ \union {mid.alloc[x]} ELSE @,
                            !.alloc[x] = None, !.own[x] = FALSE]
  BY DEF clear_allocator
<1>s. mid \in States /\ mid.ok
  BY <1>1 DEF Sound
<1>m. mid.buf[x] = None /\ x \in Objects /\ x \in mid.alive
  <2>1. st \in States
    BY DEF Sound
  <2> QED
    BY <1>1, <2>1, Fields
<1> HIDE DEF mid, cleared, new
<1>2. /\ mid.alloc \in [Objects -> Objects \union Allocators \union {None}]
      /\ mid.own \in [Objects -> BOOLEAN] /\ mid.buf \in [Objects -> Blocks \union {None}]
      /\ mid.slice \in [SliceHolders -> Blocks \union {None}]
      /\ mid.alive \subseteq Objects /\ mid.deleted \subseteq Allocators
  BY <1>s, Fields
<1>3. mid.own[x] => mid.alloc[x] \in Allocators
  BY <1>1, <1>m DEF Sound, Served
<1>4. /\ cleared \in States
      /\ cleared.deleted = IF mid.own[x] THEN mid.deleted \union {mid.alloc[x]}
                                         ELSE mid.deleted
      /\ cleared.alive = mid.alive /\ cleared.ok = mid.ok
      /\ cleared.alloc = [mid.alloc EXCEPT ![x] = None]
      /\ cleared.own = [mid.own EXCEPT ![x] = FALSE]
      /\ cleared.buf = mid.buf /\ cleared.slice = mid.slice /\ cleared.by = mid.by
  BY <1>s, <1>c, <1>3 DEF States
<1>5. /\ new \in States
      /\ new.alive = mid.alive \ {x} /\ new.deleted = cleared.deleted /\ new.ok = mid.ok
      /\ new.alloc = cleared.alloc /\ new.own = cleared.own
      /\ new.buf = mid.buf /\ new.by = mid.by
      /\ new.slice = IF x \in SliceHolders THEN [mid.slice EXCEPT ![x] = None]
                                           ELSE mid.slice
  BY <1>d, <1>4 DEF States
<1>6. \A y \in Objects : y # x => new.alloc[y] = mid.alloc[y] /\ new.own[y] = mid.own[y]
  BY <1>2, <1>4, <1>5
<1>7. /\ \A m \in SliceHolders : m # x => new.slice[m] = mid.slice[m]
      /\ x \in SliceHolders => new.slice[x] = None
      /\ new.alloc[x] = None /\ ~new.own[x]
  BY <1>2, <1>4, <1>5, <1>m
<1>8. Unborn(new)
  BY <1>1, <1>2, <1>m, <1>5, <1>6, <1>7 DEF Sound, Unborn
<1>9. Served(new)
  <2> SUFFICES ASSUME NEW y \in mid.alive \ {x}
               PROVE  \/ /\ y \in SliceHolders
                         /\ new.alloc[y] = y /\ ~new.own[y] /\ new.slice[y] = new.buf[y]
                      \/ /\ y \notin Messengers
                         /\ new.alloc[y] \in (Allocators \ new.deleted) \union {None}
                         /\ new.own[y] => new.alloc[y] # None
    BY <1>5 DEF Served
  <2>1. mid.own[x] => mid.alloc[y] # mid.alloc[x]
    BY <1>1, <1>m DEF Sound, Apart
  <2> QED
    BY <1>1, <1>2, <1>4, <1>5, <1>6, <1>7, <2>1 DEF Sound, Served
<1>10. Returnable(new, r)
  <2>1. None \notin DOMAIN mid.by
    BY <1>s, Fields, Names
  <2> QED
    BY <1>1, <1>2, <1>m, <1>5, <1>6, <2>1 DEF Sound, Returnable
<1>11. Apart(new)
  BY <1>1, <1>2, <1>5, <1>6 DEF Sound, Apart
<1> QED
  BY <1>s, <1>1, <1>5, <1>8, <1>9, <1>10, <1>11 DEF Sound, new

\* A new block comes from x's own allocator and is nobody else's.
LEMMA ReallocatedSound ==
  ASSUME NEW st, NEW r, Sound(st, r), NEW x \in st.alive, NEW b \in Blocks,
         b \notin DOMAIN st.by, \A m \in SliceHolders : st.slice[m] # b
  PROVE  Sound(Reallocated(st, x, b), r) /\ Reallocated(st, x, b).alive = st.alive
<1> DEFINE freed == Deallocated(st, x)
           a == st.alloc[x]
           given == [freed EXCEPT !.buf[x] = b,
                       !.ok = @ /\ (a \in SliceHolders => freed.slice[a] = None)]
           new == Reallocated(st, x, b)
<1>n. new = IF a \in SliceHolders THEN [given EXCEPT !.slice[a] = b]
                                  ELSE [given EXCEPT !.by = With(@, b, a)]
  BY DEF Reallocated
<1>1. /\ Sound(freed, r)
      /\ freed.alive = st.alive /\ freed.alloc = st.alloc
      /\ freed.buf = [st.buf EXCEPT ![x] = None]
      /\ st.alloc[x] = x => freed.slice = [st.slice EXCEPT ![x] = None]
      /\ st.alloc[x] # x => freed.slice = st.slice
      /\ b \notin DOMAIN freed.by
  <2>1. /\ freed.alive = st.alive /\ freed.alloc = st.alloc
        /\ freed.buf = [st.buf EXCEPT ![x] = None]
        /\ st.alloc[x] = x => /\ freed.slice = [st.slice EXCEPT ![x] = None]
                              /\ freed.by = st.by
        /\ st.alloc[x] # x => /\ freed.slice = st.slice
                              /\ freed.by = Without(st.by, st.buf[x])
    BY DeallocatedIs
  <2>2. DOMAIN Without(st.by, st.buf[x]) \subseteq DOMAIN st.by
    BY DEF Without
  <2> QED
    BY <2>1, <2>2, DeallocatedSound
<1>s. freed \in States /\ freed.ok /\ x \in Objects /\ x \in freed.alive /\ b # None
  BY <1>1, Fields, Names DEF Sound
<1>0. st.buf \in [Objects -> Blocks \union {None}]
      /\ st.slice \in [SliceHolders -> Blocks \union {None}]
  <2>1. st \in States
    BY DEF Sound
  <2> QED
    BY <2>1, Fields
<1>b. /\ freed.buf[x] = None
      /\ \A y \in freed.alive : freed.buf[y] # b
  <2>1. freed.buf[x] = None
    BY <1>0, <1>1, <1>s
  <2>2. ASSUME NEW y \in freed.alive PROVE freed.buf[y] # b
    <3>1. CASE y = x
      BY <2>1, <1>s, <3>1
    <3>2. CASE y # x
      <4>1. CASE freed.alloc[y] = y
        <5>1. y \in SliceHolders /\ freed.slice[y] = freed.buf[y]
          BY <4>1, <1>1, <1>s, Fields, Names DEF Sound, Served
        <5>2. freed.slice[y] = st.slice[y]
          BY <1>0, <1>1, <3>2, <5>1
        <5> QED
          BY <5>1, <5>2
      <4>2. CASE freed.alloc[y] # y
        BY <4>2, <1>1, <1>s DEF Sound, Returnable
      <4> QED
        BY <4>1, <4>2
    <3> QED
      BY <3>1, <3>2
  <2> QED
    BY <2>1, <2>2
<1>a. /\ a = freed.alloc[x]
      /\ a = x => x \in SliceHolders /\ freed.slice[x] = None /\ ~freed.own[x]
      /\ a # x => a \in (Allocators \ freed.deleted) \union {None} /\ a \notin SliceHolders
  <2>1. CASE a = x
    BY <1>1, <1>s, <1>b, <2>1, Names DEF Sound, Served
  <2>2. CASE a # x
    <3>1. a \in (Allocators \ freed.deleted) \union {None}
      BY <1>1, <1>s, <2>2 DEF Sound, Served
    <3> QED
      BY <1>1, <2>2, <3>1, Names
  <2> QED
    BY <1>1, <2>1, <2>2
<1> HIDE DEF freed, a
<1>g. /\ given \in States
      /\ given.alive = freed.alive /\ given.deleted = freed.deleted /\ given.ok
      /\ given.alloc = freed.alloc /\ given.own = freed.own
      /\ given.buf = [freed.buf EXCEPT ![x] = b]
      /\ given.slice = freed.slice /\ given.by = freed.by
  <2>1. a \in SliceHolders => freed.slice[a] = None
    BY <1>a, Names
  <2> QED
    BY <1>s, <2>1 DEF States
<1> HIDE DEF given, new
<1>2. /\ freed.alloc \in [Objects -> Objects \union Allocators \union {None}]
      /\ freed.own \in [Objects -> BOOLEAN] /\ freed.buf \in [Objects -> Blocks \union {None}]
      /\ freed.slice \in [SliceHolders -> Blocks \union {None}]
      /\ freed.alive \subseteq Objects /\ DOMAIN freed.by \subseteq Blocks
      /\ freed.by \in [DOMAIN freed.by -> Allocators \union {None}]
  BY <1>s, Fields
<1>3. CASE a = x
  <2>1. /\ new \in States
        /\ new.alive = freed.alive /\ new.deleted = freed.deleted /\ new.ok
        /\ new.alloc = freed.alloc /\ new.own = freed.own
        /\ new.buf = [freed.buf EXCEPT ![x] = b] /\ new.by = freed.by
        /\ new.slice = [freed.slice EXCEPT ![x] = b]
    BY <1>g, <1>n, <1>a, <1>3 DEF States
  <2>2. /\ \A y \in Objects : y # x => new.buf[y] = freed.buf[y]
        /\ \A y \in SliceHolders : y # x => new.slice[y] = freed.slice[y]
        /\ new.buf[x] = b /\ new.slice[x] = b
    BY <1>2, <1>s, <1>a, <1>3, <2>1
  <2>3. Unborn(new)
    BY <1>1, <1>2, <1>s, <2>1, <2>2 DEF Sound, Unborn
  <2>4. Served(new)
    BY <1>1, <1>2, <1>a, <1>3, <2>1, <2>2 DEF Sound, Served
  <2>5. Returnable(new, r)
    BY <1>1, <1>2, <1>s, <1>a, <1>b, <1>3, <2>1, <2>2, Names DEF Sound, Returnable
  <2>6. Apart(new)
    BY <1>1, <1>2, <1>b, <2>1, <2>2 DEF Sound, Apart
  <2> QED
    BY <1>1, <2>1, <2>3, <2>4, <2>5, <2>6 DEF Sound, new
<1>4. CASE a # x
  <2> DEFINE held == With(freed.by, b, a)
  <2>0. /\ held \in [DOMAIN freed.by \union {b} -> Allocators \union {None}]
        /\ DOMAIN held = DOMAIN freed.by \union {b}
        /\ held[b] = a
        /\ \A d \in DOMAIN freed.by \ {b} : held[d] = freed.by[d]
    BY <1>a, <1>4, <1>2 DEF With
  <2>h. held \in UNION {[h -> Allocators \union {None}] : h \in SUBSET Blocks}
    BY <1>2, <2>0, ByType
  <2>n. new = [given EXCEPT !.by = held]
    BY <1>n, <1>g, <1>a, <1>4
  <2> HIDE DEF held
  <2>1. /\ new \in States
        /\ new.alive = freed.alive /\ new.deleted = freed.deleted /\ new.ok
        /\ new.alloc = freed.alloc /\ new.own = freed.own
        /\ new.buf = [freed.buf EXCEPT ![x] = b] /\ new.slice = freed.slice
        /\ new.by = held
    BY <1>g, <2>n, <2>h DEF States
  <2>2. /\ \A y \in Objects : y # x => new.buf[y] = freed.buf[y]
        /\ new.buf[x] = b
    BY <1>2, <1>s, <2>1
  <2>3. Unborn(new)
    BY <1>1, <1>2, <1>s, <2>1, <2>2 DEF Sound, Unborn
  <2>4. Served(new)
    BY <1>1, <1>2, <1>a, <1>4, <2>1, <2>2 DEF Sound, Served
  <2>5. Returnable(new, r)
    <3>1. r \subseteq DOMAIN freed.by /\ b \notin r
      BY <1>1 DEF Sound, Returnable
    <3>2. ASSUME NEW y \in freed.alive, new.buf[y] # None
          PROVE  IF new.alloc[y] = y
                 THEN new.buf[y] \notin DOMAIN new.by
                 ELSE new.buf[y] \in DOMAIN new.by \ r /\ new.by[new.buf[y]] = new.alloc[y]
      <4>1. CASE y = x
        BY <1>a, <1>4, <2>0, <2>1, <2>2, <3>1, <4>1
      <4>2. CASE y # x
        BY <1>1, <1>2, <1>b, <2>0, <2>1, <2>2, <3>2, <4>2 DEF Sound, Returnable
      <4> QED
        BY <4>1, <4>2
    <3>3. ASSUME NEW c \in DOMAIN new.by \ r
          PROVE  \E y \in freed.alive : new.buf[y] = c
      <4>1. CASE c = b
        BY <1>s, <2>2, <4>1
      <4>2. CASE c # b
        <5>1. PICK y \in freed.alive : freed.buf[y] = c
          BY <1>1, <2>0, <2>1, <4>2 DEF Sound, Returnable
        <5>2. c # None
          BY <1>2, <2>0, <2>1, <4>2, Names
        <5> QED
          BY <1>2, <1>b, <2>2, <5>1, <5>2
      <4> QED
        BY <4>1, <4>2
    <3> QED
      BY <2>0, <2>1, <3>1, <3>2, <3>3 DEF Returnable
  <2>6. Apart(new)
    BY <1>1, <1>2, <1>b, <2>1, <2>2 DEF Sound, Apart
  <2> QED
    BY <1>1, <2>1, <2>3, <2>4, <2>5, <2>6 DEF Sound, new
<1> QED
  BY <1>3, <1>4

-----------------------------------------------------------------------------
\* What the next two lemmas have in common: d takes over what x had, and x keeps at
\* most an allocator that it did not own.
LEMMA HandedOver ==
  ASSUME NEW st, NEW r, Sound(st, r), NEW x \in st.alive, st.alloc[x] # x,
         NEW d \in Objects \ st.alive, d \notin SliceHolders,
         NEW new \in States, NEW kept \in {None, st.alloc[x]},
         new.alive = st.alive \union {d}, new.deleted = st.deleted, new.ok,
         new.slice = st.slice, new.by = st.by,
         new.alloc = [[st.alloc EXCEPT ![d] = st.alloc[x]] EXCEPT ![x] = kept],
         new.own = [[st.own EXCEPT ![d] = st.own[x]] EXCEPT ![x] = FALSE],
         new.buf = [[st.buf EXCEPT ![d] = st.buf[x]] EXCEPT ![x] = None],
         st.own[x] => kept = None
  PROVE  Sound(new, r)
<1>s. st \in States /\ st.ok /\ x \in Objects /\ d # x
  BY Fields DEF Sound
<1>2. /\ st.alloc \in [Objects -> Objects \union Allocators \union {None}]
      /\ st.own \in [Objects -> BOOLEAN] /\ st.buf \in [Objects -> Blocks \union {None}]
      /\ st.slice \in [SliceHolders -> Blocks \union {None}]
      /\ st.alive \subseteq Objects
  BY <1>s, Fields
<1>3. /\ new.alloc[d] = st.alloc[x] /\ new.own[d] = st.own[x] /\ new.buf[d] = st.buf[x]
      /\ new.alloc[x] = kept /\ ~new.own[x] /\ new.buf[x] = None
  BY <1>s, <1>2
<1>4. \A y \in Objects : y # x /\ y # d =>
        new.alloc[y] = st.alloc[y] /\ new.own[y] = st.own[y] /\ new.buf[y] = st.buf[y]
  BY <1>s, <1>2
<1>p. /\ x \notin Messengers /\ st.alloc[x] \in (Allocators \ st.deleted) \union {None}
      /\ st.own[x] => st.alloc[x] # None
  BY DEF Sound, Served
<1>q. st.alloc[x] # d
  BY <1>p, Names
<1>r. d \notin Messengers
  BY Names
<1>5. Unborn(new)
  BY <1>s, <1>2, <1>4 DEF Sound, Unborn
<1>6. Served(new)
  <2> SUFFICES ASSUME NEW y \in st.alive \union {d}
               PROVE  \/ /\ y \in SliceHolders
                         /\ new.alloc[y] = y /\ ~new.own[y] /\ new.slice[y] = new.buf[y]
                      \/ /\ y \notin Messengers
                         /\ new.alloc[y] \in (Allocators \ new.deleted) \union {None}
                         /\ new.own[y] => new.alloc[y] # None
    BY DEF Served
  <2>1. CASE y = x
    BY <1>3, <1>p, <2>1
  <2>2. CASE y = d
    BY <1>3, <1>p, <1>r, <2>2
  <2>3. CASE y # x /\ y # d
    BY <1>2, <1>4, <2>3 DEF Sound, Served
  <2> QED
    BY <2>1, <2>2, <2>3
<1>7. Returnable(new, r)
  <2>1. ASSUME NEW y \in st.alive \union {d}, new.buf[y] # None
        PROVE  IF new.alloc[y] = y
               THEN new.buf[y] \notin DOMAIN new.by
               ELSE new.buf[y] \in DOMAIN new.by \ r /\ new.by[new.buf[y]] = new.alloc[y]
    <3>1. CASE y = x
      BY <1>3, <2>1, <3>1
    <3>2. CASE y = d
      BY <1>3, <1>q, <2>1, <3>2 DEF Sound, Returnable
    <3>3. CASE y # x /\ y # d
      BY <1>2, <1>4, <2>1, <3>3 DEF Sound, Returnable
    <3> QED
      BY <3>1, <3>2, <3>3
  <2>2. ASSUME NEW b \in DOMAIN new.by \ r
        PROVE  \E y \in st.alive \union {d} : new.buf[y] = b
    <3>1. PICK y \in st.alive : st.buf[y] = b
      BY <2>2 DEF Sound, Returnable
    <3> QED
      BY <1>2, <1>3, <1>4, <3>1
  <2> QED
    BY <2>1, <2>2 DEF Sound, Returnable
<1>8. Apart(new)
  <2> SUFFICES ASSUME NEW y \in st.alive \union {d}, NEW z \in st.alive \union {d}, y # z
               PROVE  /\ new.buf[y] # None => new.buf[y] # new.buf[z]
                      /\ new.own[y] => new.alloc[y] # new.alloc[z]
    BY DEF Apart
  <2>1. /\ \A u, v \in st.alive : u # v =>
            /\ st.buf[u] # None => st.buf[u] # st.buf[v]
            /\ st.own[u] => st.alloc[u] # st.alloc[v]
        /\ \A u \in st.alive : st.own[u] => st.alloc[u] # None
    BY <1>s, Names DEF Sound, Apart, Served
  <2>2. CASE y = x
    BY <1>3, <2>2
  <2>3. CASE y = d
    <3>1. CASE z = x
      BY <1>3, <1>p, <2>3, <3>1
    <3>2. CASE z # x
      BY <1>2, <1>3, <1>4, <2>1, <2>3, <3>2
    <3> QED
      BY <3>1, <3>2
  <2>4. CASE y # x /\ y # d
    <3>1. CASE z = x
      BY <1>2, <1>3, <1>4, <2>1, <2>4, <3>1
    <3>2. CASE z = d
      BY <1>2, <1>3, <1>4, <2>1, <2>4, <3>2
    <3>3. CASE z # x /\ z # d
      BY <1>2, <1>4, <2>1, <2>4, <3>3
    <3> QED
      BY <3>1, <3>2, <3>3
  <2> QED
    BY <2>2, <2>3, <2>4
<1> QED
  BY <1>5, <1>6, <1>7, <1>8 DEF Sound

LEMMA ReleasedSound ==
  ASSUME NEW st, NEW r, Sound(st, r), NEW x \in st.alive \intersect Builders,
         NEW d \in Detached \ st.alive
  PROVE  /\ Sound(released(st, x, d), r)
         /\ released(st, x, d).alive = st.alive \union {d}
<1> DEFINE new == released(st, x, d)
           kept == IF st.own[x] THEN None ELSE st.alloc[x]
<1>s. st \in States /\ st.ok /\ x \in Objects /\ d \in Objects /\ d # x
  BY Names, Fields DEF Sound
<1>2. /\ st.alloc \in [Objects -> Objects \union Allocators \union {None}]
      /\ st.own \in [Objects -> BOOLEAN] /\ st.buf \in [Objects -> Blocks \union {None}]
  BY <1>s, Fields
<1> DEFINE alloc == [[st.alloc EXCEPT ![d] = st.alloc[x]] EXCEPT ![x] = kept]
           own == [[st.own EXCEPT ![d] = st.own[x]] EXCEPT ![x] = FALSE]
           buf == [[st.buf EXCEPT ![d] = st.buf[x]] EXCEPT ![x] = None]
<1>n. /\ new.alive = st.alive \union {d} /\ new.deleted = st.deleted /\ new.ok
      /\ new.slice = st.slice /\ new.by = st.by
      /\ new.alloc = alloc /\ new.own = own /\ new.buf = buf
  <2>1. new.alive = st.alive \union {d} /\ new.deleted = st.deleted /\ new.ok
        /\ new.slice = st.slice /\ new.by = st.by
    BY <1>s DEF released, States
  <2>2. new.alloc = alloc
    BY <1>s, <1>2 DEF released, States
  <2>3. new.own = own
    BY <1>s, <1>2 DEF released, States
  <2>4. new.buf = buf
    BY <1>s, <1>2 DEF released, States
  <2> QED
    BY <2>1, <2>2, <2>3, <2>4
<1>a. /\ alloc \in [Objects -> Objects \union Allocators \union {None}]
      /\ own \in [Objects -> BOOLEAN] /\ buf \in [Objects -> Blocks \union {None}]
  <2>1. st.alloc[x] \in Objects \union Allocators \union {None}
        /\ kept \in Objects \union Allocators \union {None}
        /\ st.own[x] \in BOOLEAN /\ st.buf[x] \in Blocks \union {None}
    BY <1>s, <1>2
  <2> QED
    BY <1>s, <1>2, <2>1
<1>r. new = [st EXCEPT !.alive = st.alive \union {d}, !.alloc = alloc, !.own = own, !.buf = buf]
  BY <1>s DEF released, States
<1>1. /\ new \in States
      /\ new.alive = st.alive \union {d} /\ new.deleted = st.deleted /\ new.ok
      /\ new.slice = st.slice /\ new.by = st.by
      /\ new.alloc = [[st.alloc EXCEPT ![d] = st.alloc[x]] EXCEPT ![x] = kept]
      /\ new.own = [[st.own EXCEPT ![d] = st.own[x]] EXCEPT ![x] = FALSE]
      /\ new.buf = [[st.buf EXCEPT ![d] = st.buf[x]] EXCEPT ![x] = None]
  <2>1. st.alive \union {d} \in SUBSET Objects
    BY <1>s DEF States
  <2> HIDE DEF alloc, own, buf, new
  <2>2. new \in States
    BY <1>s, <1>a, <1>r, <2>1 DEF States
  <2> QED
    BY <1>n, <2>2 DEF alloc, own, buf
<1>3. st.alloc[x] # x
  BY <1>s, Names DEF Sound, Served
<1>4. kept \in {None, st.alloc[x]} /\ (st.own[x] => kept = None)
  OBVIOUS
<1>5. d \in Objects \ st.alive /\ d \notin SliceHolders
  BY Names
<1> HIDE DEF new, kept
<1>6. Sound(new, r)
  <2>1. CASE st.own[x]
    <3>1. new.alloc = [[st.alloc EXCEPT ![d] = st.alloc[x]] EXCEPT ![x] = None]
      BY <1>1, <1>4, <2>1
    <3> QED
      BY <1>1, <1>3, <1>5, <3>1, HandedOver
  <2>2. CASE ~st.own[x]
    <3>1. new.alloc = [[st.alloc EXCEPT ![d] = st.alloc[x]] EXCEPT ![x] = st.alloc[x]]
      BY <1>1, <2>2 DEF kept
    <3> QED
      BY <1>1, <1>3, <1>5, <2>2, <3>1, HandedOver
  <2> QED
    BY <2>1, <2>2
<1> QED
  BY <1>1, <1>6 DEF new

LEMMA TookSound ==
  ASSUME NEW st, NEW r, Sound(st, r), NEW e \in st.alive \intersect Detached,
         NEW d \in Detached \ st.alive
  PROVE  /\ Sound(Took(st, d, e), r)
         /\ Took(st, d, e).alive = st.alive \union {d}
<1> DEFINE new == Took(st, d, e)
<1>s. st \in States /\ st.ok /\ e \in Objects /\ d \in Objects /\ d # e
  BY Names, Fields DEF Sound
<1>2. /\ st.alloc \in [Objects -> Objects \union Allocators \union {None}]
      /\ st.own \in [Objects -> BOOLEAN] /\ st.buf \in [Objects -> Blocks \union {None}]
  BY <1>s, Fields
<1> DEFINE alloc == [[st.alloc EXCEPT ![d] = st.alloc[e]] EXCEPT ![e] = None]
           own == [[st.own EXCEPT ![d] = st.own[e]] EXCEPT ![e] = FALSE]
           buf == [[st.buf EXCEPT ![d] = st.buf[e]] EXCEPT ![e] = None]
<1>n. /\ new.alive = st.alive \union {d} /\ new.deleted = st.deleted /\ new.ok
      /\ new.slice = st.slice /\ new.by = st.by
      /\ new.alloc = alloc /\ new.own = own /\ new.buf = buf
  <2>1. new.alive = st.alive \union {d} /\ new.deleted = st.deleted /\ new.ok
        /\ new.slice = st.slice /\ new.by = st.by
    BY <1>s DEF Took, States
  <2>2. new.alloc = alloc
    BY <1>s, <1>2 DEF Took, States
  <2>3. new.own = own
    BY <1>s, <1>2 DEF Took, States
  <2>4. new.buf = buf
    BY <1>s, <1>2 DEF Took, States
  <2> QED
    BY <2>1, <2>2, <2>3, <2>4
<1>a. /\ alloc \in [Objects -> Objects \union Allocators \union {None}]
      /\ own \in [Objects -> BOOLEAN] /\ buf \in [Objects -> Blocks \union {None}]
  <2>1. st.alloc[e] \in Objects \union Allocators \union {None}
        /\ None \in Objects \union Allocators \union {None}
        /\ st.own[e] \in BOOLEAN /\ st.buf[e] \in Blocks \union {None}
    BY <1>s, <1>2
  <2> QED
    BY <1>s, <1>2, <2>1
<1>r. new = [st EXCEPT !.alive = st.alive \union {d}, !.alloc = alloc, !.own = own, !.buf = buf]
  BY <1>s DEF Took, States
<1>1. /\ new \in States
      /\ new.alive = st.alive \union {d} /\ new.deleted = st.deleted /\ new.ok
      /\ new.slice = st.slice /\ new.by = st.by
      /\ new.alloc = [[st.alloc EXCEPT ![d] = st.alloc[e]] EXCEPT ![e] = None]
      /\ new.own = [[st.own EXCEPT ![d] = st.own[e]] EXCEPT ![e] = FALSE]
      /\ new.buf = [[st.buf EXCEPT ![d] = st.buf[e]] EXCEPT ![e] = None]
  <2>1. st.alive \union {d} \in SUBSET Objects
    BY <1>s DEF States
  <2> HIDE DEF alloc, own, buf, new
  <2>2. new \in States
    BY <1>s, <1>a, <1>r, <2>1 DEF States
  <2> QED
    BY <1>n, <2>2 DEF alloc, own, buf
<1>3. st.alloc[e] # e
  BY <1>s, Names DEF Sound, Served
<1>4. None \in {None, st.alloc[e]} /\ (st.own[e] => None = None)
  OBVIOUS
<1>5. d \in Objects \ st.alive /\ d \notin SliceHolders
  BY Names
<1> HIDE DEF new
<1>6. Sound(new, r)
  BY <1>1, <1>3, <1>4, <1>5, HandedOver
<1> QED
  BY <1>1, <1>6 DEF new

\* Of a move between two different objects that use no slice.
LEMMA MovedSound ==
  ASSUME NEW st, NEW r, Sound(st, r), NEW y \in st.alive, st.alloc[y] # y,
         NEW x \in Objects \ st.alive, x \notin Messengers
  PROVE  /\ Sound(Moved(st, x, y), r)
         /\ Moved(st, x, y).alive = st.alive \union {x}
         /\ Moved(st, x, y).alloc = [[st.alloc EXCEPT ![x] = st.alloc[y]] EXCEPT ![y] = None]
<1> DEFINE made == Constructed(st, x, None, FALSE)
<1>s. st \in States /\ y \in Objects
  BY Fields DEF Sound
<1>1. /\ made.alive = st.alive \union {x} /\ made \in States
      /\ made.alloc = [st.alloc EXCEPT ![x] = None]
  BY <1>s DEF Constructed, States
<1>2. Sound(made, r)
  <2>1. None \in (Allocators \ st.deleted) \union {None} /\ FALSE \in BOOLEAN
    OBVIOUS
  <2>2. \A z \in st.alive : st.own[z] \/ FALSE => st.alloc[z] # None
    BY <1>s, Names, Fields DEF Sound, Served
  <2> QED
    BY <2>1, <2>2, ConstructedSound
<1> HIDE DEF made
<1>0. st.alloc \in [Objects -> Objects \union Allocators \union {None}]
  BY <1>s, Fields
<1>3. /\ x \in made.alive /\ y \in made.alive /\ x # y
      /\ made.alloc[x] = None /\ made.alloc[y] = st.alloc[y]
  BY <1>0, <1>s, <1>1
<1>4. made.alloc[x] # x /\ made.alloc[y] # y
  BY <1>3, Names
<1>5. Sound(Swap(made, x, y), r)
  BY <1>2, <1>3, <1>4, SwapSound
<1>6. /\ Swap(made, x, y).alive = made.alive
      /\ Swap(made, x, y).alloc = Exchange(made.alloc, x, y)
  BY <1>1, <1>s, SwapIs
<1>7. Exchange(made.alloc, x, y) = [[st.alloc EXCEPT ![x] = st.alloc[y]] EXCEPT ![y] = None]
  BY <1>0, <1>s, <1>1, <1>3 DEF Exchange
<1> QED
  BY <1>1, <1>5, <1>6, <1>7 DEF Moved, made

LEMMA MovedMessengerSound ==
  ASSUME NEW st, NEW r, Sound(st, r), NEW n \in st.alive, st.alloc[n] = n,
         NEW m \in SliceHolders \ st.alive
  PROVE  /\ Sound(MovedMessenger(st, m, n), r)
         /\ MovedMessenger(st, m, n).alive = st.alive \union {m}
         /\ MovedMessenger(st, m, n).alloc = [st.alloc EXCEPT ![m] = m]
<1> DEFINE made == ConstructedMessenger(st, m)
<1>s. st \in States /\ m \in Objects /\ n \in Objects
  BY Fields, Names DEF Sound
<1>1. /\ made.alive = st.alive \union {m} /\ made \in States
      /\ made.alloc = [st.alloc EXCEPT ![m] = m]
  BY <1>s DEF ConstructedMessenger, Constructed, States
<1>2. Sound(made, r)
  BY MessengerSound
<1> HIDE DEF made
<1>0. st.alloc \in [Objects -> Objects \union Allocators \union {None}]
  BY <1>s, Fields
<1>3. /\ m \in made.alive /\ n \in made.alive /\ m # n
      /\ made.alloc[m] = m /\ made.alloc[n] = n
  BY <1>0, <1>s, <1>1
<1>4. n \in SliceHolders
  BY <1>s, Names DEF Sound, Served
<1>5. Sound(SwapMessengers(made, m, n), r)
  BY <1>2, <1>3, SwapMessengersSound
<1>6. /\ SwapMessengers(made, m, n).alive = made.alive
      /\ SwapMessengers(made, m, n).alloc = made.alloc
  BY <1>1, <1>3, <1>4, SwapMessengersIs
<1> QED
  BY <1>1, <1>5, <1>6 DEF MovedMessenger, made

-----------------------------------------------------------------------------
\* The slice takes over a block of the default allocator, and is the only one to free it.
LEMMA AdoptedSound ==
  ASSUME NEW st, NEW r, Sound(st, r), NEW x \in st.alive \intersect Builders,
         st.alloc[x] = None, NEW m \in SliceHolders \ st.alive
  PROVE  /\ Sound(Adopted(st, m, x), r)
         /\ Adopted(st, m, x).alive = st.alive \union {m}
         /\ Adopted(st, m, x).alloc = [st.alloc EXCEPT ![m] = m]
<1> DEFINE made == ConstructedMessenger(st, m)
           swapped == Swap(made, x, m)
           given == swap_allocator(swapped, x, m)
           new == Adopted(st, m, x)
<1>s. st \in States /\ st.ok /\ m \in Objects /\ x \in Objects /\ m # x /\ x \notin SliceHolders
  BY Fields, Names DEF Sound
<1>0. /\ st.alloc \in [Objects -> Objects \union Allocators \union {None}]
      /\ st.own \in [Objects -> BOOLEAN] /\ st.buf \in [Objects -> Blocks \union {None}]
      /\ st.slice \in [SliceHolders -> Blocks \union {None}]
      /\ DOMAIN st.by \subseteq Blocks
      /\ st.by \in [DOMAIN st.by -> Allocators \union {None}]
      /\ st.alive \subseteq Objects
  BY <1>s, Fields
<1>1. /\ made \in States /\ made.alive = st.alive \union {m} /\ made.deleted = st.deleted
      /\ made.ok = st.ok /\ made.slice = st.slice /\ made.by = st.by
      /\ made.alloc = [st.alloc EXCEPT ![m] = m]
      /\ made.own = [st.own EXCEPT ![m] = FALSE]
      /\ made.buf = [st.buf EXCEPT ![m] = None]
  BY <1>s DEF ConstructedMessenger, Constructed, States
<1>n. new = [given EXCEPT !.slice[m] = given.buf[m], !.by = Without(@, given.buf[m])]
  BY DEF Adopted
<1>e. given = [swapped EXCEPT !.alloc = Exchange(@, x, m), !.own = Exchange(@, x, m)]
  BY DEF swap_allocator
<1> HIDE DEF made
<1>2. /\ swapped \in States
      /\ swapped.alive = made.alive /\ swapped.deleted = made.deleted
      /\ swapped.ok = made.ok /\ swapped.slice = made.slice /\ swapped.by = made.by
      /\ swapped.alloc = Exchange(made.alloc, x, m)
      /\ swapped.own = Exchange(made.own, x, m)
      /\ swapped.buf = Exchange(made.buf, x, m)
  <2>1. made \in States /\ x \in Objects /\ m \in Objects
    BY <1>1, <1>s
  <2> QED
    BY <2>1, SwapIs
<1> HIDE DEF swapped
<1>3. /\ Exchange(swapped.alloc, x, m) = made.alloc
      /\ Exchange(swapped.own, x, m) = made.own
  <2>1. /\ made.alloc \in [Objects -> Objects \union Allocators \union {None}]
        /\ made.own \in [Objects -> BOOLEAN]
    BY <1>1, Fields
  <2> DEFINE f == made.alloc
             g == made.own
  <2>0. /\ f \in [Objects -> Objects \union Allocators \union {None}]
        /\ g \in [Objects -> BOOLEAN]
        /\ x \in Objects /\ m \in Objects
    BY <1>s, <2>1
  <2> HIDE DEF f, g
  <2>2. Exchange(Exchange(f, x, m), x, m) = f
    BY <2>0 DEF Exchange
  <2>3. Exchange(Exchange(g, x, m), x, m) = g
    BY <2>0, Zenon DEF Exchange
  <2> QED
    BY <1>2, <2>2, <2>3, Zenon DEF f, g
<1>4. /\ given \in States
      /\ given.alive = made.alive /\ given.deleted = made.deleted
      /\ given.ok = made.ok /\ given.slice = made.slice /\ given.by = made.by
      /\ given.alloc = made.alloc /\ given.own = made.own /\ given.buf = swapped.buf
  <2>1. /\ made.alloc \in [Objects -> Objects \union Allocators \union {None}]
        /\ made.own \in [Objects -> BOOLEAN]
    BY <1>1, Fields
  <2> QED
    BY <1>2, <1>3, <1>e, <2>1 DEF States
<1> HIDE DEF given
<1>5. given.buf = [[st.buf EXCEPT ![m] = st.buf[x]] EXCEPT ![x] = None]
  BY <1>0, <1>1, <1>2, <1>4, <1>s DEF Exchange
<1>b. given.buf[m] = st.buf[x] /\ st.buf[x] \in Blocks \union {None}
  BY <1>0, <1>5, <1>s
<1> DEFINE rest == Without(st.by, st.buf[x])
<1>6. /\ DOMAIN rest = DOMAIN st.by \ {st.buf[x]}
      /\ \A b \in DOMAIN rest : rest[b] = st.by[b]
      /\ rest \in [DOMAIN st.by \ {st.buf[x]} -> Allocators \union {None}]
  BY <1>0 DEF Without
<1>r. rest \in UNION {[h -> Allocators \union {None}] : h \in SUBSET Blocks}
  BY <1>0, <1>6, ByType
<1>m. new = [given EXCEPT !.slice[m] = st.buf[x], !.by = rest]
  BY <1>n, <1>b, <1>1, <1>4
<1> HIDE DEF rest, new
<1>7. /\ new \in States
      /\ new.alive = st.alive \union {m} /\ new.deleted = st.deleted /\ new.ok
      /\ new.slice = [st.slice EXCEPT ![m] = st.buf[x]] /\ new.by = rest
      /\ new.alloc = [st.alloc EXCEPT ![m] = m]
      /\ new.own = [st.own EXCEPT ![m] = FALSE]
      /\ new.buf = [[st.buf EXCEPT ![m] = st.buf[x]] EXCEPT ![x] = None]
  <2>1. st.buf[x] \in Blocks \union {None}
    BY <1>b
  <2> QED
    BY <1>m, <1>r, <1>4, <1>1, <1>5, <1>s, <2>1 DEF States
<1>8. /\ new.alloc[m] = m /\ ~new.own[m] /\ new.buf[m] = st.buf[x]
      /\ new.slice[m] = st.buf[x] /\ new.buf[x] = None
      /\ new.alloc[x] = None
  <2>1. ~new.own[m]
    BY <1>0, <1>7, <1>s
  <2>2. new.alloc[m] = m /\ new.alloc[x] = None
    BY <1>0, <1>7, <1>s
  <2>3. new.buf[m] = st.buf[x] /\ new.slice[m] = st.buf[x] /\ new.buf[x] = None
    BY <1>0, <1>7, <1>s
  <2> QED
    BY <2>1, <2>2, <2>3
<1>9. /\ \A y \in Objects : y # m => new.alloc[y] = st.alloc[y] /\ new.own[y] = st.own[y]
      /\ \A y \in Objects : y # m /\ y # x => new.buf[y] = st.buf[y]
      /\ \A n \in SliceHolders : n # m => new.slice[n] = st.slice[n]
  BY <1>0, <1>7, <1>s
<1>10. Unborn(new)
  BY <1>0, <1>7, <1>9, <1>s DEF Sound, Unborn
<1>11. Served(new)
  <2> SUFFICES ASSUME NEW y \in st.alive \union {m}
               PROVE  \/ /\ y \in SliceHolders
                         /\ new.alloc[y] = y /\ ~new.own[y] /\ new.slice[y] = new.buf[y]
                      \/ /\ y \notin Messengers
                         /\ new.alloc[y] \in (Allocators \ new.deleted) \union {None}
                         /\ new.own[y] => new.alloc[y] # None
    BY <1>7 DEF Served
  <2>1. CASE y = m
    BY <1>8, <2>1
  <2>2. CASE y # m
    BY <1>0, <1>7, <1>8, <1>9, <1>s, <2>2 DEF Sound, Served
  <2> QED
    BY <2>1, <2>2
<1>12. Returnable(new, r)
  <2>0. /\ r \subseteq DOMAIN st.by /\ st.buf[x] \notin r
        /\ st.buf[x] # None => st.buf[x] \in DOMAIN st.by
    BY <1>0, <1>s, Names DEF Sound, Returnable
  <2>1. ASSUME NEW y \in st.alive \union {m}, new.buf[y] # None
        PROVE  IF new.alloc[y] = y
               THEN new.buf[y] \notin DOMAIN new.by
               ELSE new.buf[y] \in DOMAIN new.by \ r /\ new.by[new.buf[y]] = new.alloc[y]
    <3>1. CASE y = m
      BY <1>6, <1>7, <1>8, <3>1
    <3>2. CASE y = x
      BY <1>8, <2>1, <3>2
    <3>3. CASE y # m /\ y # x
      <4>1. st.buf[y] = new.buf[y] /\ st.alloc[y] = new.alloc[y] /\ y \in st.alive
        BY <1>0, <1>9, <3>3
      <4>2. st.buf[y] # st.buf[x]
        BY <2>1, <3>3, <4>1 DEF Sound, Apart
      <4> QED
        BY <1>6, <1>7, <2>1, <4>1, <4>2 DEF Sound, Returnable
    <3> QED
      BY <3>1, <3>2, <3>3
  <2>2. ASSUME NEW b \in DOMAIN new.by \ r
        PROVE  \E y \in st.alive \union {m} : new.buf[y] = b
    <3>1. PICK y \in st.alive : st.buf[y] = b
      BY <1>6, <1>7, <2>2 DEF Sound, Returnable
    <3>2. y # x /\ y # m /\ y \in Objects
      BY <1>0, <1>6, <1>7, <2>2, <3>1
    <3> QED
      BY <1>9, <3>1, <3>2
  <2> QED
    BY <1>6, <1>7, <2>0, <2>1, <2>2 DEF Returnable
<1>13. Apart(new)
  <2> SUFFICES ASSUME NEW y \in st.alive \union {m}, NEW z \in st.alive \union {m}, y # z
               PROVE  /\ new.buf[y] # None => new.buf[y] # new.buf[z]
                      /\ new.own[y] => new.alloc[y] # new.alloc[z]
    BY <1>7 DEF Apart
  <2>1. /\ \A u, v \in st.alive : u # v =>
            /\ st.buf[u] # None => st.buf[u] # st.buf[v]
            /\ st.own[u] => st.alloc[u] # st.alloc[v]
        /\ \A u \in st.alive : st.own[u] => st.alloc[u] # m
    BY <1>s, Names DEF Sound, Apart, Served
  <2>2. new.buf[y] # None => new.buf[y] # new.buf[z]
    BY <1>0, <1>8, <1>9, <2>1
  <2>3. new.own[y] => new.alloc[y] # new.alloc[z]
    BY <1>0, <1>8, <1>9, <2>1
  <2> QED
    BY <2>2, <2>3
<1> QED
  BY <1>7, <1>10, <1>11, <1>12, <1>13 DEF Sound, new

LEMMA Done ==
  ASSUME NEW st, Do(st), Sound(st, raw), Temp \notin st.alive
  PROVE  IInv'
BY DEF Do, IInv

LEMMA Kinds ==
  ASSUME IInv
  PROVE  /\ s.alive \subseteq Objects \ {Temp}
         /\ \A x \in s.alive \intersect SliceHolders : s.alloc[x] = x
         /\ \A x \in s.alive \ SliceHolders : s.alloc[x] # x
         /\ \A x \in s.alive : s.own[x] => s.alloc[x] # None
<1>1. s \in States /\ Served(s) /\ Temp \notin s.alive
  BY DEF IInv, Sound
<1>2. s.alive \subseteq Objects
  BY <1>1, Fields
<1>3. \A x \in s.alive \intersect SliceHolders : x \in Messengers
  BY <1>1 DEF SliceHolders
<1> QED
  BY <1>1, <1>2, <1>3, Names DEF Served

-----------------------------------------------------------------------------

LEMMA ConstructKeeps ==
  ASSUME IInv, NEW x \in Builders, Construct(x) \/ ConstructLent(x)
  PROVE  IInv'
<1>1. x \in Objects \ s.alive /\ x \notin Messengers /\ x # Temp
  BY Names DEF Construct, ConstructLent, Live
<1>2. Sound(s, raw) /\ s \in States /\ s.alive \subseteq Objects /\ Temp \notin s.alive
  BY Fields DEF IInv, Sound
<1>3. ASSUME NEW a \in (Allocators \ s.deleted) \union {None}, NEW o \in BOOLEAN,
             Do(Constructed(s, x, a, o)), o => a # None,
             \A y \in s.alive : s.own[y] \/ o => s.alloc[y] # a
      PROVE  IInv'
  <2>1. Sound(Constructed(s, x, a, o), raw)
    BY <1>1, <1>2, <1>3, ConstructedSound
  <2>2. Constructed(s, x, a, o).alive = s.alive \union {x}
    BY <1>2 DEF Constructed, States
  <2> QED
    BY <1>1, <1>2, <1>3, <2>1, <2>2, Done
<1>4. CASE Do(Constructed(s, x, None, FALSE))
  <2>1. None \in (Allocators \ s.deleted) \union {None} /\ FALSE \in BOOLEAN
    OBVIOUS
  <2>2. \A y \in s.alive : s.own[y] \/ FALSE => s.alloc[y] # None
    BY Kinds
  <2> QED
    BY <1>3, <1>4, <2>1, <2>2
<1>5. ASSUME NEW a \in Allocators \ s.deleted, \A y \in s.alive : s.alloc[y] # a,
             Do(Constructed(s, x, a, TRUE))
      PROVE  IInv'
  <2>1. a \in (Allocators \ s.deleted) \union {None} /\ TRUE \in BOOLEAN /\ a # None
    BY Names
  <2>2. \A y \in s.alive : s.own[y] \/ TRUE => s.alloc[y] # a
    BY <1>5
  <2> QED
    BY <1>3, <1>5, <2>1, <2>2
<1>6. ASSUME NEW a \in Allocators \ s.deleted,
             \A y \in s.alive : s.alloc[y] = a => ~s.own[y],
             Do(Constructed(s, x, a, FALSE))
      PROVE  IInv'
  <2>1. a \in (Allocators \ s.deleted) \union {None} /\ FALSE \in BOOLEAN
    OBVIOUS
  <2>2. \A y \in s.alive : s.own[y] \/ FALSE => s.alloc[y] # a
    BY <1>6
  <2> QED
    BY <1>3, <1>6, <2>1, <2>2
<1> QED
  BY <1>4, <1>5, <1>6 DEF Construct, ConstructLent

LEMMA GrowKeeps ==
  ASSUME IInv, NEW x, Grow(x)
  PROVE  IInv'
<1>1. PICK b \in Fresh : Do(Reallocated(s, x, b))
  BY DEF Grow
<1>2. b \in Blocks /\ b \notin DOMAIN s.by /\ \A m \in SliceHolders : s.slice[m] # b
  BY Names DEF Fresh, InUse
<1>3. x \in s.alive /\ Sound(s, raw) /\ Temp \notin s.alive
  BY DEF Grow, Live, IInv
<1>4. Sound(Reallocated(s, x, b), raw) /\ Reallocated(s, x, b).alive = s.alive
  BY <1>2, <1>3, ReallocatedSound
<1> QED
  BY <1>1, <1>3, <1>4, Done

LEMMA ResetKeeps ==
  ASSUME IInv, NEW x, Reset(x)
  PROVE  IInv'
<1>1. x \in s.alive /\ Sound(s, raw) /\ Temp \notin s.alive
  BY DEF Reset, Holds, Live, IInv
<1>2. Sound(Deallocated(s, x), raw) /\ Deallocated(s, x).alive = s.alive
  BY <1>1, DeallocatedSound, DeallocatedIs
<1> QED
  BY <1>1, <1>2, Done DEF Reset

LEMMA DestroyKeeps ==
  ASSUME IInv, NEW x, Destroy(x)
  PROVE  IInv'
<1>1. x \in s.alive /\ Sound(s, raw) /\ Temp \notin s.alive
  BY DEF Destroy, Live, IInv
<1>2. Sound(Destroyed(s, x), raw) /\ Destroyed(s, x).alive = s.alive \ {x}
  BY <1>1, DestroyedSound
<1>3. Temp \notin Destroyed(s, x).alive
  BY <1>1, <1>2
<1> QED
  BY <1>2, <1>3, Done DEF Destroy

LEMMA ReleaseKeeps ==
  ASSUME IInv, NEW x \in Builders, NEW d \in Detached, Release(x, d)
  PROVE  IInv'
<1>1. /\ x \in s.alive \intersect Builders /\ d \in Detached \ s.alive
      /\ Sound(s, raw) /\ Temp \notin s.alive /\ d # Temp
  BY Names DEF Release, Holds, Live, IInv
<1>2. Sound(released(s, x, d), raw) /\ released(s, x, d).alive = s.alive \union {d}
  BY <1>1, ReleasedSound
<1>3. Temp \notin released(s, x, d).alive
  BY <1>1, <1>2
<1> QED
  BY <1>2, <1>3, Done DEF Release

LEMMA MoveConstructKeeps ==
  ASSUME IInv, NEW x \in Builders, NEW y \in Builders, MoveConstruct(x, y)
  PROVE  IInv'
<1>1. /\ y \in s.alive /\ x \in Objects \ s.alive /\ x \notin Messengers
      /\ Sound(s, raw) /\ Temp \notin s.alive /\ x # Temp
  BY Names DEF MoveConstruct, Live, IInv
<1>2. s.alloc[y] # y
  BY <1>1, Kinds, Names
<1>3. /\ Sound(Moved(s, x, y), raw)
      /\ Moved(s, x, y).alive = s.alive \union {x}
      /\ Moved(s, x, y).alloc = [[s.alloc EXCEPT ![x] = s.alloc[y]] EXCEPT ![y] = None]
  BY <1>1, <1>2, MovedSound
<1>4. Temp \notin Moved(s, x, y).alive
  BY <1>1, <1>3
<1> QED
  BY <1>3, <1>4, Done DEF MoveConstruct

LEMMA MoveAssignKeeps ==
  ASSUME IInv, NEW x \in Builders, NEW y \in Builders, MoveAssign(x, y)
  PROVE  IInv'
<1> DEFINE one == Moved(s, Temp, y)
           two == Swap(one, x, Temp)
<1>1. /\ x \in s.alive /\ y \in s.alive /\ Sound(s, raw) /\ s \in States
      /\ Temp \in Objects \ s.alive /\ Temp \notin Messengers
  BY Names DEF MoveAssign, Live, IInv, Sound
<1>2. s.alloc[y] # y /\ s.alloc[x] # x
  BY <1>1, Kinds, Names
<1>3. /\ Sound(one, raw) /\ one.alive = s.alive \union {Temp}
      /\ one.alloc = [[s.alloc EXCEPT ![Temp] = s.alloc[y]] EXCEPT ![y] = None]
  BY <1>1, <1>2, MovedSound
<1>n. two = Swap(one, x, Temp) /\ Do(Destroyed(two, Temp))
  BY DEF MoveAssign
<1> HIDE DEF one, two
<1>0. /\ s.alloc \in [Objects -> Objects \union Allocators \union {None}]
      /\ x \in Objects /\ y \in Objects /\ one \in States
  BY <1>1, <1>3, Fields DEF Sound
<1>4. one.alloc[x] # x /\ one.alloc[Temp] # Temp
  <2>1. s.alloc[y] # Temp
    BY <1>1, <1>2, Names DEF Sound, Served
  <2>2. x # Temp /\ y # Temp /\ x # None
    BY <1>1, <1>0, Names
  <2> QED
    BY <1>0, <1>1, <1>2, <1>3, <2>1, <2>2
<1>5. x \in one.alive /\ Temp \in one.alive /\ x # Temp
  BY <1>1, <1>3
<1>6. Sound(two, raw) /\ two.alive = one.alive
  <2>1. Swap(one, x, Temp).alive = one.alive
    BY <1>0, <1>1, SwapIs
  <2>2. Sound(Swap(one, x, Temp), raw)
    BY <1>3, <1>4, <1>5, SwapSound
  <2> QED
    BY <1>n, <2>1, <2>2
<1>7. Sound(Destroyed(two, Temp), raw) /\ Destroyed(two, Temp).alive = two.alive \ {Temp}
  BY <1>5, <1>6, DestroyedSound
<1>8. Temp \notin Destroyed(two, Temp).alive
  BY <1>7
<1> QED
  BY <1>n, <1>7, <1>8, Done

LEMMA SwapBuildersKeeps ==
  ASSUME IInv, NEW x \in Builders, NEW y \in Builders, SwapBuilders(x, y)
  PROVE  IInv'
<1>1. x \in s.alive /\ y \in s.alive /\ x # y /\ Sound(s, raw) /\ Temp \notin s.alive
  BY DEF SwapBuilders, Live, IInv
<1>2. s.alloc[x] # x /\ s.alloc[y] # y
  BY <1>1, Kinds, Names
<1>3. Sound(Swap(s, x, y), raw)
  BY <1>1, <1>2, SwapSound
<1>4. Swap(s, x, y).alive = s.alive
  BY <1>1, SwapIs, Fields DEF Sound
<1> QED
  BY <1>1, <1>3, <1>4, Done DEF SwapBuilders

-----------------------------------------------------------------------------

LEMMA MoveConstructDetachedKeeps ==
  ASSUME IInv, NEW d \in Detached, NEW e \in Detached, MoveConstructDetached(d, e)
  PROVE  IInv'
<1>1. /\ e \in s.alive \intersect Detached /\ d \in Detached \ s.alive /\ d # Temp
      /\ Sound(s, raw) /\ Temp \notin s.alive
  BY Names DEF MoveConstructDetached, Live, IInv
<1>2. Sound(Took(s, d, e), raw) /\ Took(s, d, e).alive = s.alive \union {d}
  BY <1>1, TookSound
<1>3. Temp \notin Took(s, d, e).alive
  BY <1>1, <1>2
<1> QED
  BY <1>2, <1>3, Done DEF MoveConstructDetached

LEMMA MoveAssignDetachedKeeps ==
  ASSUME IInv, NEW d \in Detached, NEW e \in Detached, MoveAssignDetached(d, e)
  PROVE  IInv'
<1> DEFINE one == Destroyed(s, d)
<1>1. /\ e \in s.alive /\ d \in s.alive /\ d # e /\ d # Temp
      /\ Sound(s, raw) /\ Temp \notin s.alive
  BY Names DEF MoveAssignDetached, Live, IInv
<1>2. Sound(one, raw) /\ one.alive = s.alive \ {d}
  BY <1>1, DestroyedSound
<1>n. Do(Took(one, d, e))
  BY DEF MoveAssignDetached, Replaced
<1> HIDE DEF one
<1>3. e \in one.alive \intersect Detached /\ d \in Detached \ one.alive
  BY <1>1, <1>2
<1>4. Sound(Took(one, d, e), raw) /\ Took(one, d, e).alive = one.alive \union {d}
  BY <1>2, <1>3, TookSound
<1>5. Temp \notin Took(one, d, e).alive
  BY <1>1, <1>2, <1>4
<1> QED
  BY <1>n, <1>4, <1>5, Done

-----------------------------------------------------------------------------

LEMMA ConstructMessengerKeeps ==
  ASSUME IInv, NEW m \in Messengers, ConstructMessenger(m)
  PROVE  IInv'
<1>1. /\ m \in SliceHolders \ s.alive /\ m # Temp /\ m \in Objects
      /\ Sound(s, raw) /\ s \in States /\ Temp \notin s.alive
  BY Names DEF ConstructMessenger, Live, IInv, Sound
<1>2. Sound(ConstructedMessenger(s, m), raw)
  BY <1>1, MessengerSound
<1>3. ConstructedMessenger(s, m).alive = s.alive \union {m}
  BY <1>1 DEF ConstructedMessenger, Constructed, States
<1>4. Temp \notin ConstructedMessenger(s, m).alive
  BY <1>1, <1>3
<1> QED
  BY <1>2, <1>4, Done DEF ConstructMessenger

LEMMA MoveMessengerKeeps ==
  ASSUME IInv, NEW m \in Messengers, NEW n \in Messengers, MoveMessenger(m, n)
  PROVE  IInv'
<1>1. /\ m \in SliceHolders \ s.alive /\ m # Temp /\ n \in s.alive
      /\ Sound(s, raw) /\ Temp \notin s.alive
  BY Names DEF MoveMessenger, Live, IInv
<1>2. s.alloc[n] = n
  BY <1>1, Kinds, Names
<1>3. /\ Sound(MovedMessenger(s, m, n), raw)
      /\ MovedMessenger(s, m, n).alive = s.alive \union {m}
  BY <1>1, <1>2, MovedMessengerSound
<1>4. Temp \notin MovedMessenger(s, m, n).alive
  BY <1>1, <1>3
<1> QED
  BY <1>3, <1>4, Done DEF MoveMessenger

\* Both assignments of a MessageBuilder end like this: the temporary has the new
\* contents, is swapped with the target, and takes the old ones with it.
LEMMA ThroughTemp ==
  ASSUME IInv, NEW m \in Messengers \intersect s.alive,
         NEW one, Sound(one, raw), one.alive = s.alive \union {Temp},
         one.alloc = [s.alloc EXCEPT ![Temp] = Temp],
         Do(Destroyed(SwapMessengers(one, m, Temp), Temp))
  PROVE  IInv'
<1> DEFINE two == SwapMessengers(one, m, Temp)
<1>1. s \in States /\ one \in States
  BY DEF IInv, Sound
<1>2. m # Temp /\ m \in SliceHolders /\ Temp \in SliceHolders /\ m \in Objects
  BY Names
<1>3. s.alloc \in [Objects -> Objects \union Allocators \union {None}] /\ s.alloc[m] = m
  BY <1>1, <1>2, Fields, Kinds
<1>4. one.alloc[m] = m /\ one.alloc[Temp] = Temp /\ m \in one.alive /\ Temp \in one.alive
  BY <1>2, <1>3, Names
<1>5. Sound(two, raw)
  BY <1>2, <1>4, SwapMessengersSound
<1>6. two.alive = one.alive
  BY <1>1, <1>2, SwapMessengersIs
<1> HIDE DEF two
<1>7. Sound(Destroyed(two, Temp), raw) /\ Destroyed(two, Temp).alive = two.alive \ {Temp}
  BY <1>4, <1>5, <1>6, DestroyedSound
<1>8. Temp \notin Destroyed(two, Temp).alive
  BY <1>7
<1> QED
  BY <1>7, <1>8, Done DEF two

LEMMA AssignMessengerKeeps ==
  ASSUME IInv, NEW m \in Messengers, NEW n \in Messengers, AssignMessenger(m, n)
  PROVE  IInv'
<1>1. /\ m \in Messengers \intersect s.alive /\ n \in s.alive
      /\ Temp \in SliceHolders \ s.alive /\ Sound(s, raw)
  BY Names DEF AssignMessenger, Live, IInv
<1>2. s.alloc[n] = n
  BY <1>1, Kinds, Names
<1>3. /\ Sound(MovedMessenger(s, Temp, n), raw)
      /\ MovedMessenger(s, Temp, n).alive = s.alive \union {Temp}
      /\ MovedMessenger(s, Temp, n).alloc = [s.alloc EXCEPT ![Temp] = Temp]
  BY <1>1, <1>2, MovedMessengerSound
<1> QED
  BY <1>1, <1>3, ThroughTemp DEF AssignMessenger

LEMMA AdoptKeeps ==
  ASSUME IInv, NEW m \in Messengers, NEW x \in Builders, Adopt(m, x)
  PROVE  IInv'
<1>1. /\ m \in SliceHolders \ s.alive /\ m # Temp /\ x \in s.alive \intersect Builders
      /\ s.alloc[x] = None /\ Sound(s, raw) /\ Temp \notin s.alive
  BY Names DEF Adopt, Live, IInv
<1>2. Sound(Adopted(s, m, x), raw) /\ Adopted(s, m, x).alive = s.alive \union {m}
  BY <1>1, AdoptedSound
<1>3. Temp \notin Adopted(s, m, x).alive
  BY <1>1, <1>2
<1> QED
  BY <1>2, <1>3, Done DEF Adopt

LEMMA AssignBuilderKeeps ==
  ASSUME IInv, NEW m \in Messengers, NEW x \in Builders, AssignBuilder(m, x)
  PROVE  IInv'
<1>1. /\ m \in Messengers \intersect s.alive /\ x \in s.alive \intersect Builders
      /\ s.alloc[x] = None /\ Temp \in SliceHolders \ s.alive /\ Sound(s, raw)
  BY Names DEF AssignBuilder, Live, IInv
<1>2. /\ Sound(Adopted(s, Temp, x), raw)
      /\ Adopted(s, Temp, x).alive = s.alive \union {Temp}
      /\ Adopted(s, Temp, x).alloc = [s.alloc EXCEPT ![Temp] = Temp]
  BY <1>1, AdoptedSound
<1> QED
  BY <1>1, <1>2, ThroughTemp DEF AssignBuilder

-----------------------------------------------------------------------------
(* The steps in which a block leaves the objects. *)

LEMMA ReleaseRawKeeps ==
  ASSUME IInv, NEW x \in Builders, ReleaseRaw(x)
  PROVE  IInv'
<1> DEFINE b == s.buf[x]
           new == [s EXCEPT !.buf[x] = None]
           out == raw \union {b}
<1>1. /\ x \in s.alive /\ b # None /\ Sound(s, raw) /\ s \in States /\ s.ok
      /\ Temp \notin s.alive
  BY DEF ReleaseRaw, Holds, Live, IInv, Sound
<1>2. s.alloc[x] # x
  BY <1>1, Kinds, Names
<1>3. /\ new \in States
      /\ new.alive = s.alive /\ new.deleted = s.deleted /\ new.ok
      /\ new.alloc = s.alloc /\ new.own = s.own /\ new.slice = s.slice /\ new.by = s.by
      /\ new.buf = [s.buf EXCEPT ![x] = None]
  BY <1>1 DEF States
<1>n. s' = new /\ raw' = out
  BY DEF ReleaseRaw
<1> HIDE DEF new
<1>4. /\ s.buf \in [Objects -> Blocks \union {None}] /\ s.alive \subseteq Objects
      /\ DOMAIN s.by \subseteq Blocks
  BY <1>1, Fields
<1>5. new.buf[x] = None /\ \A y \in Objects : y # x => new.buf[y] = s.buf[y]
  BY <1>1, <1>3, <1>4
<1>6. Unborn(new)
  BY <1>1, <1>3, <1>4, <1>5 DEF Sound, Unborn
<1>7. Served(new)
  <2>1. x \notin SliceHolders
    BY Names
  <2> QED
    BY <1>1, <1>2, <1>3, <1>4, <1>5, <2>1, Names DEF Sound, Served
<1>8. Returnable(new, out)
  <2>1. out \subseteq DOMAIN new.by
    BY <1>1, <1>2, <1>3 DEF Sound, Returnable
  <2>2. ASSUME NEW y \in s.alive, new.buf[y] # None
        PROVE  IF new.alloc[y] = y
               THEN new.buf[y] \notin DOMAIN new.by
               ELSE new.buf[y] \in DOMAIN new.by \ out /\ new.by[new.buf[y]] = new.alloc[y]
    <3>1. y # x /\ new.buf[y] = s.buf[y]
      BY <1>4, <1>5, <2>2
    <3>2. s.buf[y] # b
      BY <1>1, <3>1 DEF Sound, Apart
    <3> QED
      BY <1>1, <1>3, <2>2, <3>1, <3>2 DEF Sound, Returnable
  <2>3. ASSUME NEW c \in DOMAIN new.by \ out PROVE \E y \in s.alive : new.buf[y] = c
    <3>1. PICK y \in s.alive : s.buf[y] = c
      BY <1>1, <1>3, <2>3 DEF Sound, Returnable
    <3> QED
      BY <1>4, <1>5, <2>3, <3>1
  <2> QED
    BY <1>3, <2>1, <2>2, <2>3 DEF Returnable
<1>9. Apart(new)
  BY <1>1, <1>3, <1>4, <1>5 DEF Sound, Apart
<1>10. Sound(new, out) /\ Temp \notin new.alive
  BY <1>1, <1>3, <1>6, <1>7, <1>8, <1>9 DEF Sound
<1> QED
  BY <1>n, <1>10 DEF IInv

LEMMA FreeRawKeeps ==
  ASSUME IInv, NEW b, FreeRaw(b)
  PROVE  IInv'
<1> DEFINE rest == Without(s.by, b)
           new == [s EXCEPT !.by = rest]
           left == raw \ {b}
<1>1. b \in raw /\ Sound(s, raw) /\ s \in States /\ s.ok /\ Temp \notin s.alive
  BY DEF FreeRaw, IInv, Sound
<1>2. /\ DOMAIN s.by \subseteq Blocks /\ s.by \in [DOMAIN s.by -> Allocators \union {None}]
      /\ s.alive \subseteq Objects
  BY <1>1, Fields
<1>3. /\ DOMAIN rest = DOMAIN s.by \ {b}
      /\ \A c \in DOMAIN rest : rest[c] = s.by[c]
      /\ rest \in [DOMAIN s.by \ {b} -> Allocators \union {None}]
  BY <1>2 DEF Without
<1>4. rest \in UNION {[h -> Allocators \union {None}] : h \in SUBSET Blocks}
  BY <1>2, <1>3, ByType
<1>n. s' = new /\ raw' = left
  BY DEF FreeRaw
<1> HIDE DEF rest
<1>5. /\ new \in States
      /\ new.alive = s.alive /\ new.deleted = s.deleted /\ new.ok
      /\ new.alloc = s.alloc /\ new.own = s.own /\ new.slice = s.slice
      /\ new.buf = s.buf /\ new.by = rest
  BY <1>1, <1>4 DEF States
<1> HIDE DEF new
<1>6. Unborn(new) /\ Served(new) /\ Apart(new)
  BY <1>1, <1>5 DEF Sound, Unborn, Served, Apart
<1>7. Returnable(new, left)
  BY <1>1, <1>3, <1>5 DEF Sound, Returnable
<1>8. Sound(new, left) /\ Temp \notin new.alive
  BY <1>1, <1>5, <1>6, <1>7 DEF Sound
<1> QED
  BY <1>n, <1>8 DEF IInv

LEMMA ReleaseRawMessengerKeeps ==
  ASSUME IInv, NEW m \in Messengers, ReleaseRawMessenger(m)
  PROVE  IInv'
<1> DEFINE new == [s EXCEPT !.buf[m] = None, !.slice[m] = None]
<1>1. /\ m \in s.alive /\ Sound(s, raw) /\ s \in States /\ s.ok
      /\ Temp \notin s.alive /\ m \in SliceHolders
  BY Names DEF ReleaseRawMessenger, Holds, Live, IInv, Sound
<1>2. s.alloc[m] = m
  BY <1>1, Kinds, Names
<1>3. /\ new \in States
      /\ new.alive = s.alive /\ new.deleted = s.deleted /\ new.ok
      /\ new.alloc = s.alloc /\ new.own = s.own /\ new.by = s.by
      /\ new.buf = [s.buf EXCEPT ![m] = None] /\ new.slice = [s.slice EXCEPT ![m] = None]
  BY <1>1 DEF States
<1>n. s' = new /\ raw' = raw
  BY DEF ReleaseRawMessenger
<1> HIDE DEF new
<1>4. /\ s.buf \in [Objects -> Blocks \union {None}] /\ s.alive \subseteq Objects
      /\ s.slice \in [SliceHolders -> Blocks \union {None}]
      /\ DOMAIN s.by \subseteq Blocks
  BY <1>1, Fields
<1>5. /\ new.buf[m] = None /\ \A y \in Objects : y # m => new.buf[y] = s.buf[y]
      /\ new.slice[m] = None /\ \A y \in SliceHolders : y # m => new.slice[y] = s.slice[y]
  BY <1>1, <1>3, <1>4
<1>6. Unborn(new)
  BY <1>1, <1>3, <1>4, <1>5 DEF Sound, Unborn
<1>7. Served(new)
  BY <1>1, <1>2, <1>3, <1>4, <1>5 DEF Sound, Served
<1>8. Returnable(new, raw)
  <2>1. raw \subseteq DOMAIN new.by
    BY <1>1, <1>3 DEF Sound, Returnable
  <2>2. \A y \in s.alive :
          new.buf[y] # None =>
            IF new.alloc[y] = y
            THEN new.buf[y] \notin DOMAIN new.by
            ELSE new.buf[y] \in DOMAIN new.by \ raw /\ new.by[new.buf[y]] = new.alloc[y]
    BY <1>1, <1>3, <1>4, <1>5 DEF Sound, Returnable
  <2>3. ASSUME NEW c \in DOMAIN new.by \ raw PROVE \E y \in s.alive : new.buf[y] = c
    <3>1. PICK y \in s.alive : s.buf[y] = c
      BY <1>1, <1>3, <2>3 DEF Sound, Returnable
    <3>2. y # m
      BY <1>1, <1>2, <1>3, <1>4, <2>3, <3>1, Names DEF Sound, Returnable
    <3> QED
      BY <1>4, <1>5, <3>1, <3>2
  <2> QED
    BY <1>3, <2>1, <2>2, <2>3 DEF Returnable
<1>9. Apart(new)
  BY <1>1, <1>3, <1>4, <1>5 DEF Sound, Apart
<1>10. Sound(new, raw) /\ Temp \notin new.alive
  BY <1>1, <1>3, <1>6, <1>7, <1>8, <1>9 DEF Sound
<1> QED
  BY <1>n, <1>10 DEF IInv

\* The assertion of both holds: what the builder writes is its slice's block.
LEMMA Asserted ==
  ASSUME IInv, NEW m \in Messengers, Holds(m)
  PROVE  [s EXCEPT !.ok = @ /\ s.buf[m] = s.slice[m]] = s
<1>1. m \in s.alive /\ s \in States /\ s.ok
  BY DEF Holds, Live, IInv, Sound
<1>2. s.buf[m] = s.slice[m]
  BY <1>1, Kinds, Names DEF IInv, Sound, Served
<1> QED
  BY <1>1, <1>2 DEF States

LEMMA GetMessageKeeps ==
  ASSUME IInv, NEW m \in Messengers, GetMessage(m)
  PROVE  IInv'
BY Asserted DEF GetMessage, IInv

LEMMA ReleaseMessageKeeps ==
  ASSUME IInv, NEW m \in Messengers, ReleaseMessage(m)
  PROVE  IInv'
<1>1. m \in s.alive /\ Sound(s, raw) /\ Temp \notin s.alive
  BY DEF ReleaseMessage, Holds, Live, IInv
<1>2. Sound(Deallocated(s, m), raw) /\ Deallocated(s, m).alive = s.alive
  BY <1>1, DeallocatedSound, DeallocatedIs
<1>3. s' = Deallocated(s, m) /\ raw' = raw
  BY Asserted DEF ReleaseMessage
<1> QED
  BY <1>1, <1>2, <1>3 DEF IInv

-----------------------------------------------------------------------------

LEMMA InitSound == OwnershipInit => IInv
<1> SUFFICES ASSUME OwnershipInit PROVE IInv
  OBVIOUS
<1> DEFINE none == [b \in {} |-> None]
<1>1. none \in [{} -> Allocators \union {None}] /\ DOMAIN none = {}
  OBVIOUS
<1>2. none \in UNION {[h -> Allocators \union {None}] : h \in SUBSET Blocks}
  BY <1>1, ByType
<1>n. /\ s.alive = {} /\ s.deleted = {} /\ s.ok
      /\ s.alloc = [x \in Objects |-> None] /\ s.own = [x \in Objects |-> FALSE]
      /\ s.buf = [x \in Objects |-> None] /\ s.slice = [m \in SliceHolders |-> None]
      /\ s.by = none /\ raw = {}
  BY DEF OwnershipInit
<1>3. s \in States
  <2> HIDE DEF none
  <2> QED
    BY <1>2 DEF OwnershipInit, States, none
<1> HIDE DEF none
<1>4. Unborn(s)
  BY <1>n, Names DEF Unborn
<1>5. Served(s) /\ Apart(s) /\ Returnable(s, raw)
  BY <1>n, <1>1 DEF Served, Apart, Returnable
<1> QED
  BY <1>n, <1>3, <1>4, <1>5 DEF IInv, Sound

LEMMA BuilderStepKeeps == IInv /\ BuilderStep => IInv'
<1> SUFFICES ASSUME IInv, NEW x \in Builders,
                    \/ Construct(x) \/ ConstructLent(x) \/ Grow(x) \/ Reset(x)
                    \/ ReleaseRaw(x) \/ Destroy(x)
                    \/ \E y \in Builders :
                         MoveConstruct(x, y) \/ MoveAssign(x, y) \/ SwapBuilders(x, y)
                    \/ \E d \in Detached : Release(x, d)
             PROVE  IInv'
  BY DEF BuilderStep
<1>1. CASE Construct(x) \/ ConstructLent(x)
  BY <1>1, ConstructKeeps
<1>2. CASE Grow(x)
  BY <1>2, GrowKeeps
<1>3. CASE Reset(x)
  BY <1>3, ResetKeeps
<1>4. CASE ReleaseRaw(x)
  BY <1>4, ReleaseRawKeeps
<1>5. CASE Destroy(x)
  BY <1>5, DestroyKeeps
<1>6. ASSUME NEW y \in Builders, MoveConstruct(x, y) PROVE IInv'
  BY <1>6, MoveConstructKeeps
<1>7. ASSUME NEW y \in Builders, MoveAssign(x, y) PROVE IInv'
  BY <1>7, MoveAssignKeeps
<1>8. ASSUME NEW y \in Builders, SwapBuilders(x, y) PROVE IInv'
  BY <1>8, SwapBuildersKeeps
<1>9. ASSUME NEW d \in Detached, Release(x, d) PROVE IInv'
  BY <1>9, ReleaseKeeps
<1> QED
  BY <1>1, <1>2, <1>3, <1>4, <1>5, <1>6, <1>7, <1>8, <1>9

LEMMA DetachedStepKeeps == IInv /\ DetachedStep => IInv'
BY DestroyKeeps, MoveConstructDetachedKeeps, MoveAssignDetachedKeeps DEF DetachedStep

LEMMA MessengerStepKeeps == IInv /\ MessengerStep => IInv'
<1> SUFFICES ASSUME IInv, NEW m \in Messengers,
                    \/ ConstructMessenger(m) \/ Grow(m) \/ Reset(m) \/ Destroy(m)
                    \/ ReleaseRawMessenger(m) \/ GetMessage(m) \/ ReleaseMessage(m)
                    \/ \E n \in Messengers : MoveMessenger(m, n) \/ AssignMessenger(m, n)
                    \/ \E x \in Builders : Adopt(m, x) \/ AssignBuilder(m, x)
             PROVE  IInv'
  BY DEF MessengerStep
<1>1. CASE ConstructMessenger(m)
  BY <1>1, ConstructMessengerKeeps
<1>2. CASE Grow(m)
  BY <1>2, GrowKeeps
<1>3. CASE Reset(m)
  BY <1>3, ResetKeeps
<1>4. CASE Destroy(m)
  BY <1>4, DestroyKeeps
<1>5. CASE ReleaseRawMessenger(m)
  BY <1>5, ReleaseRawMessengerKeeps
<1>6. CASE GetMessage(m)
  BY <1>6, GetMessageKeeps
<1>7. CASE ReleaseMessage(m)
  BY <1>7, ReleaseMessageKeeps
<1>8. ASSUME NEW n \in Messengers, MoveMessenger(m, n) PROVE IInv'
  BY <1>8, MoveMessengerKeeps
<1>9. ASSUME NEW n \in Messengers, AssignMessenger(m, n) PROVE IInv'
  BY <1>9, AssignMessengerKeeps
<1>10. ASSUME NEW x \in Builders, Adopt(m, x) PROVE IInv'
  BY <1>10, AdoptKeeps
<1>11. ASSUME NEW x \in Builders, AssignBuilder(m, x) PROVE IInv'
  BY <1>11, AssignBuilderKeeps
<1> QED
  BY <1>1, <1>2, <1>3, <1>4, <1>5, <1>6, <1>7, <1>8, <1>9, <1>10, <1>11

LEMMA NextSound == IInv /\ [OwnershipNext]_ownership => IInv'
<1> SUFFICES ASSUME IInv, [OwnershipNext]_ownership PROVE IInv'
  OBVIOUS
<1>1. CASE BuilderStep
  BY <1>1, BuilderStepKeeps
<1>2. CASE DetachedStep
  BY <1>2, DetachedStepKeeps
<1>3. CASE MessengerStep
  BY <1>3, MessengerStepKeeps
<1>4. CASE CallerStep
  <2>1. ASSUME NEW b \in Blocks, FreeRaw(b) PROVE IInv'
    BY <2>1, FreeRawKeeps
  <2>2. ASSUME NEW b \in Blocks, DropMessage(b) PROVE IInv'
    BY <2>2 DEF DropMessage, IInv
  <2> QED
    BY <1>4, <2>1, <2>2 DEF CallerStep
<1>5. CASE UNCHANGED ownership
  BY <1>5 DEF ownership, IInv
<1> QED
  BY <1>1, <1>2, <1>3, <1>4, <1>5 DEF OwnershipNext

LEMMA Invariance == OwnershipSpec => []IInv
BY InitSound, NextSound, PTL DEF OwnershipSpec

-----------------------------------------------------------------------------

\* Every deallocation goes to the allocator the block came from, which still exists, and
\* the assertions of SliceAllocator and GetMessage hold, after any operations on any
\* number of builders, buffers and messages.
THEOREM RightlyFreed == OwnershipSpec => []RightAllocator
<1>1. IInv => RightAllocator
  BY DEF IInv, Sound, RightAllocator
<1> QED
  BY <1>1, Invariance, PTL

\* Each block in use has one owner that will give it back, once.
THEOREM EachBlockOwned == OwnershipSpec => []OneOwner
<1>1. IInv => OneOwner
  <2> SUFFICES ASSUME IInv PROVE OneOwner
    OBVIOUS
  <2>0. s \in States /\ Sound(s, raw)
    BY DEF IInv, Sound
  <2>1. ASSUME NEW b \in DOMAIN s.by
        PROVE  Cardinality({x \in s.alive : s.buf[x] = b}) = IF b \in raw THEN 0 ELSE 1
    <3> DEFINE H == {x \in s.alive : s.buf[x] = b}
    <3>1. b # None
      BY <2>0, Fields, Names
    <3>2. CASE b \in raw
      <4>1. H = {}
        BY <2>0, <3>1, <3>2 DEF Sound, Returnable
      <4> QED
        BY <3>2, <4>1, FS_EmptySet
    <3>3. CASE b \notin raw
      <4>1. PICK x \in s.alive : s.buf[x] = b
        BY <2>0, <3>3 DEF Sound, Returnable
      <4>2. H = {x}
        BY <2>0, <3>1, <4>1 DEF Sound, Apart
      <4> QED
        BY <3>3, <4>2, FS_Singleton
    <3> QED
      BY <3>2, <3>3
  <2>2. ASSUME NEW m \in Messengers, m \in s.alive
        PROVE  s.alloc[m] = m /\ s.buf[m] = s.slice[m]
    BY <2>0, <2>2 DEF Sound, Served
  <2>3. \A x, y \in s.alive : x # y /\ s.buf[x] # None => s.buf[x] # s.buf[y]
    BY <2>0 DEF Sound, Apart
  <2> QED
    BY <2>1, <2>2, <2>3 DEF OneOwner
<1> QED
  BY <1>1, Invariance, PTL

\* A custom allocator that was handed over is deleted by one object, and after every
\* block it gave out, those of ReleaseRaw apart; nothing is left with a deleted one.
THEOREM AllocatorsOutlive == OwnershipSpec => []AllocatorOutlives
<1>1. IInv => AllocatorOutlives
  <2> SUFFICES ASSUME IInv PROVE AllocatorOutlives
    OBVIOUS
  <2>0. s \in States /\ Sound(s, raw) /\ s.alive \subseteq Objects
        /\ s.deleted \subseteq Allocators
    BY Fields DEF IInv, Sound
  <2>1. \A x \in s.alive : s.alloc[x] \notin s.deleted
    BY <2>0, Names DEF Sound, Served
  <2>2. \A x, y \in s.alive : s.own[x] /\ x # y => s.alloc[x] # s.alloc[y]
    BY <2>0 DEF Sound, Apart
  <2>3. ASSUME NEW b \in DOMAIN s.by, s.by[b] \in s.deleted, b \notin raw
        PROVE  FALSE
    <3>1. PICK x \in s.alive : s.buf[x] = b
      BY <2>0, <2>3 DEF Sound, Returnable
    <3>2. b # None
      BY <2>0, Fields, Names
    <3>3. s.by[b] = s.alloc[x]
      BY <2>0, <3>1, <3>2 DEF Sound, Returnable
    <3> QED
      BY <2>1, <2>3, <3>1, <3>3
  <2> QED
    BY <2>1, <2>2, <2>3 DEF AllocatorOutlives
<1> QED
  BY <1>1, Invariance, PTL
=============================================================================
