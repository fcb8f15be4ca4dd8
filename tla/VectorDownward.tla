---------------------------- MODULE VectorDownward ----------------------------
(***************************************************************************)
(* vector_downward.h: two vectors in one allocation.  The data grows from  *)
(* the end of the allocation down to cur_, the scratch pad from its start  *)
(* up to scratch_; when they would meet, both are copied into a larger     *)
(* allocation.                                                             *)
(*                                                                         *)
(* Pointers are offsets from buf_, and a null buf_ is the allocation of 0  *)
(* bytes: wherever the code sets buf_ to null it calls clear, and then     *)
(* reserved_, cur_ and scratch_ are null, too.  back and front are what    *)
(* the caller has pushed and not popped.                                   *)
(***************************************************************************)
EXTENDS Integers

CONSTANTS
  Data,             \* the bytes pushed; 0 is one of them
  Undefined,        \* what memory holds before it is written
  initial_size_, buffer_minalign_, max_size_,
  MaxLength,        \* bound: bytes pushed or popped by one call
  MaxTotal          \* bound: bytes in both vectors

ASSUME DataAssumption == 0 \in Data
ASSUME SizesAssumption ==
  initial_size_ \in Nat /\ buffer_minalign_ \in Nat \ {0} /\ max_size_ \in Nat \ {0}
ASSUME BoundsAssumption == MaxLength \in Nat /\ MaxTotal \in Nat

VARIABLES
  mem,        \* the allocation
  reserved_, size_, cur_, scratch_,
  back,       \* history: the data, from the first byte pushed on
  front       \* history: the scratch pad, from the first byte pushed on

vars == <<mem, reserved_, size_, cur_, scratch_, back, front>>

Empty == [i \in 1 .. 0 |-> 0]

Init ==
  /\ reserved_ = 0 /\ size_ = 0 /\ cur_ = 0 /\ scratch_ = 0
  /\ mem = [a \in 0 .. -1 |-> Undefined]
  /\ back = Empty /\ front = Empty

unused_buffer_size == cur_ - scratch_

-----------------------------------------------------------------------------
(* Growing. *)

\* Rounded up to buffer_minalign_, which is a power of 2.
Rounded(n) == n + ((0 - n) % buffer_minalign_)

Larger(m, n) == IF m > n THEN m ELSE n

NewReserved(len) ==
  Rounded(reserved_ + Larger(len, IF reserved_ # 0 THEN reserved_ \div 2
                                                   ELSE initial_size_))

\* Fault: the data is copied to where it was.
memcpy_downwardInPlace(new) ==
  [a \in 0 .. new - 1 |->
     IF a < scratch_ \/ (cur_ <= a /\ a < reserved_) THEN mem[a] ELSE Undefined]

\* The data goes to the end of the new memory, the scratch pad to its start.
memcpy_downward(new) ==
  [a \in 0 .. new - 1 |->
     IF a >= new - size_ THEN mem[a - new + reserved_]
     ELSE IF a < scratch_ THEN mem[a] ELSE Undefined]

\* ensure_space(len): the allocation and cur_ before the write.  size_ is compared
\* with max_size_ before len is added to it; an assert stops the program.
Asserts == size_ < max_size_
Grows(len) == len > unused_buffer_size
Reserved(len) == IF Grows(len) THEN NewReserved(len) ELSE reserved_
Memory(len) == IF Grows(len) THEN memcpy_downward(NewReserved(len)) ELSE mem
Cur(len) == IF Grows(len) THEN NewReserved(len) - size_ ELSE cur_

-----------------------------------------------------------------------------
(* The data. *)

\* make_space(len), then memcpy of the bytes, the first one at cur_.
Write(bytes, len) ==
  /\ Asserts
  /\ reserved_' = Reserved(len)
  /\ cur_' = Cur(len) - len
  /\ size_' = size_ + len
  /\ mem' = [a \in 0 .. Reserved(len) - 1 |->
               IF cur_' <= a /\ a < Cur(len) THEN bytes[a - cur_' + 1]
                                             ELSE Memory(len)[a]]
  /\ back' = [i \in 1 .. size_ + len |->
                IF i <= size_ THEN back[i] ELSE bytes[size_ + len - i + 1]]
  /\ UNCHANGED <<scratch_, front>>

\* Nothing happens for no bytes.
push(bytes, len) == len > 0 /\ Write(bytes, len)

fill(len) == push([i \in 1 .. len |-> 0], len)

pop(n) ==
  /\ n <= size_
  /\ cur_' = cur_ + n
  /\ size_' = size_ - n
  /\ back' = [i \in 1 .. size_ - n |-> back[i]]
  /\ UNCHANGED <<mem, reserved_, scratch_, front>>

(* The scratch pad. *)

scratch_push_small(bytes, len) ==
  /\ len > 0 /\ Asserts
  /\ reserved_' = Reserved(len)
  /\ cur_' = Cur(len)
  /\ scratch_' = scratch_ + len
  /\ mem' = [a \in 0 .. Reserved(len) - 1 |->
               IF scratch_ <= a /\ a < scratch_ + len THEN bytes[a - scratch_ + 1]
                                                      ELSE Memory(len)[a]]
  /\ front' = [i \in 1 .. scratch_ + len |->
                 IF i <= scratch_ THEN front[i] ELSE bytes[i - scratch_]]
  /\ UNCHANGED <<size_, back>>

scratch_pop(n) ==
  /\ n <= scratch_
  /\ scratch_' = scratch_ - n
  /\ front' = [i \in 1 .. scratch_ - n |-> front[i]]
  /\ UNCHANGED <<mem, reserved_, size_, cur_, back>>

(* Both. *)

\* clear keeps the allocation.
clear ==
  /\ cur_' = reserved_ /\ size_' = 0 /\ scratch_' = 0
  /\ back' = Empty /\ front' = Empty
  /\ UNCHANGED <<mem, reserved_>>

\* reset, and what release and release_raw leave behind.
reset ==
  /\ reserved_' = 0 /\ cur_' = 0 /\ size_' = 0 /\ scratch_' = 0
  /\ mem' = [a \in 0 .. -1 |-> Undefined]
  /\ back' = Empty /\ front' = Empty

-----------------------------------------------------------------------------
Fits(len) == size_ + scratch_ + len <= MaxTotal

Pushes ==
  \E len \in 0 .. MaxLength :
    /\ Fits(len)
    /\ \/ \E bytes \in [1 .. len -> Data] :
            push(bytes, len) \/ scratch_push_small(bytes, len)
       \/ fill(len)

Pops == \E n \in 1 .. MaxLength : pop(n) \/ scratch_pop(n)

Next == Pushes \/ Pops \/ clear \/ reset

Spec == Init /\ [][Next]_vars

-----------------------------------------------------------------------------
(* Properties. *)

TypeOK ==
  /\ {reserved_, size_, cur_, scratch_} \subseteq Nat
  /\ mem \in [0 .. reserved_ - 1 -> Data \union {Undefined}]
  /\ back \in [1 .. size_ -> Data]
  /\ front \in [1 .. scratch_ -> Data]

\* The two vectors do not meet (the assert in ensure_space), the data ends where
\* the allocation ends, and after any calls and any growing in between both hold
\* what was pushed: data_at(i) points to the i-th byte pushed.
Intact ==
  /\ scratch_ <= cur_ /\ cur_ + size_ = reserved_
  /\ \A i \in 1 .. size_ : mem[reserved_ - i] = back[i]
  /\ \A i \in 1 .. scratch_ : mem[i - 1] = front[i]
=============================================================================
