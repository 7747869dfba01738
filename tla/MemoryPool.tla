----------------------------- MODULE MemoryPool -----------------------------
(***************************************************************************)
(* One MemoryPool of HashBucket's array: slots are cut from blocks, and the  *)
(* slots given back are kept in a list threaded through their own memory.    *)
(* Two mutexes are used: one for the list, one for the blocks.  Addresses    *)
(* are numbers and their arithmetic is unsigned, as in the code.             *)
(*                                                                           *)
(* freeList_ is the only field touched under both mutexes, so a section      *)
(* under mutexForBlock_ is one step and a section under mutexForFreeList_ is *)
(* cut at each access to freeList_.  The build does not optimise (-g), so    *)
(* every access in the source is a read or a write of memory.                *)
(***************************************************************************)
EXTENDS Integers

CONSTANTS Threads,
          Size,             \* bytes of the objects allocated, sizeof(T)
          BlockSize,        \* BlockSize_
          Bases,            \* addresses operator new may return
          WordSize,         \* 2 to the number of bits of size_t
          Null,             \* nullptr
          Garbage           \* what an object leaves in the first word of its slot

Pointer == 8                \* sizeof(Slot) and sizeof(Slot*)

(* HashBucket: which pool serves a size, and the slots of that pool *)
poolIndexDown(size) == size \div 8 - 1                            \* mutant
poolIndex(size) == (size + 7) \div 8 - 1
SlotSize == (poolIndex(Size) + 1) * 8

(* Blocks are aligned, do not overlap and have room for a slot behind the link and
   the padding: BlockSize_ is 4096 and a slot has at most 512 bytes. *)
ASSUME PoolAssumption ==
  /\ Size \in 1..512 /\ BlockSize \in Nat /\ 2 * SlotSize + Pointer - 1 <= BlockSize
  /\ WordSize \in Nat \ {0} /\ WordSize % Pointer = 0
  /\ Bases \subseteq Nat
  /\ \A b \in Bases : b % Pointer = 0 /\ b + BlockSize < WordSize
  /\ \A b, c \in Bases : b < c => b + BlockSize <= c
  /\ Null \notin Nat /\ Garbage \notin Nat /\ Null # Garbage /\ Null \notin Threads

padPointer(p, align) == ((align - p) % WordSize) % align

FirstSlot(block) == block + Pointer + padPointer(block + Pointer, SlotSize)
LastSlot(block) == block + BlockSize - SlotSize + 1

VARIABLES freeList,         \* freeList_
          next,             \* Slot::next of every slot cut so far
          curSlot,          \* curSlot_, 0 for nullptr
          lastSlot,         \* lastSlot_
          blocks,           \* the blocks linked from firstBlock_
          mutex,            \* the thread in mutexForFreeList_, or Null
          pc,
          temp,             \* local variable of allocate, ptr of deallocate
          rest,             \* freeList_->next between its read and its store
          held              \* slots in use, by the thread that got them

vars == <<freeList, next, curSlot, lastSlot, blocks, mutex, pc, temp, rest, held>>
list == <<freeList, next>>
block == <<curSlot, lastSlot, blocks>>

Slots == DOMAIN next

Init ==
  /\ freeList = Null /\ next = <<>> /\ curSlot = 0 /\ lastSlot = 0 /\ blocks = {}
  /\ mutex = Null
  /\ pc = [t \in Threads |-> "idle"]
  /\ temp = [t \in Threads |-> Null]
  /\ rest = [t \in Threads |-> Null]
  /\ held = [t \in Threads |-> {}]

(* A null pointer that is followed ends the process. *)
Alive == \A t \in Threads : pc[t] # "fault"

At(t, from, to) == Alive /\ pc[t] = from /\ pc' = [pc EXCEPT ![t] = to]

(* newElement constructs an object over the slot. *)
Construct(t, slot) ==
  /\ held' = [held EXCEPT ![t] = @ \cup {slot}]
  /\ next' = [s \in Slots \cup {slot} |-> IF s = slot THEN Garbage ELSE next[s]]

-----------------------------------------------------------------------------
(* allocate: the first test takes no lock *)
allocate(t) ==
  /\ \/ freeList # Null /\ At(t, "idle", "lock")
     \/ freeList = Null /\ At(t, "idle", "block")
  /\ UNCHANGED <<list, block, mutex, temp, rest, held>>

(* The second test and the read into temp are one step: if the list is emptied
   between them, the list is still empty at the next step, which faults. *)
PopTestNoLock(t) ==                                               \* mutant
  /\ freeList # Null /\ At(t, "lock", "pop")
  /\ temp' = [temp EXCEPT ![t] = freeList]
  /\ UNCHANGED <<list, block, rest, held, mutex>>
PopTest(t) ==
  /\ mutex = Null
  /\ \/ /\ freeList # Null /\ At(t, "lock", "pop")
        /\ mutex' = t
        /\ temp' = [temp EXCEPT ![t] = freeList]
     \/ /\ freeList = Null /\ At(t, "lock", "block")
        /\ UNCHANGED <<mutex, temp>>
  /\ UNCHANGED <<list, block, rest, held>>

PopRead(t) ==
  /\ \/ /\ freeList # Null /\ At(t, "pop", "unlink")
        /\ rest' = [rest EXCEPT ![t] = next[freeList]]
     \/ freeList = Null /\ At(t, "pop", "fault") /\ UNCHANGED rest
  /\ UNCHANGED <<list, block, mutex, temp, held>>

PopStore(t) ==
  /\ At(t, "unlink", "idle")
  /\ freeList' = rest[t]
  /\ Construct(t, temp[t])
  /\ mutex' = Null
  /\ temp' = [temp EXCEPT ![t] = Null] /\ rest' = [rest EXCEPT ![t] = Null]
  /\ UNCHANGED block

(* mutexForBlock_ held: the next slot of the current block *)
BumpSlot(t) ==
  /\ curSlot < lastSlot /\ At(t, "block", "idle")
  /\ Construct(t, curSlot)
  /\ curSlot' = curSlot + SlotSize
  /\ UNCHANGED <<freeList, lastSlot, blocks, mutex, temp, rest>>

(* mutexForBlock_ held: a new block, whose first slot is taken *)
allocateNewBlock(t) ==
  /\ curSlot >= lastSlot /\ At(t, "block", "idle")
  /\ \E b \in Bases \ blocks :
       /\ blocks' = blocks \cup {b}
       /\ Construct(t, FirstSlot(b))
       /\ curSlot' = FirstSlot(b) + SlotSize
       /\ lastSlot' = LastSlot(b)
  /\ freeList' = Null
  /\ UNCHANGED <<mutex, temp, rest>>

(* operator new throws std::bad_alloc out of allocate *)
NewFails(t) ==
  /\ curSlot >= lastSlot /\ Bases \subseteq blocks /\ At(t, "block", "idle")
  /\ UNCHANGED <<list, block, mutex, temp, rest, held>>

-----------------------------------------------------------------------------
(* deallocate, by any thread that was handed the object *)
deallocate(t, u, s) ==
  /\ mutex = Null /\ At(t, "idle", "push")
  /\ s \in held[u]
  /\ mutex' = t
  /\ held' = [held EXCEPT ![u] = @ \ {s}]
  /\ temp' = [temp EXCEPT ![t] = s]
  /\ next' = [next EXCEPT ![s] = freeList]
  /\ UNCHANGED <<freeList, block, rest>>

PushStoreUnlinks(t) ==                                            \* mutant
  /\ At(t, "push", "idle")
  /\ freeList' = temp[t] /\ next' = [next EXCEPT ![temp[t]] = Null]
  /\ mutex' = Null
  /\ temp' = [temp EXCEPT ![t] = Null]
  /\ UNCHANGED <<block, rest, held>>
PushStore(t) ==
  /\ At(t, "push", "idle")
  /\ freeList' = temp[t]
  /\ mutex' = Null
  /\ temp' = [temp EXCEPT ![t] = Null]
  /\ UNCHANGED <<next, block, rest, held>>

Step(t) ==
  \/ allocate(t) \/ PopTest(t) \/ PopRead(t) \/ PopStore(t)
  \/ BumpSlot(t) \/ allocateNewBlock(t) \/ NewFails(t)
  \/ \E u \in Threads : \E s \in held[u] : deallocate(t, u, s)
  \/ PushStore(t)

Next == \E t \in Threads : Step(t)

Spec == Init /\ [][Next]_vars

-----------------------------------------------------------------------------
(* The first word of a slot is followed only while the slot is free: no value an
   object left there becomes the head of the list. *)
TypeOK ==
  /\ freeList \in Slots \cup {Null}
  /\ next \in [Slots -> Slots \cup {Null, Garbage}]
  /\ blocks \subseteq Bases
  /\ curSlot \in Nat /\ lastSlot \in Nat
  /\ mutex \in Threads \cup {Null}
  /\ pc \in [Threads -> {"idle", "lock", "pop", "unlink", "block", "push", "fault"}]
  /\ temp \in [Threads -> Slots \cup {Null}]
  /\ rest \in [Threads -> Slots \cup {Null}]
  /\ held \in [Threads -> SUBSET Slots]

(* The slots that links lead to from some pointers: the least set that has the slots
   among the pointers and with a slot the one that it links to *)
Closed(C, link) == \A s \in C : link[s] \in DOMAIN link => link[s] \in C
Linked(roots, link) ==
  {s \in DOMAIN link :
     \A C \in SUBSET DOMAIN link :
       roots \cap DOMAIN link \subseteq C /\ Closed(C, link) => s \in C}
FreeSlots == Linked({freeList}, next)

(* Objects lie inside a block, behind its link to the next block, and do not
   overlap: HashBucket's rounding, the padding and the limit lastSlot_ agree.
   Every slot can hold a Slot, and starts at a multiple of the slot size where that
   divides the range of size_t: for others, (align - p) % align is no padding. *)
SlotsApart ==
  \A s \in Slots :
    /\ s % Pointer = 0
    /\ WordSize % SlotSize = 0 => s % SlotSize = 0
    /\ \E b \in blocks : b + Pointer <= s /\ s + Size <= b + BlockSize
    /\ \A r \in Slots : r < s => r + Size <= s

(* allocate hands a slot to one caller at a time: no slot is held twice, nor held
   and in the free list, although allocateNewBlock changes freeList_ while another
   thread is between reading and storing it; and two slots share no byte. *)
Exclusive ==
  /\ TypeOK
  /\ SlotsApart
  /\ \A t, u \in Threads : t # u => held[t] \cap held[u] = {}
  /\ \A t \in Threads : held[t] \cap FreeSlots = {}

(* The slots that are in use, free, or on their way in or out of the list *)
Pointers == {freeList} \cup {temp[t] : t \in Threads} \cup {rest[t] : t \in Threads}
Reachable == (UNION {held[t] : t \in Threads}) \cup Linked(Pointers, next)

(* Slots are lost in one way only: allocateNewBlock empties the free list and drops
   the slots that were given back since allocate found it empty. *)
LosesOnlyWithNewBlock == [][Reachable \subseteq Reachable' \/ blocks' # blocks]_vars
=============================================================================
