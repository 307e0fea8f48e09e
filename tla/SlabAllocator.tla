---------------------------- MODULE SlabAllocator ----------------------------
(***************************************************************************)
(* Cognitron::Core::SlabAllocator (include/memory/SlabAllocator.hpp): a    *)
(* first-fit heap with boundary tags over a caller-owned region, addressed *)
(* by offsets in which 0 stands for null.                                  *)
(*                                                                         *)
(* Allocate and Free run under the allocator's spinlock, so each call is   *)
(* one atomic step here; the clients that call them interleave whole       *)
(* calls.  Memory is abstracted to the words the allocator reads and       *)
(* writes: the header word at the start of a 64-byte unit, the footer word *)
(* at the end of one, and the FreeNode links at the start of a free        *)
(* block's payload.  A merge leaves the absorbed block's header and footer *)
(* behind as stale words, as the code does; the allocator reads a header   *)
(* only at a live block boundary, where no free node or payload can have   *)
(* overwritten it.                                                         *)
(*                                                                         *)
(* The whole-block path calls header->SetUsed(false), which BlockHeader    *)
(* does not declare: the header does not compile as written.  The model   *)
(* takes the path as the next lines (SetFree(false); UpdateFooter) do it.  *)
(* The region's base pointer is taken 64-byte aligned (adjustment 0).      *)
(***************************************************************************)
EXTENDS Naturals, FiniteSets

CONSTANTS
  BaseOffset,   \* start_offset: the offset of the region's first byte
  TotalSize,    \* total_size: the bytes of the region
  Clients,      \* the callers of Allocate and Free
  Requests,     \* the byte counts the callers ask for
  SizeWidth     \* the bits of size_t

ASSUME BaseAligned == BaseOffset \in Nat /\ BaseOffset % 64 = 0
ASSUME TotalSizeAligned == TotalSize \in Nat \ {0} /\ TotalSize % 64 = 0
ASSUME SizeWidthPositive == SizeWidth \in Nat \ {0}
(* 2^w is positive for every positive w; stated for the provers, which    *)
(* cannot derive it without induction.                                     *)
ASSUME WordPositive == 2 ^ SizeWidth \in Nat \ {0}
ASSUME RequestsNonZero == Requests \subseteq 1 .. 2 ^ SizeWidth - 1

VARIABLES
  hdr,        \* the header word (BlockHeader::size_and_state) of each unit
  ftr,        \* the footer word (BlockFooter) at the end of each unit
  next,       \* FreeNode::next_offset in the payload of the block at a unit
  prev,       \* FreeNode::prev_offset in the payload of the block at a unit
  freeHead,   \* m_free_list_head_offset
  owned,      \* the payload offset each client holds, Null for none
  stale,      \* the payload offset each client last freed
  lastAlloc   \* the request and the result of the last Allocate

vars == <<hdr, ftr, next, prev, freeHead, owned, stale, lastAlloc>>
heap == <<hdr, ftr, next, prev, freeHead>>

Null == 0
Alignment == 64
HeaderSize == 64   \* sizeof(BlockHeader), alignas(64)
FooterSize == 8    \* sizeof(BlockFooter)
Word == 2 ^ SizeWidth

(* BlockHeader / BlockFooter: size_and_state decoded into its two fields. *)
Tag(size, free) == [size |-> size, free |-> free]
Zero == Tag(0, FALSE)

First == BaseOffset                   \* m_first_block_offset
HeapEnd == BaseOffset + TotalSize     \* m_total_size + m_base_offset
Units == {BaseOffset + Alignment * k : k \in 0 .. TotalSize \div Alignment - 1}
Payloads == {u + HeaderSize : u \in Units}

(* x & ~63 without the + 63: rounds down, a plausible bug. *)
AlignDown(x) == LET y == x % Word IN y - (y % Alignment)

(* (x + 63) & ~63 computed in size_t. *)
AlignUp(x) == LET y == (x + Alignment - 1) % Word IN y - (y % Alignment)

(* required_total_size: header, aligned payload and footer, aligned. *)
Required(n) == AlignUp(HeaderSize + AlignUp(n) + FooterSize)

(* The 64-byte unit holding the footer of a block at b of the given size. *)
FooterUnit(b, size) ==
  LET a == b + size - FooterSize IN a - (a % Alignment)

(* UpdateFooter: the footer of the block at b takes the header word t. *)
WriteFooter(f, b, t) == [f EXCEPT ![FooterUnit(b, t.size)] = t]

(* The block boundaries, found by walking the sizes from the first block. *)
BlockWalk[k \in Nat] ==
  IF k = 0 THEN First
  ELSE LET b == BlockWalk[k - 1]
       IN  IF b \in Units THEN b + hdr[b].size ELSE b

MaxWalk == TotalSize \div Alignment

Blocks == {BlockWalk[k] : k \in 0 .. MaxWalk} \cap Units

(* The free list, walked from m_free_list_head_offset. *)
FreeWalk[k \in Nat] ==
  IF k = 0 THEN freeHead
  ELSE LET o == FreeWalk[k - 1]
       IN  IF o # Null /\ o \in Units THEN next[o] ELSE Null

FreeList == {FreeWalk[k] : k \in 0 .. MaxWalk} \ {Null}

(* The free list as one record, for the operations that relink it. *)
List == [head |-> freeHead, next |-> next, prev |-> prev]

SetList(L) ==
  /\ freeHead' = L.head
  /\ next' = L.next
  /\ prev' = L.prev

(* RemoveFromFreeList(o). *)
RemoveFromFreeList(L, o) ==
  LET p == L.prev[o]
      n == L.next[o]
  IN  [head |-> IF p # Null THEN L.head ELSE n,
       next |-> IF p # Null THEN [L.next EXCEPT ![p] = n] ELSE L.next,
       prev |-> IF n # Null THEN [L.prev EXCEPT ![n] = p] ELSE L.prev]

(* InsertHead without the back link from the old head: a plausible bug. *)
InsertHeadNoBackLink(L, o) ==
  [head |-> o,
   next |-> [L.next EXCEPT ![o] = L.head],
   prev |-> [L.prev EXCEPT ![o] = Null]]

(* InsertHead(o). *)
InsertHead(L, o) ==
  LET pr == [L.prev EXCEPT ![o] = Null]
  IN  [head |-> o,
       next |-> [L.next EXCEPT ![o] = L.head],
       prev |-> IF L.head # Null THEN [pr EXCEPT ![L.head] = o] ELSE pr]

(* The split new block takes over the list position of block o. *)
ReplaceInFreeList(L, o, nb) ==
  LET p == L.prev[o]
      n == L.next[o]
      nx == [L.next EXCEPT ![nb] = n]
      pv == [L.prev EXCEPT ![nb] = p]
  IN  [head |-> IF p # Null THEN L.head ELSE nb,
       next |-> IF p # Null THEN [nx EXCEPT ![p] = nb] ELSE nx,
       prev |-> IF n # Null THEN [pv EXCEPT ![n] = nb] ELSE pv]

-----------------------------------------------------------------------------
(* Init: the region becomes one free block.                                *)

Init ==
  /\ IF TotalSize < HeaderSize + FooterSize
     THEN /\ hdr = [u \in Units |-> Zero]
          /\ ftr = [u \in Units |-> Zero]
          /\ freeHead = Null
     ELSE /\ hdr = [[u \in Units |-> Zero] EXCEPT ![First] = Tag(TotalSize, TRUE)]
          /\ ftr = WriteFooter([u \in Units |-> Zero], First, Tag(TotalSize, TRUE))
          /\ freeHead = First
  /\ next = [u \in Units |-> Null]
  /\ prev = [u \in Units |-> Null]
  /\ owned = [c \in Clients |-> Null]
  /\ stale = [c \in Clients |-> Null]
  /\ lastAlloc = [req |-> 0, off |-> Null]

-----------------------------------------------------------------------------
(* Allocate(size).                                                         *)

(* First fit with a strict size test: a plausible bug. *)
FirstFitStrict(req) ==
  LET fits == {k \in 0 .. MaxWalk : FreeWalk[k] # Null /\ FreeWalk[k] \in Units
                                    /\ hdr[FreeWalk[k]].size > req}
  IN  IF fits = {} THEN Null
      ELSE FreeWalk[CHOOSE k \in fits : \A j \in fits : k <= j]

(* The first block on the free list whose size is at least req, or Null. *)
FirstFit(req) ==
  LET fits == {k \in 0 .. MaxWalk : FreeWalk[k] # Null /\ FreeWalk[k] \in Units
                                    /\ hdr[FreeWalk[k]].size >= req}
  IN  IF fits = {} THEN Null
      ELSE FreeWalk[CHOOSE k \in fits : \A j \in fits : k <= j]

(* The split without rewriting the shrunk block's footer: a plausible bug. *)
SplitBlockNoFooter(b, req) ==
  LET nb == b + req
      rest == Tag(hdr[b].size - req, TRUE)
  IN  /\ hdr' = [hdr EXCEPT ![b] = Tag(req, FALSE), ![nb] = rest]
      /\ ftr' = WriteFooter(ftr, nb, rest)
      /\ SetList(ReplaceInFreeList(List, b, nb))

(* Block b is shrunk to req and used; the rest becomes a free block that   *)
(* takes b's place on the free list.                                       *)
SplitBlock(b, req) ==
  LET nb == b + req
      used == Tag(req, FALSE)
      rest == Tag(hdr[b].size - req, TRUE)
  IN  /\ hdr' = [hdr EXCEPT ![b] = used, ![nb] = rest]
      /\ ftr' = WriteFooter(WriteFooter(ftr, b, used), nb, rest)
      /\ SetList(ReplaceInFreeList(List, b, nb))

(* The whole block b is unlinked from the free list and marked used. *)
UseWholeBlock(b) ==
  LET used == Tag(hdr[b].size, FALSE)
  IN  /\ hdr' = [hdr EXCEPT ![b] = used]
      /\ ftr' = WriteFooter(ftr, b, used)
      /\ SetList(RemoveFromFreeList(List, b))

(* Allocate returning the block offset instead of the payload offset. *)
AllocateReturnsHeader(c, n) ==
  /\ owned[c] = Null
  /\ LET req == Required(n)
         b == FirstFit(req)
     IN  IF b = Null
         THEN /\ lastAlloc' = [req |-> n, off |-> Null]
              /\ UNCHANGED <<heap, owned>>
         ELSE /\ IF hdr[b].size - req >= HeaderSize + 64 + FooterSize
                 THEN SplitBlock(b, req)
                 ELSE UseWholeBlock(b)
              /\ owned' = [owned EXCEPT ![c] = b]
              /\ lastAlloc' = [req |-> n, off |-> b]
  /\ UNCHANGED stale

(* Client c calls Allocate(n) and keeps the payload offset it returns;    *)
(* when no free block fits, Allocate returns 0 and nothing changes.       *)
Allocate(c, n) ==
  /\ owned[c] = Null
  /\ LET req == Required(n)
         b == FirstFit(req)
     IN  IF b = Null
         THEN /\ lastAlloc' = [req |-> n, off |-> Null]
              /\ UNCHANGED <<heap, owned>>
         ELSE /\ IF hdr[b].size - req >= HeaderSize + 64 + FooterSize
                 THEN SplitBlock(b, req)
                 ELSE UseWholeBlock(b)
              /\ owned' = [owned EXCEPT ![c] = b + HeaderSize]
              /\ lastAlloc' = [req |-> n, off |-> b + HeaderSize]
  /\ UNCHANGED stale

-----------------------------------------------------------------------------
(* Free(payload_offset).                                                   *)

(* Coalescing that never merges into the left neighbour: a plausible bug. *)
MergesLeftNever(b, pf) == FALSE

(* block_offset > m_first_block_offset and the left footer says free. *)
MergesLeft(b, pf) == b > First /\ pf.free

(* Free of the block whose payload is at p: the double-free check, the    *)
(* free bit, the merge with a free right neighbour, then either the merge *)
(* into a free left neighbour or the insertion at the list head.          *)
FreeAt(p) ==
  LET b == p - HeaderSize
      s0 == hdr[b].size
      nb == b + s0
      right == nb < HeapEnd /\ hdr[nb].free
      s1 == IF right THEN s0 + hdr[nb].size ELSE s0
      L1 == IF right THEN RemoveFromFreeList(List, nb) ELSE List
      h1 == [hdr EXCEPT ![b] = Tag(s1, TRUE)]
      f0 == WriteFooter(ftr, b, Tag(s0, TRUE))
      f1 == IF right THEN WriteFooter(f0, b, Tag(s1, TRUE)) ELSE f0
      pf == f1[FooterUnit(b, 0)]
      pb == b - pf.size
      grown == Tag(h1[pb].size + s1, h1[pb].free)
  IN  IF hdr[b].free
      THEN UNCHANGED heap
      ELSE IF MergesLeft(b, pf)
           THEN /\ hdr' = [h1 EXCEPT ![pb] = grown]
                /\ ftr' = WriteFooter(f1, pb, grown)
                /\ SetList(L1)
           ELSE /\ hdr' = h1
                /\ ftr' = f1
                /\ SetList(InsertHead(L1, b))

(* Client c frees the block it holds and forgets it. *)
Free(c) ==
  /\ owned[c] # Null
  /\ FreeAt(owned[c])
  /\ owned' = [owned EXCEPT ![c] = Null]
  /\ stale' = [stale EXCEPT ![c] = owned[c]]
  /\ UNCHANGED lastAlloc

(* Client c frees again the offset it freed last.  Only offsets that are   *)
(* still a block's payload are taken: elsewhere the header read is of a    *)
(* used block's payload, or of a free block's FreeNode links once a merge  *)
(* and a later split laid a node over the old header; headers and links   *)
(* are separate maps here, so that overlap is not modelled.                *)
DoubleFree(c) ==
  /\ stale[c] # Null
  /\ stale[c] - HeaderSize \in Blocks
  /\ FreeAt(stale[c])
  /\ UNCHANGED <<owned, stale, lastAlloc>>

-----------------------------------------------------------------------------
Next ==
  \/ \E c \in Clients, n \in Requests : Allocate(c, n)
  \/ \E c \in Clients : Free(c)
  \/ \E c \in Clients : DoubleFree(c)

Spec == Init /\ [][Next]_vars

-----------------------------------------------------------------------------
(* Properties.                                                             *)

TypeOK ==
  /\ hdr \in [Units -> [size : Nat, free : BOOLEAN]]
  /\ ftr \in [Units -> [size : Nat, free : BOOLEAN]]
  /\ next \in [Units -> Units \cup {Null}]
  /\ prev \in [Units -> Units \cup {Null}]
  /\ freeHead \in Units \cup {Null}
  /\ owned \in [Clients -> Payloads \cup {Null}]
  /\ stale \in [Clients -> Payloads \cup {Null}]
  /\ lastAlloc \in [req : Nat, off : Payloads \cup {Null}]

(* After any sequence of Allocate and Free calls the blocks still tile the *)
(* region: walking the header sizes from the first block ends exactly at  *)
(* the region's end, and every block's footer repeats its header, so the  *)
(* left merge of Free, which trusts the footer, finds the true left block. *)
HeapWellFormed ==
  /\ BlockWalk[MaxWalk] = HeapEnd
  /\ \A b \in Blocks : ftr[FooterUnit(b, hdr[b].size)] = hdr[b]

(* The list walked from m_free_list_head_offset holds exactly the free     *)
(* blocks of the heap, ends in 0, and its prev links mirror its next       *)
(* links: splits, unlinks and head insertions never lose or corrupt a node.*)
FreeListMatchesHeap ==
  /\ FreeList = {b \in Blocks : hdr[b].free}
  /\ FreeWalk[MaxWalk] = Null
  /\ freeHead # Null => prev[freeHead] = Null
  /\ \A o \in FreeList : next[o] # Null => prev[next[o]] = o

(* Free coalesces on both sides, so no free block is followed by another. *)
NoAdjacentFree ==
  \A b \in Blocks :
     hdr[b].free /\ b + hdr[b].size \in Blocks => ~hdr[b + hdr[b].size].free

(* Allocate returns 0 only when no free block of the heap is large enough  *)
(* for the request: the first-fit scan of the free list misses no block.   *)
OOMOnlyWhenNoFit ==
  [][\A c \in Clients, n \in Requests :
       Allocate(c, n) /\ owned'[c] = Null =>
         \A b \in Blocks : hdr[b].free => hdr[b].size < Required(n)]_vars

(* Allocate(n) hands out a block whose payload, between the header and    *)
(* the footer, holds at least n bytes.                                     *)
AllocationFitsRequest ==
  [][\A c \in Clients, n \in Requests :
       Allocate(c, n) /\ owned'[c] # Null =>
         hdr'[owned'[c] - HeaderSize].size >= HeaderSize + n + FooterSize]_vars

(* No two clients ever hold the same block: a second Free of an offset is, *)
(* as the spec says, detected by the header's free bit and ignored.        *)
NoSharedBlock ==
  \A c, d \in Clients : c # d /\ owned[c] # Null => owned[c] # owned[d]
=============================================================================
