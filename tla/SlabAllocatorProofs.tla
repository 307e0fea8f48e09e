------------------------- MODULE SlabAllocatorProofs -------------------------
(***************************************************************************)
(* Proofs about Cognitron::Core::SlabAllocator (SlabAllocator), for every  *)
(* region, every set of clients and requests and every width of size_t.   *)
(*                                                                         *)
(* The heap invariants (HeapWellFormed, FreeListMatchesHeap,               *)
(* NoAdjacentFree) speak of every step of the block walk and the free-list *)
(* walk; keeping them across a split or a merge needs induction over the   *)
(* walk index, which stays with TLC.  What is proved here rests on the     *)
(* first-fit scan alone: it misses no block of the list, and the block it  *)
(* hands out is large enough whenever the size computation does not wrap.  *)
(***************************************************************************)
EXTENDS SlabAllocator, WellFoundedInduction, TLAPS

(* The part of TypeOK that Allocate and Free keep without the heap's      *)
(* shape: the clients hold payload offsets, and every header word holds a  *)
(* size that is a multiple of 64, so a block's right neighbour, when it    *)
(* lies inside the region, is a unit.                                      *)
SInv ==
  /\ owned \in [Clients -> Payloads \cup {Null}]
  /\ stale \in [Clients -> Payloads \cup {Null}]
  /\ hdr \in [Units -> [size : Nat, free : BOOLEAN]]
  /\ \A u \in Units : hdr[u].size % Alignment = 0

(* The body of OOMOnlyWhenNoFit: a step of Allocate that returns 0.      *)
OOMStep ==
  \A c \in Clients, n \in Requests :
     Allocate(c, n) /\ owned'[c] = Null =>
       \A b \in Blocks : hdr[b].free => hdr[b].size < Required(n)

(* The indices of the free-list walk at which first fit would stop. *)
Fits(req) ==
  {k \in 0 .. MaxWalk : FreeWalk[k] # Null /\ FreeWalk[k] \in Units
                        /\ hdr[FreeWalk[k]].size >= req}

-----------------------------------------------------------------------------
(* Lemmas about the offsets and the first-fit scan.                        *)

(* A unit is a 64-aligned offset inside the region, and conversely. *)
LEMMA UnitFacts ==
  ASSUME NEW u \in Units
  PROVE  /\ u \in Nat
         /\ BaseOffset <= u /\ u < HeapEnd
         /\ u % Alignment = 0
BY BaseAligned, TotalSizeAligned DEF Units, HeapEnd, Alignment

LEMMA UnitIntro ==
  ASSUME NEW x \in Int, BaseOffset <= x, x < HeapEnd, x % Alignment = 0
  PROVE  x \in Units
<1> DEFINE k == (x - BaseOffset) \div Alignment
<1>1. k \in 0 .. TotalSize \div Alignment - 1
  BY BaseAligned, TotalSizeAligned DEF HeapEnd, Alignment
<1>2. x = BaseOffset + Alignment * k
  BY BaseAligned DEF Alignment
<1>3. QED
  BY <1>1, <1>2 DEF Units

LEMMA UnitsAreOffsets == Units \subseteq Nat
BY UnitFacts

LEMMA PayloadBlock ==
  ASSUME NEW p \in Payloads
  PROVE  p - HeaderSize \in Units /\ p # Null
BY UnitFacts DEF Payloads, HeaderSize, Null

LEMMA MaxWalkIsNat == MaxWalk \in Nat
BY TotalSizeAligned DEF MaxWalk, Alignment

(* (x + 63) & ~63 in size_t is a multiple of 64. *)
LEMMA AlignUpValue ==
  ASSUME NEW x \in Int
  PROVE  AlignUp(x) \in Nat /\ AlignUp(x) % Alignment = 0
BY WordPositive DEF AlignUp, Word, Alignment

LEMMA RequiredValue ==
  ASSUME NEW n \in Int
  PROVE  Required(n) \in Nat /\ Required(n) % Alignment = 0
<1>1. AlignUp(n) \in Nat
  BY AlignUpValue
<1>2. QED
  BY <1>1, AlignUpValue DEF Required, HeaderSize, FooterSize

(* A nonempty set of walk indices has a least element. *)
LEMMA LeastIndex ==
  ASSUME NEW T \in SUBSET Nat, T # {}
  PROVE  \E k \in T : \A j \in T : k <= j
<1>1. \E x \in T : \A y \in T : ~(<<y, x>> \in OpToRel(<, Nat))
  BY NatLessThanWellFounded, WFMin
<1>2. PICK x \in T : \A y \in T : ~(<<y, x>> \in OpToRel(<, Nat))
  BY <1>1
<1>3. \A y \in T : ~(y < x)
  <2> SUFFICES ASSUME NEW y \in T, y < x PROVE FALSE
    OBVIOUS
  <2>1. <<y, x>> \in OpToRel(<, Nat)
    BY DEF OpToRel
  <2>2. QED
    BY <1>2, <2>1
<1>4. QED
  BY <1>3

(* When some block of the list fits, first fit returns the first such     *)
(* block, a unit of the region of at least req bytes.                      *)
LEMMA FirstFitFound ==
  ASSUME NEW req, Fits(req) # {}
  PROVE  /\ FirstFit(req) \in Units
         /\ FirstFit(req) # Null
         /\ hdr[FirstFit(req)].size >= req
<1>0. Fits(req) \in SUBSET Nat
  BY MaxWalkIsNat DEF Fits
<1>1. \E k \in Fits(req) : \A j \in Fits(req) : k <= j
  BY <1>0, LeastIndex
<1>2. FirstFit(req) =
        FreeWalk[CHOOSE k \in Fits(req) : \A j \in Fits(req) : k <= j]
  BY DEF FirstFit, Fits
<1>3. (CHOOSE k \in Fits(req) : \A j \in Fits(req) : k <= j) \in Fits(req)
  BY <1>1
<1>4. QED
  BY <1>2, <1>3 DEF Fits

(* First fit returns 0 only when no block on the list is large enough. *)
LEMMA FirstFitMisses ==
  ASSUME NEW req, FirstFit(req) = Null
  PROVE  \A k \in 0 .. MaxWalk :
            FreeWalk[k] # Null /\ FreeWalk[k] \in Units =>
              ~(hdr[FreeWalk[k]].size >= req)
<1>1. Fits(req) = {}
  BY FirstFitFound
<1>2. QED
  BY <1>1 DEF Fits

(* A block the scan returns is a free-list unit large enough. *)
LEMMA FirstFitNonNull ==
  ASSUME NEW req, FirstFit(req) # Null
  PROVE  FirstFit(req) \in Units /\ hdr[FirstFit(req)].size >= req
<1>1. Fits(req) # {}
  BY DEF FirstFit, Fits
<1>2. QED
  BY <1>1, FirstFitFound

(* (a + b) % 64 = 0 when both are multiples of 64. *)
LEMMA AlignedSum ==
  \A a, b \in Nat : a % Alignment = 0 /\ b % Alignment = 0 =>
                    a + b \in Nat /\ (a + b) % Alignment = 0
BY DEF Alignment

-----------------------------------------------------------------------------
(* The invariant SInv.                                                     *)

LEMMA InitSInv == Init => SInv
<1> SUFFICES ASSUME Init PROVE SInv
  OBVIOUS
<1>1. owned \in [Clients -> Payloads \cup {Null}]
      /\ stale \in [Clients -> Payloads \cup {Null}]
  BY DEF Init
<1>2. First \in Units
  BY BaseAligned, TotalSizeAligned, UnitIntro DEF First, HeapEnd, Alignment
<1>3. hdr \in [Units -> [size : Nat, free : BOOLEAN]]
      /\ \A u \in Units : hdr[u].size % Alignment = 0
  <2>1. CASE TotalSize < HeaderSize + FooterSize
    <3>1. hdr = [u \in Units |-> Zero]
      BY <2>1 DEF Init
    <3>2. QED
      BY <3>1 DEF Tag, Zero, Alignment
  <2>2. CASE ~(TotalSize < HeaderSize + FooterSize)
    <3>1. hdr = [[u \in Units |-> Zero] EXCEPT ![First] = Tag(TotalSize, TRUE)]
      BY <2>2 DEF Init
    <3>2. hdr \in [Units -> [size : Nat, free : BOOLEAN]]
      BY <3>1, <1>2, TotalSizeAligned DEF Tag, Zero
    <3>3. ASSUME NEW u \in Units PROVE hdr[u].size % Alignment = 0
      <4>1. hdr[u].size = IF u = First THEN TotalSize ELSE 0
        BY <3>1, <1>2 DEF Tag, Zero
      <4>2. QED
        BY <4>1, TotalSizeAligned DEF Alignment
    <3>4. QED
      BY <3>2, <3>3
  <2>3. QED
    BY <2>1, <2>2
<1>4. QED
  BY <1>1, <1>3 DEF SInv

(* Allocate writes a used header of the aligned request and, on a split,  *)
(* a free one of the aligned rest.                                         *)
LEMMA AllocateSInv ==
  ASSUME SInv, NEW c \in Clients, NEW n \in Requests, Allocate(c, n)
  PROVE  SInv'
<1> DEFINE req == Required(n)
           b == FirstFit(req)
<1>1. req \in Nat /\ req % Alignment = 0
  BY RequiredValue, RequestsNonZero
<1>2. CASE b = Null
  BY <1>2 DEF Allocate, SInv, heap
<1>3. CASE b # Null
  <2>1. b \in Units /\ hdr[b].size >= req
    BY <1>3, FirstFitNonNull
  <2>2. owned' \in [Clients -> Payloads \cup {Null}] /\ stale' = stale
    BY <1>3, <2>1 DEF Allocate, SInv, Payloads
  <2>3. hdr[b].size \in Nat /\ hdr[b].size % Alignment = 0
    BY <2>1 DEF SInv
  <2>4. CASE hdr[b].size - req >= HeaderSize + 64 + FooterSize
    <3>1. hdr' = [hdr EXCEPT ![b] = Tag(req, FALSE),
                             ![b + req] = Tag(hdr[b].size - req, TRUE)]
      BY <1>3, <2>4 DEF Allocate, SplitBlock
    <3>2. hdr[b].size - req \in Nat /\ (hdr[b].size - req) % Alignment = 0
      BY <1>1, <2>3, <2>4 DEF HeaderSize, FooterSize, Alignment
    <3>3. QED
      BY <1>1, <2>2, <3>1, <3>2 DEF SInv, Tag
  <2>5. CASE ~(hdr[b].size - req >= HeaderSize + 64 + FooterSize)
    <3>1. hdr' = [hdr EXCEPT ![b] = Tag(hdr[b].size, FALSE)]
      BY <1>3, <2>5 DEF Allocate, UseWholeBlock
    <3>2. QED
      BY <2>2, <2>3, <3>1 DEF SInv, Tag
  <2>6. QED
    BY <2>4, <2>5
<1>4. QED
  BY <1>2, <1>3

(* Free of a block keeps every header a typed multiple of 64: a merged     *)
(* size adds the size of a neighbour that is itself a unit's header.       *)
LEMMA FreeAtSInv ==
  ASSUME SInv, NEW p \in Payloads, FreeAt(p)
  PROVE  /\ hdr' \in [Units -> [size : Nat, free : BOOLEAN]]
         /\ \A u \in Units : hdr'[u].size % Alignment = 0
<1> DEFINE b == p - HeaderSize
           s0 == hdr[b].size
           nb == b + s0
           right == nb < HeapEnd /\ hdr[nb].free
           s1 == IF right THEN s0 + hdr[nb].size ELSE s0
           h1 == [hdr EXCEPT ![b] = Tag(s1, TRUE)]
<1>0. p \in Nat /\ b = p - 64
  BY UnitFacts DEF Payloads, HeaderSize
<1>1. b \in Units
  BY PayloadBlock
<1>2. s0 \in Nat /\ s0 % Alignment = 0
  BY <1>1 DEF SInv
<1>3. right => nb \in Units
  <2>1. b \in Nat /\ BaseOffset <= b /\ b % Alignment = 0
    BY <1>1, UnitFacts
  <2>2. nb \in Int /\ BaseOffset <= nb /\ nb % Alignment = 0
    <3> HIDE DEF b, s0
    <3> QED
      BY <1>2, <2>1, BaseAligned DEF Alignment
  <2>3. QED
    BY <2>2, UnitIntro
<1>4. s1 \in Nat /\ s1 % Alignment = 0
  <2>1. CASE right
    <3>1. hdr[nb].size \in Nat /\ hdr[nb].size % Alignment = 0
      BY <1>3, <2>1 DEF SInv
    <3>2. QED
      BY <1>2, <2>1, <3>1 DEF Alignment
  <2>2. QED
    BY <1>2, <2>1
<1>5. /\ h1 \in [Units -> [size : Nat, free : BOOLEAN]]
      /\ \A u \in Units : h1[u].size % Alignment = 0
  BY <1>1, <1>4 DEF SInv, Tag
<1>6. \A pb \in Units :
        /\ h1[pb].size + s1 \in Nat
        /\ (h1[pb].size + s1) % Alignment = 0
        /\ h1[pb].free \in BOOLEAN
  <2>1. SUFFICES ASSUME NEW pb \in Units
                 PROVE  /\ h1[pb].size + s1 \in Nat
                        /\ (h1[pb].size + s1) % Alignment = 0
                        /\ h1[pb].free \in BOOLEAN
    OBVIOUS
  <2>2. h1[pb].size \in Nat /\ h1[pb].size % Alignment = 0 /\ h1[pb].free \in BOOLEAN
    BY <1>5
  <2> HIDE DEF h1, s1
  <2>3. QED
    BY <1>4, <2>2, AlignedSum
<1>7. \/ hdr' = hdr
      \/ hdr' = h1
      \/ \E pb : hdr' = [h1 EXCEPT ![pb] = Tag(h1[pb].size + s1, h1[pb].free)]
  BY DEF FreeAt, heap
<1>8. ASSUME NEW pb, hdr' = [h1 EXCEPT ![pb] = Tag(h1[pb].size + s1, h1[pb].free)]
      PROVE  /\ hdr' \in [Units -> [size : Nat, free : BOOLEAN]]
             /\ \A u \in Units : hdr'[u].size % Alignment = 0
  <2>1. CASE pb \in Units
    BY <1>5, <1>6, <1>8, <2>1 DEF Tag
  <2>2. CASE pb \notin Units
    BY <1>5, <1>8, <2>2
  <2>3. QED
    BY <2>1, <2>2
<1>9. QED
  BY <1>5, <1>7, <1>8 DEF SInv

LEMMA NextSInv == SInv /\ [Next]_vars => SInv'
<1> SUFFICES ASSUME SInv, [Next]_vars PROVE SInv'
  OBVIOUS
<1>1. ASSUME NEW c \in Clients, NEW n \in Requests, Allocate(c, n)
      PROVE  SInv'
  BY <1>1, AllocateSInv
<1>2. ASSUME NEW c \in Clients, Free(c) PROVE SInv'
  <2>1. owned[c] \in Payloads
    BY <1>2 DEF Free, SInv
  <2>2. hdr' \in [Units -> [size : Nat, free : BOOLEAN]]
        /\ \A u \in Units : hdr'[u].size % Alignment = 0
    BY <1>2, <2>1, FreeAtSInv DEF Free
  <2>3. QED
    BY <1>2, <2>1, <2>2 DEF Free, SInv
<1>3. ASSUME NEW c \in Clients, DoubleFree(c) PROVE SInv'
  <2>1. stale[c] \in Payloads
    BY <1>3 DEF DoubleFree, SInv
  <2>2. hdr' \in [Units -> [size : Nat, free : BOOLEAN]]
        /\ \A u \in Units : hdr'[u].size % Alignment = 0
    BY <1>3, <2>1, FreeAtSInv DEF DoubleFree
  <2>3. QED
    BY <1>3, <2>2 DEF DoubleFree, SInv
<1>4. CASE UNCHANGED vars
  BY <1>4 DEF vars, SInv
<1>5. QED
  BY <1>1, <1>2, <1>3, <1>4 DEF Next

LEMMA SpecSInv == Spec => []SInv
BY InitSInv, NextSInv, PTL DEF Spec

-----------------------------------------------------------------------------
(* Allocate returns 0 only when no free block fits.                        *)

(* A step of Allocate that returns 0 found no block of the list large     *)
(* enough; when the list holds every free block of the heap, none of the   *)
(* heap's free blocks is large enough either.                              *)
LEMMA OOMStepFromList == SInv /\ FreeListMatchesHeap => OOMStep
<1> SUFFICES ASSUME SInv, FreeListMatchesHeap,
                    NEW c \in Clients, NEW n \in Requests,
                    Allocate(c, n), owned'[c] = Null,
                    NEW b \in Blocks, hdr[b].free
             PROVE  hdr[b].size < Required(n)
  BY DEF OOMStep
<1>1. FirstFit(Required(n)) = Null
  <2>1. SUFFICES ASSUME FirstFit(Required(n)) # Null PROVE FALSE
    OBVIOUS
  <2>2. FirstFit(Required(n)) \in Units
    BY <2>1, FirstFitNonNull
  <2>3. owned'[c] = FirstFit(Required(n)) + HeaderSize
    BY <2>1 DEF Allocate, SInv
  <2>4. FirstFit(Required(n)) \in Nat
    BY <2>2, UnitsAreOffsets
  <2>5. QED
    BY <2>3, <2>4 DEF HeaderSize, Null
<1>2. \E k \in 0 .. MaxWalk : FreeWalk[k] = b /\ b # Null
  BY DEF FreeListMatchesHeap, FreeList
<1>3. b \in Units /\ hdr[b].size \in Nat
  BY DEF Blocks, SInv
<1>4. Required(n) \in Nat
  BY RequiredValue, RequestsNonZero
<1>5. QED
  BY <1>1, <1>2, <1>3, <1>4, FirstFitMisses

(* Allocate returns 0 only when no free block of the heap is large enough  *)
(* for the request, for every region and every request, in every run in   *)
(* which the free list holds exactly the free blocks (the invariant        *)
(* FreeListMatchesHeap, which the slab run checks): the first-fit scan of *)
(* Allocate misses no block of the list.                                   *)
THEOREM OOMOnlyWhenNoFitFromList ==
  Spec /\ []FreeListMatchesHeap => OOMOnlyWhenNoFit
<1>1. SInv /\ FreeListMatchesHeap => OOMStep
  BY OOMStepFromList
<1>2. QED
  BY <1>1, SpecSInv, PTL DEF OOMOnlyWhenNoFit, OOMStep

-----------------------------------------------------------------------------
(* Allocate(n) hands out at least n payload bytes unless n + 63 wraps.     *)

(* No request comes within the two roundings and the header and footer of *)
(* the size_t maximum: neither (n + 63) & ~63 nor the rounding of the     *)
(* total wraps.  The slab run's requests satisfy it; the size-wrap run's   *)
(* request of 2^16 - 1 does not.                                           *)
NoWrap ==
  \A n \in Requests :
    n + 2 * (Alignment - 1) + HeaderSize + FooterSize < Word

(* The body of AllocationFitsRequest: a step of Allocate that succeeds. *)
FitsStep ==
  \A c \in Clients, n \in Requests :
    Allocate(c, n) /\ owned'[c] # Null =>
      hdr'[owned'[c] - HeaderSize].size >= HeaderSize + n + FooterSize

LEMMA SmallMod ==
  ASSUME NEW a \in Nat, NEW m \in Nat \ {0}, a < m
  PROVE  a % m = a
OBVIOUS

(* Without a wrap, (x + 63) & ~63 lies between x and x + 63. *)
LEMMA AlignUpBounds ==
  ASSUME NEW x \in Nat, x + Alignment - 1 < Word
  PROVE  AlignUp(x) \in x .. x + Alignment - 1
<1> DEFINE y == x + Alignment - 1
<1>1. y % Word = y
  BY WordPositive, SmallMod DEF Word, Alignment
<1>2. y \in Nat /\ y = x + 63
  BY DEF Alignment
<1>3. y - (y % Alignment) \in x .. x + Alignment - 1
  <2> HIDE DEF y
  <2> QED
    BY <1>2 DEF Alignment
<1>4. QED
  BY <1>1, <1>3 DEF AlignUp

(* Without a wrap, the rounded total covers header, n bytes and footer. *)
LEMMA RequiredCovers ==
  ASSUME NEW n \in Nat,
         n + 2 * (Alignment - 1) + HeaderSize + FooterSize < Word
  PROVE  Required(n) >= HeaderSize + n + FooterSize
<1>0. Word \in Nat
  BY WordPositive DEF Word
<1>1. AlignUp(n) \in n .. n + Alignment - 1
  <2>1. n + Alignment - 1 < Word
    BY <1>0 DEF HeaderSize, FooterSize, Alignment
  <2>2. QED
    BY <2>1, AlignUpBounds
<1>2. HeaderSize + AlignUp(n) + FooterSize \in Nat
      /\ HeaderSize + AlignUp(n) + FooterSize + Alignment - 1 < Word
  BY <1>0, <1>1 DEF HeaderSize, FooterSize, Alignment
<1>3. AlignUp(HeaderSize + AlignUp(n) + FooterSize)
        \in HeaderSize + AlignUp(n) + FooterSize
             .. HeaderSize + AlignUp(n) + FooterSize + Alignment - 1
  BY <1>2, AlignUpBounds
<1>4. QED
  <2> HIDE DEF AlignUp
  <2> QED
    BY <1>1, <1>3 DEF Required, HeaderSize, FooterSize, Alignment

(* The block Allocate returns is the scanned block, shrunk to the request *)
(* or used whole, so it is never smaller than the rounded request.         *)
LEMMA FitsStepFromSInv == SInv /\ NoWrap => FitsStep
<1> SUFFICES ASSUME SInv, NoWrap,
                    NEW c \in Clients, NEW n \in Requests,
                    Allocate(c, n), owned'[c] # Null
             PROVE  hdr'[owned'[c] - HeaderSize].size >= HeaderSize + n + FooterSize
  BY DEF FitsStep
<1> DEFINE req == Required(n)
           b == FirstFit(req)
<1>1. b # Null
  BY DEF Allocate, heap
<1>2. b \in Units /\ hdr[b].size >= req
  BY <1>1, FirstFitNonNull
<1>3. b \in Nat
  BY <1>2, UnitsAreOffsets
<1>4. owned'[c] - HeaderSize = b
  BY <1>1, <1>3 DEF Allocate, SInv, HeaderSize
<1>5. req \in Nat /\ req >= HeaderSize + n + FooterSize
  <2>1. n \in Nat /\ n + 2 * (Alignment - 1) + HeaderSize + FooterSize < Word
    BY RequestsNonZero DEF NoWrap
  <2>2. QED
    BY <2>1, RequiredCovers, RequiredValue
<1>6. hdr[b].size \in Nat
  BY <1>2 DEF SInv
<1>7. hdr'[b].size \in Nat /\ hdr'[b].size >= req
  <2>1. CASE hdr[b].size - req >= HeaderSize + 64 + FooterSize
    <3>1. hdr' = [hdr EXCEPT ![b] = Tag(req, FALSE),
                             ![b + req] = Tag(hdr[b].size - req, TRUE)]
      BY <1>1, <2>1 DEF Allocate, SplitBlock
    <3>2. b + req # b
      BY <1>3, <1>5, RequestsNonZero DEF HeaderSize, FooterSize
    <3>3. QED
      BY <1>2, <1>5, <3>1, <3>2 DEF SInv, Tag
  <2>2. CASE ~(hdr[b].size - req >= HeaderSize + 64 + FooterSize)
    <3>1. hdr' = [hdr EXCEPT ![b] = Tag(hdr[b].size, FALSE)]
      BY <1>1, <2>2 DEF Allocate, UseWholeBlock
    <3>2. QED
      BY <1>2, <1>6, <3>1 DEF SInv, Tag
  <2>3. QED
    BY <2>1, <2>2
<1>8. QED
  BY <1>4, <1>5, <1>7, RequestsNonZero DEF HeaderSize, FooterSize

(* Allocate(n) returns a payload of at least n bytes between the header    *)
(* and the footer (the property AllocationFitsRequest, which the slab run *)
(* checks), for every region, in every run whose requests stay clear of    *)
(* the size_t wrap in (n + 63) & ~63; the size-wrap run shows that the    *)
(* property fails without that hypothesis.                                 *)
THEOREM AllocationFitsWithoutWrap ==
  ASSUME NoWrap
  PROVE  Spec => AllocationFitsRequest
<1>1. SInv => FitsStep
  BY FitsStepFromSInv
<1>2. QED
  BY <1>1, SpecSInv, PTL DEF AllocationFitsRequest, FitsStep
=============================================================================
