-------------------------------- MODULE Heap --------------------------------
(***************************************************************************)
(* Slabs of the heap (pagecache/heap.h): which slab an item of some size   *)
(* goes to, and the word that names a slot of a slab.  Pure functions on   *)
(* words of WordBits bits (64 in the code), of which the lower IdxBits     *)
(* (32) hold the index; the smallest slab has slots of 2^MinBits (2^15)    *)
(* bytes.                                                                  *)
(***************************************************************************)
EXTENDS Integers, Bitwise

CONSTANTS WordBits, IdxBits, MinBits

VARIABLE asked    \* a word somebody asks about: a size, or an index

Word == 0 .. 2 ^ WordBits - 1
SlabId == 0 .. WordBits - IdxBits - 1
SlabIdx == 0 .. 2 ^ IdxBits - 1
MIN_SZ == 2 ^ MinBits

\* __builtin_ctzll, for a word that is not 0
TrailingZeros(n) == CHOOSE b \in 0 .. WordBits - 1 : n % 2 ^ b = 0 /\ (n \div 2 ^ b) % 2 = 1

\* n |= n >> 1, n |= n >> 2, ... over doubling distances
Smear[n \in Word, d \in 1 .. 2 * WordBits] ==
    IF d >= WordBits THEN n ELSE Smear[n | shiftR(n, d), 2 * d]

\* next_power_of_two
NextPowerOfTwo(n) == IF n = 0 THEN 1 ELSE (Smear[n - 1, 1] + 1) % 2 ^ WordBits

SlabIdToSize(slab) == 2 ^ (MinBits + slab)

\* size_to_slab_id
SizeToSlabId(size) ==
    LET normalized == IF NextPowerOfTwo(size) > MIN_SZ THEN NextPowerOfTwo(size) ELSE MIN_SZ
        rebased == shiftR(normalized, MinBits)
    IN  IF rebased = 0 THEN 0 ELSE TrailingZeros(rebased)

SlabSize(size) == SlabIdToSize(SizeToSlabId(size))

\* HeapId::compose; a slab id that does not fit in the upper half leaves nothing
Compose(slab, idx) == ((2 ^ (IdxBits + slab)) % 2 ^ WordBits) | idx

\* a plausible bug: the zeros of the whole word are counted
DecomposeWhole(id) == <<TrailingZeros(id), id % 2 ^ IdxBits>>

\* HeapId::decompose, the slab and the index
Decompose(id) ==
    <<IF shiftR(id, IdxBits) = 0 THEN IdxBits ELSE TrailingZeros(shiftR(id, IdxBits)),
      id % 2 ^ IdxBits>>

\* HeapId::offset
OffsetOf(id) == SlabIdToSize(Decompose(id)[1]) * Decompose(id)[2]

\* the functions have no state: any word may be asked about
HeapInit == asked = 0
HeapNext == \E n \in Word : asked' = n

(***************************************************************************)
(* Properties.                                                             *)
(***************************************************************************)
\* A slot is large enough, and unless it is of the smallest kind less than
\* twice what was asked for.  (A size above half of the words' range rounds up
\* to 2^WordBits, that is 0, and gets the smallest slab.)
SlabFits ==
    asked <= 2 ^ (WordBits - 1) =>
        /\ SlabSize(asked) >= asked
        /\ SlabSize(asked) = MIN_SZ \/ SlabSize(asked) < 2 * asked

\* A heap id gives back the slab and the index it was made of, and two slots of
\* a slab do not overlap.
HeapIdsFaithful ==
    \A slab \in SlabId :
        LET idx == asked % 2 ^ IdxBits
            id == Compose(slab, idx)
        IN  /\ Decompose(id) = <<slab, idx>>
            /\ idx > 0 => OffsetOf(id) - OffsetOf(Compose(slab, idx - 1)) = SlabIdToSize(slab)

\* Slabs fit what they are asked for, and ids name one slot each.
HeapInv == SlabFits /\ HeapIdsFaithful
=============================================================================
