-------------------------------- MODULE Prg ---------------------------------
(***************************************************************************)
(* PrgFromOpenSSLAES: a generator that encrypts the block numbers          *)
(* startingIndex, startingIndex + 1, ... into a cache and hands out its    *)
(* bytes, as byte arrays of any length and as words.                       *)
(*                                                                         *)
(* A byte is known by its place in the stream of the key: the block number *)
(* times the block size and the offset.  Every setKey that succeeds begins *)
(* a stream, and out and used say which of its bytes were handed out.      *)
(***************************************************************************)
EXTENDS Integers

CONSTANTS
    Keys,
    Block,          \* BLOCK_SIZE
    cachedSize,     \* blocks in the cache
    Lengths,        \* the lengths asked of getPRGBytes and getPRGBytesEX
    Widths,         \* the bytes of getRandom32, getRandom64 and getRandom128
    MaxIndex        \* bound: the values of startingIndex

Size == cachedSize * Block

ASSUME PrgAssumption ==
    /\ Block \in Nat \ {0} /\ cachedSize \in Nat \ {0} /\ MaxIndex \in Nat
    /\ Lengths \subseteq Nat /\ Widths \subseteq Nat \ {0}
    /\ \A w \in Widths : \E d \in 1 .. Block : Block = w * d

VARIABLES
    isStrict, _isKeySet, key, startingIndex, idxForBytes,
    cache,          \* cipherChunk: the key and the first block number it holds
    asked, out,     \* the last request, and the bytes it was given
    used,           \* the bytes given before
    mixed,          \* since the cache was filled: a word began between the bytes
                    \* of an earlier request, or getPRGBytesEX was called
    refilled        \* the cache has been filled again for want of bytes

prgVars == <<isStrict, _isKeySet, key, startingIndex, idxForBytes, cache, asked, out, used,
             mixed, refilled>>

(* Mutant: the quotient is rounded down.                                   *)
BlocksMut(n) == n \div Block

(* The blocks that n bytes touch.                                          *)
Blocks(n) == (n + Block - 1) \div Block

(* The next multiple of w.                                                 *)
Aligned(n, w) == ((n + w - 1) \div w) * w

Span(from, n) == from .. from + n - 1

PrgInit ==
    /\ isStrict \in BOOLEAN /\ _isKeySet = FALSE
    /\ key \in Keys /\ cache = [key |-> key, start |-> 0]
    /\ startingIndex = 0 /\ idxForBytes = 0
    /\ asked = 0 /\ out = {} /\ used = {}
    /\ mixed = FALSE /\ refilled = FALSE

-----------------------------------------------------------------------------
(* prepare on a strict generator throws and changes nothing; on others it  *)
(* fills the cache from the first block no byte of which has been passed.  *)
throws == isStrict /\ UNCHANGED prgVars

refill(index, k) ==
    /\ startingIndex' = startingIndex + Blocks(index)
    /\ startingIndex' <= MaxIndex
    /\ cache' = [key |-> k, start |-> startingIndex']

(* A request of n bytes that is short of them when the cache has to be     *)
(* filled again, and is given those at an offset of the cache.             *)
give(short, n, offset, mixes) ==
    /\ short => ~isStrict
    /\ IF short THEN refill(idxForBytes, key) ELSE UNCHANGED <<startingIndex, cache>>
    /\ idxForBytes' = (IF short THEN 0 ELSE idxForBytes) + n
    /\ asked' = n /\ used' = used \union out
    /\ out' = Span(cache'.start * Block + offset, n)
    /\ mixed' = ((mixed /\ ~short) \/ mixes)
    /\ refilled' = (refilled \/ short)
    /\ UNCHANGED <<isStrict, _isKeySet, key>>

draw(short, n, offset, mixes) ==
    _isKeySet /\ ((short /\ throws) \/ give(short, n, offset, mixes))

(* Both getPRGBytes: a copy, and a pointer into the cache.                 *)
getPRGBytes(n) ==
    LET short == n + idxForBytes > Size
    IN draw(short, n, IF short THEN 0 ELSE idxForBytes, FALSE)

(* getPRGBytesEX returns the beginning of the cache whatever idxForBytes.  *)
getPRGBytesEX(n) == draw(n + idxForBytes > Size, n, 0, TRUE)

(* Mutant: the width is left out of the test.                              *)
getRandomMut(w) ==
    LET short == idxForBytes >= Size
        offset == IF short THEN 0 ELSE Aligned(idxForBytes, w)
    IN draw(short, w, offset, ~short /\ offset # idxForBytes)

(* getRandom32, getRandom64 and getRandom128: the cache as an array of     *)
(* words, from the first word that begins at idxForBytes or after it.      *)
getRandom(w) ==
    LET short == idxForBytes + w >= Size
        offset == IF short THEN 0 ELSE Aligned(idxForBytes, w)
    IN draw(short, w, offset, ~short /\ offset # idxForBytes)

(* prepare, which may be called from outside too.                          *)
prepare ==
    /\ _isKeySet
    /\ \/ throws
       \/ /\ ~isStrict
          /\ refill(idxForBytes, key)
          /\ idxForBytes' = 0
          /\ asked' = 0 /\ used' = used \union out /\ out' = {}
          /\ mixed' = FALSE /\ refilled' = TRUE
          /\ UNCHANGED <<isStrict, _isKeySet, key>>

newStream ==
    /\ asked' = 0 /\ out' = {} /\ used' = {}
    /\ mixed' = FALSE

(* The first setKey fills the cache with the blocks the constructor wrote. *)
setFirstKey(k) ==
    /\ ~_isKeySet
    /\ _isKeySet' = TRUE /\ key' = k
    /\ cache' = [key |-> k, start |-> 0]
    /\ newStream
    /\ UNCHANGED <<isStrict, startingIndex, idxForBytes, refilled>>

(* Mutant: prepare is called before the index is set back.                 *)
setKeyMutOrder(k) ==
    /\ _isKeySet /\ ~isStrict
    /\ key' = k /\ idxForBytes' = 0
    /\ refill(idxForBytes, k) /\ newStream
    /\ UNCHANGED <<isStrict, _isKeySet, refilled>>

(* A later setKey sets the index back and calls prepare.  On a strict      *)
(* generator prepare throws: the index is back and the cache is the old.   *)
setKey(k) ==
    /\ _isKeySet
    /\ key' = k /\ idxForBytes' = 0
    /\ \/ /\ isStrict
          /\ mixed' = TRUE
          /\ UNCHANGED <<startingIndex, cache, asked, out, used>>
       \/ ~isStrict /\ refill(0, k) /\ newStream
    /\ UNCHANGED <<isStrict, _isKeySet, refilled>>

PrgNext ==
    \/ \E k \in Keys : setFirstKey(k) \/ setKey(k)
    \/ \E n \in Lengths : getPRGBytes(n) \/ getPRGBytesEX(n)
    \/ \E w \in Widths : getRandom(w)
    \/ prepare

PrgSpec == PrgInit /\ [][PrgNext]_prgVars

-----------------------------------------------------------------------------
(* The type invariant: the block numbers and the cursor of the cache only  *)
(* take values that are indexes.                                           *)
PrgTypeOK ==
    /\ isStrict \in BOOLEAN /\ _isKeySet \in BOOLEAN
    /\ mixed \in BOOLEAN /\ refilled \in BOOLEAN
    /\ startingIndex \in 0 .. MaxIndex /\ idxForBytes \in Nat
    /\ key \in Keys /\ cache \in [key : Keys, start : 0 .. MaxIndex]
    /\ asked \in Nat /\ out \subseteq Nat /\ used \subseteq Nat

(* "This bytes are set to used and will not be used again" (Prg.hpp): no   *)
(* byte of a stream is handed out twice, across any number of refills.     *)
(* The rounding of getRandom breaks this until the next refill: it skips   *)
(* to the next multiple of the width and moves idxForBytes by the width    *)
(* only, so that bytes of the word are still in front of it.               *)
NoByteTwice == ~mixed => out \intersect used = {}

(* A request that the cache can hold at all is served from inside it:      *)
(* rounding a word up does not read past its end.                          *)
InsideCache ==
    asked <= Size => out \subseteq Span(cache.start * Block, Size)

(* "if two prg are set with the same key, they generated the same randoms" *)
(* (Prg.hpp): the bytes handed out are those of the key set last, but for  *)
(* a strict generator, and a key set on a used generator gives the stream  *)
(* of a new one as long as the cache has not been refilled before.         *)
NewKeyInForce == _isKeySet /\ ~isStrict => cache.key = key
StreamFromStart == ~refilled => cache.start = 0
SameKeySameStream == NewKeyInForce /\ StreamFromStart
=============================================================================
