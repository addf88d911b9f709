------------------------------ MODULE FatImage ------------------------------
(***************************************************************************)
(* A fat executable as its readers see it: a stub, an optional dictionary, *)
(* the frames of the variants, the index and the trailer.  A reader        *)
(* accepts an image after ReadTrailerAndIndex and ValidateBounds of        *)
(* internal/format have looked at every number in it; TrimBinary of        *)
(* internal/pack then writes an image with one variant, which the next     *)
(* reader reads.  Numbers are int64 values of a smaller width.             *)
(***************************************************************************)
EXTENDS Integers

CONSTANTS MaxInt,         \* the largest int64
          MaxVariants,    \* bound on the variants of an image
          Levels,         \* levels the target architecture has
          TrailerSize, HeaderSize, DigestSize, EntrySize, MaxIndexSize,
          MaxPayloadSize, MaxDictionarySize,
          Images          \* the images a reader may be given

Int64 == (-MaxInt - 1) .. MaxInt
Slots == 1 .. MaxVariants
NoLevel == "unknown"
Entry == [level : Levels \cup {NoLevel}, offset : Int64, csize : Int64, usize : Int64, sha : BOOLEAN]
Image == [total : 0 .. MaxInt, indexOffset : Int64, indexSize : Int64, digest : BOOLEAN,
          dictOffset : Int64, dictSize : Int64, dictSha : BOOLEAN,
          count : 0 .. MaxVariants, entries : [Slots -> Entry]]

ASSUME FatImageConstants ==
    /\ MaxInt \in Nat /\ MaxVariants \in Nat \ {0}
    /\ NoLevel \notin Levels
    /\ TrailerSize \in Nat \ {0} /\ HeaderSize \in Nat \ {0} /\ DigestSize \in Nat /\ EntrySize \in Nat
    /\ MaxIndexSize \in Nat /\ MaxPayloadSize \in Nat /\ MaxDictionarySize \in Nat
    /\ Images \subseteq Image

VARIABLES img,      \* the image
          stage,    \* how far the reader is
          next,     \* the variant it looks at next
          lastEnd,  \* where the data it has accepted ends
          trimmed   \* the image was written by TrimBinary

vars == <<img, stage, next, lastEnd, trimmed>>

\* int64 addition and subtraction of two int64 values.
Wrap(x) ==
    IF x > MaxInt THEN x - 2 * (MaxInt + 1)
    ELSE IF x < -MaxInt - 1 THEN x + 2 * (MaxInt + 1) ELSE x
Plus(a, b) == Wrap(a + b)
Minus(a, b) == Wrap(a - b)

Stages == {"trailer", "dictionary", "variants", "accepted", "rejected", "refused"}

\* The bytes of the index: fixed fields, the dictionary's digest, the entries.
IndexSize(withDict, count) == HeaderSize + (IF withDict THEN DigestSize ELSE 0) + count * EntrySize

Init ==
    /\ img \in Images
    /\ stage = "trailer"
    /\ next = 1
    /\ lastEnd = 0
    /\ trimmed = FALSE

\* ReadTrailerAndIndex up to the decoded index.
ReadTrailer ==
    LET trailerOffset == Minus(img.total, TrailerSize)
        ok == /\ img.total >= TrailerSize
              /\ img.indexOffset >= 0 /\ img.indexOffset < trailerOffset
              /\ img.indexSize > 0 /\ img.indexSize <= MaxIndexSize
              /\ img.indexSize = Minus(trailerOffset, img.indexOffset)
              /\ img.digest
              /\ img.indexSize >= IndexSize(img.dictSize > 0, img.count)
              /\ img.dictSize > 0 => img.dictSha
              /\ \A k \in 1 .. img.count : img.entries[k].sha
              /\ img.count > 0
    IN  /\ stage = "trailer"
        /\ stage' = IF ok THEN "dictionary" ELSE "rejected"
        /\ UNCHANGED <<img, next, lastEnd, trimmed>>

\* validateDictionaryBounds.
DictionaryOK ==
    \/ img.dictSize = 0
    \/ /\ img.dictSize > 0 /\ img.dictSize <= MaxDictionarySize
       /\ img.dictOffset >= 0 /\ img.dictSha
       /\ img.dictOffset <= img.indexOffset
       /\ img.dictSize <= Minus(img.indexOffset, img.dictOffset)

CheckDictionary ==
    /\ stage = "dictionary"
    /\ stage' = IF DictionaryOK THEN "variants" ELSE "rejected"
    /\ lastEnd' = IF img.dictSize > 0 THEN Plus(img.dictOffset, img.dictSize) ELSE 0
    /\ UNCHANGED <<img, next, trimmed>>

\* One pass of the loop of validateVariantBounds.
WithinIndex_Sum(v) == Plus(v.offset, v.csize) <= img.indexOffset
WithinIndex(v) == v.offset <= img.indexOffset /\ v.csize <= Minus(img.indexOffset, v.offset)

Separate(v) == next > 1 \/ img.dictSize > 0 => v.offset >= lastEnd

VariantOK(v) ==
    /\ v.level \in Levels
    /\ \A k \in 1 .. next - 1 : img.entries[k].level # v.level
    /\ v.offset >= 0 /\ v.csize > 0 /\ v.usize > 0
    /\ v.usize <= MaxPayloadSize
    /\ WithinIndex(v)
    /\ Separate(v)
    /\ v.sha

CheckVariant ==
    LET v == img.entries[next]
    IN  /\ stage = "variants"
        /\ IF VariantOK(v)
           THEN /\ stage' = IF next = img.count THEN "accepted" ELSE "variants"
                /\ next' = next + 1
                /\ lastEnd' = Plus(v.offset, v.csize)
           ELSE stage' = "rejected" /\ UNCHANGED <<next, lastEnd>>
        /\ UNCHANGED <<img, trimmed>>

-----------------------------------------------------------------------------
(* TrimBinary of an accepted image. *)

StubSize == IF img.dictSize > 0 THEN img.dictOffset ELSE img.entries[1].offset

\* The stub, the dictionary and the frame are copied one behind the other;
\* slots behind the only entry are not part of the index.
TrimmedEntry_BehindStub(k) == [img.entries[k] EXCEPT !.offset = StubSize]
TrimmedEntry(k) == [img.entries[k] EXCEPT !.offset = Plus(StubSize, img.dictSize)]
TrimmedImage(k) ==
    LET indexOffset == Plus(Plus(StubSize, img.dictSize), img.entries[k].csize)
        size == IndexSize(img.dictSize > 0, 1)
    IN  [total |-> indexOffset + size + TrailerSize, indexOffset |-> indexOffset, indexSize |-> size, digest |-> TRUE,
         dictOffset |-> IF img.dictSize > 0 THEN StubSize ELSE 0, dictSize |-> img.dictSize, dictSha |-> img.dictSha,
         count |-> 1, entries |-> [j \in Slots |-> TrimmedEntry(k)]]

Trim(k) ==
    /\ stage = "accepted" /\ ~trimmed
    /\ IF StubSize <= 0 \/ StubSize > img.total
       THEN /\ stage' = "refused"
            /\ UNCHANGED <<img, next, lastEnd, trimmed>>
       ELSE /\ img' = TrimmedImage(k)
            /\ stage' = "trailer"
            /\ next' = 1
            /\ lastEnd' = 0
            /\ trimmed' = TRUE

Next ==
    \/ ReadTrailer \/ CheckDictionary \/ CheckVariant
    \/ \E k \in 1 .. img.count : Trim(k)

Spec == Init /\ [][Next]_vars

-----------------------------------------------------------------------------
(* Properties. *)

TypeOK ==
    /\ img \in Image
    /\ stage \in Stages
    /\ next \in 1 .. MaxVariants + 1
    /\ lastEnd \in Int64
    /\ trimmed \in BOOLEAN

\* What the readers rely on when they allocate, seek and copy: in an accepted
\* index the dictionary and the frames lie before the index, in order and
\* apart from each other, and no two variants have one level.  The sums are
\* those of integers: none of the int64 sums in ValidateBounds has wrapped.
AcceptedIsSound ==
    stage = "accepted" =>
        /\ img.dictSize > 0 => img.dictOffset >= 0 /\ img.dictOffset + img.dictSize <= img.indexOffset
        /\ \A k \in 1 .. img.count :
              LET v == img.entries[k]
              IN  /\ v.offset >= 0 /\ v.csize > 0 /\ v.offset + v.csize <= img.indexOffset
                  /\ img.dictSize > 0 => img.dictOffset + img.dictSize <= v.offset
                  /\ \A j \in 1 .. k - 1 :
                        /\ img.entries[j].offset + img.entries[j].csize <= v.offset
                        /\ img.entries[j].level # v.level

\* An image that TrimBinary has written is never rejected by a later reader.
TrimmedIsReadable == trimmed => stage # "rejected"
=============================================================================
