--------------------------- MODULE FatImageProofs ---------------------------
(***************************************************************************)
(* For every width, every number of variants and every image: an accepted  *)
(* index is sound, and what TrimBinary writes is accepted.                 *)
(***************************************************************************)
EXTENDS FatImage, TLAPS

\* What ReadTrailer has established.
TrailerRead ==
    /\ img.indexOffset >= 0 /\ img.indexSize > 0 /\ img.indexSize <= MaxIndexSize
    /\ img.total = img.indexOffset + img.indexSize + TrailerSize
    /\ img.indexSize >= IndexSize(img.dictSize > 0, img.count)
    /\ img.count > 0

\* What CheckDictionary has established.
DictionarySound ==
    \/ img.dictSize = 0
    \/ /\ img.dictSize > 0 /\ img.dictSize <= MaxDictionarySize
       /\ img.dictOffset >= 0 /\ img.dictSha
       /\ img.dictOffset + img.dictSize <= img.indexOffset

\* What CheckVariant has established of variant k.
VariantSound(k) ==
    LET v == img.entries[k]
    IN  /\ v.level \in Levels /\ v.sha
        /\ v.offset >= 0 /\ v.csize > 0 /\ v.usize > 0 /\ v.usize <= MaxPayloadSize
        /\ v.offset + v.csize <= img.indexOffset
        /\ img.dictSize > 0 => img.dictOffset + img.dictSize <= v.offset
        /\ \A j \in 1 .. k - 1 :
              /\ img.entries[j].offset + img.entries[j].csize <= v.offset
              /\ img.entries[j].level # v.level

\* The end of the data accepted so far.
End ==
    IF next > 1 THEN img.entries[next - 1].offset + img.entries[next - 1].csize
    ELSE IF img.dictSize > 0 THEN img.dictOffset + img.dictSize ELSE 0

\* Everything the reader will look at in an image that TrimBinary wrote.
TrimmedSound ==
    /\ TrailerRead /\ DictionarySound
    /\ img.count = 1 /\ img.digest
    /\ VariantSound(1)

\* The loop invariant of validateVariantBounds with its surroundings.
Inv ==
    /\ TypeOK
    /\ stage \in {"trailer", "dictionary"} => next = 1
    /\ stage \in {"dictionary", "variants", "accepted"} => TrailerRead
    /\ stage \in {"variants", "accepted"} =>
          /\ DictionarySound
          /\ \A k \in 1 .. next - 1 : VariantSound(k)
    /\ stage = "variants" => next <= img.count /\ lastEnd = End
    /\ stage = "accepted" => next = img.count + 1
    /\ trimmed => TrimmedSound /\ stage \notin {"rejected", "refused"}

\* The types of the fields of an image, as Index of internal/format declares them.
LEMMA TypedImage ==
    ASSUME img \in Image
    PROVE  /\ img.total \in Int /\ 0 <= img.total /\ img.total <= MaxInt
           /\ img.indexOffset \in Int /\ img.indexOffset <= MaxInt /\ -MaxInt - 1 <= img.indexOffset
           /\ img.indexSize \in Int /\ img.indexSize <= MaxInt /\ -MaxInt - 1 <= img.indexSize
           /\ img.dictOffset \in Int /\ img.dictOffset <= MaxInt /\ -MaxInt - 1 <= img.dictOffset
           /\ img.dictSize \in Int /\ img.dictSize <= MaxInt /\ -MaxInt - 1 <= img.dictSize
           /\ img.count \in Int /\ 0 <= img.count /\ img.count <= MaxVariants
           /\ img.digest \in BOOLEAN /\ img.dictSha \in BOOLEAN
           /\ img.entries \in [Slots -> Entry]
BY FatImageConstants DEF Image, Int64

\* The types of the fields of a VariantEntry.
LEMMA TypedEntry ==
    ASSUME img \in Image, NEW k \in Slots
    PROVE  /\ img.entries[k] \in Entry
           /\ img.entries[k].offset \in Int /\ img.entries[k].offset <= MaxInt /\ -MaxInt - 1 <= img.entries[k].offset
           /\ img.entries[k].csize \in Int /\ img.entries[k].csize <= MaxInt /\ -MaxInt - 1 <= img.entries[k].csize
           /\ img.entries[k].usize \in Int
           /\ img.entries[k].sha \in BOOLEAN
<1>1. img.entries[k] \in Entry
  BY TypedImage
<1>. QED
  BY <1>1, FatImageConstants DEF Entry, Int64

\* The index of one entry, which TrimBinary writes, is not longer than that of several.
LEMMA IndexSizes ==
    ASSUME NEW d \in BOOLEAN, NEW c \in Nat, c > 0
    PROVE  IndexSize(d, 1) \in Nat /\ IndexSize(d, c) \in Nat /\ 0 < IndexSize(d, 1) /\ IndexSize(d, 1) <= IndexSize(d, c)
<1>1. EntrySize \in Nat /\ HeaderSize \in Nat /\ HeaderSize > 0 /\ DigestSize \in Nat
  BY FatImageConstants
<1>2. c * EntrySize \in Nat /\ EntrySize <= c * EntrySize
  BY <1>1
<1>3. 1 * EntrySize = EntrySize
  BY <1>1
<1>. QED
  BY <1>1, <1>2, <1>3 DEF IndexSize

\* A reader that has not begun satisfies the loop invariant.
THEOREM Initially == Init => Inv
<1>. SUFFICES ASSUME Init PROVE Inv
  OBVIOUS
<1>1. TypeOK
  <2>1. img \in Image
    BY FatImageConstants DEF Init
  <2>2. lastEnd \in Int64 /\ next \in 1 .. MaxVariants + 1
    BY FatImageConstants DEF Init, Int64
  <2>. QED
    BY <2>1, <2>2 DEF Init, TypeOK, Stages
<1>. QED
  BY <1>1 DEF Init, Inv

\* ReadTrailerAndIndex establishes TrailerRead, and never rejects a trimmed image.
LEMMA ReadTrailerKeeps == ASSUME Inv, ReadTrailer PROVE Inv'
<1>. USE FatImageConstants, TypedImage
<1>1. /\ img \in Image /\ stage = "trailer" /\ next = 1
  BY DEF Inv, TypeOK, ReadTrailer
<1>2. UNCHANGED <<img, next, lastEnd, trimmed>>
  BY DEF ReadTrailer
<1>3. ASSUME stage' # "rejected" PROVE stage' = "dictionary" /\ TrailerRead
  <2>1. /\ stage' = "dictionary" /\ img.total >= TrailerSize
        /\ img.indexOffset >= 0 /\ img.indexSize > 0 /\ img.indexSize <= MaxIndexSize
        /\ img.indexOffset < Minus(img.total, TrailerSize)
        /\ img.indexSize = Minus(Minus(img.total, TrailerSize), img.indexOffset)
        /\ img.indexSize >= IndexSize(img.dictSize > 0, img.count) /\ img.count > 0
    BY <1>3, Zenon DEF ReadTrailer
  <2>2. Minus(img.total, TrailerSize) = img.total - TrailerSize
    BY <1>1, <2>1 DEF Minus, Wrap
  <2>3. img.indexSize = img.total - TrailerSize - img.indexOffset
    BY <1>1, <2>1, <2>2 DEF Minus, Wrap
  <2>. QED
    BY <1>1, <2>1, <2>3 DEF TrailerRead
<1>4. ASSUME trimmed PROVE stage' # "rejected"
  <2>1. TrailerRead /\ DictionarySound /\ img.count = 1 /\ img.digest /\ VariantSound(1)
    BY <1>4 DEF Inv, TrimmedSound
  <2>2. \A k \in 1 .. img.count : img.entries[k].sha
    BY <2>1 DEF VariantSound
  <2>3. img.dictSize > 0 => img.dictSha
    BY <2>1, <1>1 DEF DictionarySound
  <2>. QED
    BY <1>1, <2>1, <2>2, <2>3 DEF ReadTrailer, TrailerRead, Minus, Wrap
<1>5. stage' \in {"dictionary", "rejected"}
  BY DEF ReadTrailer
<1>6. TypeOK'
  BY <1>2, <1>5 DEF Inv, TypeOK, Stages
<1>7. TrailerRead <=> TrailerRead'
  BY <1>2 DEF TrailerRead
<1>8. TrimmedSound <=> TrimmedSound'
  BY <1>2 DEF TrimmedSound, TrailerRead, DictionarySound, VariantSound
<1>. QED
  BY <1>1, <1>2, <1>3, <1>4, <1>5, <1>6, <1>7, <1>8 DEF Inv

\* validateDictionaryBounds compares without wrapping.
LEMMA CheckDictionaryKeeps == ASSUME Inv, CheckDictionary PROVE Inv'
<1>. USE FatImageConstants, TypedImage
<1>1. /\ img \in Image /\ stage = "dictionary" /\ next = 1 /\ TrailerRead
  BY DEF Inv, TypeOK, CheckDictionary
<1>2. UNCHANGED <<img, next, trimmed>>
  BY DEF CheckDictionary
<1>3. DictionaryOK <=> DictionarySound
  BY <1>1 DEF DictionaryOK, DictionarySound, TrailerRead, Minus, Wrap
<1>4. stage' \in {"variants", "rejected"} /\ (stage' = "variants" <=> DictionarySound)
  BY <1>3 DEF CheckDictionary
<1>5. lastEnd' \in Int64
  BY <1>1 DEF CheckDictionary, Plus, Wrap, Int64
<1>6. ASSUME DictionarySound PROVE lastEnd' = End
  BY <1>1, <1>6 DEF CheckDictionary, DictionarySound, End, Plus, Wrap
<1>7. TypeOK'
  BY <1>2, <1>4, <1>5 DEF Inv, TypeOK, Stages
<1>8. /\ TrailerRead <=> TrailerRead'
      /\ DictionarySound <=> DictionarySound'
      /\ End' = End
  BY <1>2 DEF TrailerRead, DictionarySound, End
<1>9. TrimmedSound <=> TrimmedSound'
  BY <1>2 DEF TrimmedSound, TrailerRead, DictionarySound, VariantSound
<1>10. trimmed => DictionarySound
  BY DEF Inv, TrimmedSound
<1>11. 1 <= img.count
  BY <1>1 DEF TrailerRead
<1>. QED
  BY <1>1, <1>2, <1>4, <1>6, <1>7, <1>8, <1>9, <1>10, <1>11 DEF Inv

\* One pass of the loop of validateVariantBounds extends the loop invariant.
LEMMA CheckVariantKeeps == ASSUME Inv, CheckVariant PROVE Inv'
<1>. USE FatImageConstants
<1>. DEFINE v == img.entries[next]
<1>1. /\ img \in Image /\ stage = "variants" /\ next \in Int /\ 1 <= next /\ next <= img.count
      /\ TrailerRead /\ DictionarySound /\ lastEnd = End
      /\ \A k \in 1 .. next - 1 : VariantSound(k)
  BY DEF Inv, TypeOK, CheckVariant
<1>2. img.count \in Int /\ next \in Slots /\ next <= MaxVariants
  BY <1>1, TypedImage DEF Slots
<1>3. UNCHANGED <<img, trimmed>>
  BY DEF CheckVariant
<1>4. /\ v.offset \in Int /\ v.offset <= MaxInt /\ -MaxInt - 1 <= v.offset
      /\ v.csize \in Int /\ v.csize <= MaxInt /\ -MaxInt - 1 <= v.csize
      /\ v.usize \in Int
  BY <1>1, <1>2, TypedEntry
<1>5. \A k \in 1 .. next - 1 :
         /\ k \in Slots
         /\ img.entries[k].offset \in Int /\ img.entries[k].csize \in Int
  BY <1>1, <1>2, TypedEntry DEF Slots
<1>6. ASSUME VariantOK(v) PROVE VariantSound(next) /\ Plus(v.offset, v.csize) = v.offset + v.csize
  <2>1. v.offset + v.csize <= img.indexOffset
    BY <1>1, <1>4, <1>6, TypedImage DEF VariantOK, WithinIndex, TrailerRead, Minus, Wrap
  <2>2. Plus(v.offset, v.csize) = v.offset + v.csize
    BY <1>1, <1>4, <1>6, <2>1, TypedImage DEF VariantOK, Plus, Wrap
  <2>3. img.dictSize > 0 => img.dictOffset + img.dictSize <= v.offset
    <3>1. CASE next = 1
      BY <3>1, <1>1, <1>6, TypedImage DEF VariantOK, Separate, End
    <3>2. CASE next > 1
      <4>1. VariantSound(next - 1) /\ next - 1 \in 1 .. next - 1
        BY <3>2, <1>1
      <4>2. lastEnd <= v.offset /\ lastEnd = img.entries[next - 1].offset + img.entries[next - 1].csize
        BY <3>2, <1>1, <1>6 DEF VariantOK, Separate, End
      <4>3. /\ img.dictSize > 0 => img.dictOffset + img.dictSize <= img.entries[next - 1].offset
            /\ img.entries[next - 1].csize > 0
        BY <4>1 DEF VariantSound
      <4>. QED
        BY <4>1, <4>2, <4>3, <1>1, <1>4, <1>5, TypedImage
    <3>. QED
      BY <3>1, <3>2, <1>1
  <2>4. ASSUME NEW j \in 1 .. next - 1 PROVE img.entries[j].offset + img.entries[j].csize <= v.offset
    <3>1. next > 1 /\ next - 1 \in 1 .. next - 1 /\ j <= next - 1
      BY <1>1, <2>4
    <3>2. lastEnd <= v.offset /\ lastEnd = img.entries[next - 1].offset + img.entries[next - 1].csize
      BY <3>1, <1>1, <1>6 DEF VariantOK, Separate, End
    <3>3. CASE j = next - 1
      BY <3>2, <3>3
    <3>4. CASE j < next - 1
      <4>1. j \in 1 .. (next - 1) - 1
        BY <3>4, <2>4, <1>1
      <4>2. VariantSound(next - 1)
        BY <3>1, <1>1
      <4>3. img.entries[j].offset + img.entries[j].csize <= img.entries[next - 1].offset /\ img.entries[next - 1].csize > 0
        BY <4>1, <4>2 DEF VariantSound
      <4>. QED
        BY <4>3, <3>1, <3>2, <1>4, <1>5, <2>4
    <3>. QED
      BY <3>1, <3>3, <3>4, <1>1, <2>4
  <2>5. \A j \in 1 .. next - 1 : img.entries[j].level # v.level
    BY <1>6 DEF VariantOK
  <2>6. v.level \in Levels /\ v.sha /\ v.offset >= 0 /\ v.csize > 0 /\ v.usize > 0 /\ v.usize <= MaxPayloadSize
    BY <1>6 DEF VariantOK
  <2>7. VariantSound(next)
    BY <2>1, <2>3, <2>4, <2>5, <2>6 DEF VariantSound
  <2>. QED
    BY <2>2, <2>7
<1>7. ASSUME trimmed PROVE VariantOK(v)
  <2>1. TrimmedSound
    BY <1>7 DEF Inv
  <2>2. next = 1 /\ VariantSound(1) /\ lastEnd = IF img.dictSize > 0 THEN img.dictOffset + img.dictSize ELSE 0
    BY <2>1, <1>1, TypedImage DEF TrimmedSound, End
  <2>3. WithinIndex(v)
    BY <2>2, <1>1, <1>4, TypedImage DEF WithinIndex, VariantSound, TrailerRead, Minus, Wrap
  <2>4. Separate(v)
    BY <2>2 DEF Separate, VariantSound
  <2>. QED
    BY <2>2, <2>3, <2>4 DEF VariantOK, VariantSound
<1>8. /\ TrailerRead <=> TrailerRead'
      /\ DictionarySound <=> DictionarySound'
      /\ \A k \in Int : VariantSound(k) <=> VariantSound(k)'
      /\ TrimmedSound <=> TrimmedSound'
  BY <1>3 DEF TrailerRead, DictionarySound, VariantSound, TrimmedSound
<1>9. CASE VariantOK(v)
  <2>1. /\ stage' = IF next = img.count THEN "accepted" ELSE "variants"
        /\ next' = next + 1 /\ lastEnd' = v.offset + v.csize
    BY <1>6, <1>9 DEF CheckVariant
  <2>2. lastEnd' \in Int64
    BY <1>4, <1>9, <2>1, <1>6, TypedImage, <1>1, SMTT(40) DEF VariantSound, Int64
  <2>3. TypeOK'
    BY <1>1, <1>2, <1>3, <2>1, <2>2 DEF Inv, TypeOK, Stages
  <2>4. \A k \in 1 .. next' - 1 : VariantSound(k)'
    BY <1>1, <1>6, <1>8, <1>9, <2>1
  <2>5. stage' = "variants" => next' <= img'.count /\ lastEnd' = End'
    BY <1>1, <1>2, <1>3, <2>1 DEF End
  <2>6. stage' = "accepted" => next' = img'.count + 1
    BY <1>3, <2>1
  <2>7. trimmed' => TrimmedSound' /\ stage' \notin {"rejected", "refused"}
    BY <1>3, <1>8, <2>1 DEF Inv
  <2>8. stage' \notin {"trailer", "dictionary"} /\ TrailerRead' /\ DictionarySound'
    BY <1>1, <1>8, <2>1
  <2>. QED
    BY <2>3, <2>4, <2>5, <2>6, <2>7, <2>8 DEF Inv
<1>10. CASE ~VariantOK(v)
  <2>1. stage' = "rejected" /\ UNCHANGED <<img, trimmed, next, lastEnd>>
    BY <1>3, <1>10 DEF CheckVariant
  <2>2. TypeOK'
    BY <2>1 DEF Inv, TypeOK, Stages
  <2>3. ~trimmed'
    BY <1>7, <1>10, <2>1 DEF Inv, TypeOK
  <2>. QED
    BY <2>1, <2>2, <2>3 DEF Inv
<1>. QED
  BY <1>9, <1>10
\* TrimBinary writes an image that satisfies every check of its readers.
LEMMA TrimKeeps == ASSUME Inv, NEW k \in 1 .. img.count, Trim(k) PROVE Inv'
<1>. USE FatImageConstants
<1>. DEFINE v == img.entries[k]
            size == IndexSize(img.dictSize > 0, 1)
            new == TrimmedImage(k)
<1>1. /\ img \in Image /\ stage = "accepted" /\ ~trimmed /\ next = img.count + 1
      /\ TrailerRead /\ DictionarySound
      /\ \A j \in 1 .. img.count : VariantSound(j)
  BY TypedImage DEF Inv, TypeOK, Trim
<1>2. k \in Slots /\ 1 \in Slots /\ k \in Int /\ 1 <= k /\ 1 \in 1 .. img.count
  BY <1>1, TypedImage DEF Slots, TrailerRead
<1>3. /\ VariantSound(k) /\ v \in Entry
      /\ v.offset \in Int /\ v.csize \in Int
      /\ img.entries[1].offset \in Int /\ img.entries[1].csize \in Int /\ img.entries[1].csize > 0
  BY <1>1, <1>2, TypedEntry DEF VariantSound
<1>4. StubSize \in Int /\ img.dictSize \in Int /\ img.dictSize >= 0
  BY <1>1, <1>3, TypedImage DEF StubSize, DictionarySound
<1>5. StubSize + img.dictSize <= v.offset
  <2>1. CASE img.dictSize > 0
    BY <2>1, <1>3 DEF StubSize, VariantSound
  <2>2. CASE img.dictSize = 0 /\ k = 1
    BY <2>2, <1>3 DEF StubSize
  <2>3. CASE img.dictSize = 0 /\ k > 1
    <3>1. img.entries[1].offset + img.entries[1].csize <= v.offset
      BY <2>3, <1>2, <1>3 DEF VariantSound
    <3>. QED
      BY <2>3, <3>1, <1>3 DEF StubSize
  <2>. QED
    BY <2>1, <2>2, <2>3, <1>2, <1>4
<1>6. v.csize > 0 /\ v.offset + v.csize <= img.indexOffset
  BY <1>3 DEF VariantSound
<1>7. /\ size \in Int /\ size > 0 /\ size <= img.indexSize
  <2>1. (img.dictSize > 0) \in BOOLEAN /\ img.count \in Nat /\ img.count > 0
    BY <1>1, TypedImage DEF TrailerRead
  <2>2. /\ size \in Nat /\ 0 < size /\ IndexSize(img.dictSize > 0, img.count) \in Nat
        /\ size <= IndexSize(img.dictSize > 0, img.count)
    BY <2>1, IndexSizes
  <2>3. IndexSize(img.dictSize > 0, img.count) <= img.indexSize /\ img.indexSize \in Int
    BY <1>1, TypedImage DEF TrailerRead
  <2>. QED
    BY <2>2, <2>3
<1>8. CASE StubSize <= 0 \/ StubSize > img.total
  <2>1. stage' = "refused" /\ UNCHANGED <<img, next, lastEnd, trimmed>>
    BY <1>8 DEF Trim
  <2>2. TypeOK'
    BY <2>1 DEF Inv, TypeOK, Stages
  <2>. QED
    BY <1>1, <2>1, <2>2 DEF Inv
<1>9. CASE ~(StubSize <= 0 \/ StubSize > img.total)
  <2>1. /\ img' = new /\ stage' = "trailer" /\ next' = 1 /\ lastEnd' = 0 /\ trimmed' = TRUE
    BY <1>9 DEF Trim
  <2>2. StubSize > 0
    BY <1>4, <1>9
  <2>3. /\ Plus(StubSize, img.dictSize) = StubSize + img.dictSize
        /\ Plus(StubSize + img.dictSize, v.csize) = StubSize + img.dictSize + v.csize
    BY <1>1, <1>3, <1>4, <1>5, <1>6, <2>2, TypedImage DEF Plus, Wrap
  <2>. DEFINE e == [v EXCEPT !.offset = StubSize + img.dictSize]
  <2>4. e \in Entry
    BY <1>1, <1>3, <1>4, <1>5, <1>6, <2>2, TypedImage DEF Entry, Int64
  <2>5. /\ e.level = v.level /\ e.sha = v.sha /\ e.csize = v.csize /\ e.usize = v.usize
        /\ e.offset = StubSize + img.dictSize
    BY <1>3 DEF Entry
  <2>6. new = [total |-> StubSize + img.dictSize + v.csize + size + TrailerSize,
               indexOffset |-> StubSize + img.dictSize + v.csize, indexSize |-> size, digest |-> TRUE,
               dictOffset |-> IF img.dictSize > 0 THEN StubSize ELSE 0, dictSize |-> img.dictSize,
               dictSha |-> img.dictSha, count |-> 1, entries |-> [j \in Slots |-> e]]
    BY <2>3 DEF TrimmedImage, TrimmedEntry
  <2>7. /\ new.total = StubSize + img.dictSize + v.csize + size + TrailerSize
        /\ new.indexOffset = StubSize + img.dictSize + v.csize /\ new.indexSize = size /\ new.digest = TRUE
        /\ new.dictOffset = (IF img.dictSize > 0 THEN StubSize ELSE 0) /\ new.dictSize = img.dictSize
        /\ new.dictSha = img.dictSha /\ new.count = 1 /\ new.entries[1] = e
    BY <2>6, <1>2
  <2>8. new.total \in 0 .. MaxInt
    BY <1>1, <1>3, <1>4, <1>5, <1>6, <1>7, <2>2, <2>7, TypedImage DEF TrailerRead
  <2>9. /\ new.indexOffset \in Int64 /\ new.indexSize \in Int64 /\ new.dictOffset \in Int64
        /\ new.dictSize \in Int64 /\ new.dictSha \in BOOLEAN /\ new.count \in 0 .. MaxVariants
    BY <1>1, <1>3, <1>4, <1>5, <1>6, <1>7, <2>2, <2>7, TypedImage DEF Int64
  <2>10. [j \in Slots |-> e] \in [Slots -> Entry]
    BY <2>4
  <2>11. new \in Image
    BY <2>6, <2>7, <2>8, <2>9, <2>10, SMTT(40) DEF Image
  <2>12. TypeOK'
    BY <2>1, <2>11 DEF TypeOK, Stages, Int64
  <2>13. TrailerRead'
    BY <1>1, <1>3, <1>4, <1>6, <1>7, <2>1, <2>2, <2>7, TypedImage DEF TrailerRead, IndexSize
  <2>14. DictionarySound'
    <3>1. CASE img.dictSize = 0
      BY <3>1, <2>1, <2>7 DEF DictionarySound
    <3>2. CASE img.dictSize > 0
      BY <3>2, <1>1, <1>3, <1>4, <1>6, <2>1, <2>2, <2>7 DEF DictionarySound
    <3>. QED
      BY <3>1, <3>2, <1>4
  <2>15. VariantSound(1)'
    <3>1. /\ e.level \in Levels /\ e.sha /\ e.csize > 0 /\ e.usize > 0 /\ e.usize <= MaxPayloadSize
      BY <1>3, <2>5 DEF VariantSound
    <3>2. e.offset >= 0 /\ e.offset + e.csize <= new.indexOffset
      BY <1>3, <1>4, <2>2, <2>5, <2>7
    <3>3. new.dictSize > 0 => new.dictOffset + new.dictSize <= e.offset
      BY <1>4, <2>5, <2>7
    <3>. QED
      BY <3>1, <3>2, <3>3, <2>1, <2>7 DEF VariantSound
  <2>. QED
    BY <2>1, <2>7, <2>12, <2>13, <2>14, <2>15 DEF Inv, TrimmedSound
<1>. QED
  BY <1>8, <1>9

\* Every step of the readers and of TrimBinary preserves the invariant.
THEOREM Step == Inv /\ [Next]_vars => Inv'
<1>. SUFFICES ASSUME Inv, [Next]_vars PROVE Inv'
  OBVIOUS
<1>1. CASE UNCHANGED vars
  BY <1>1 DEF vars, Inv, TypeOK, TrailerRead, DictionarySound, VariantSound, TrimmedSound, End
<1>2. CASE Next
  BY <1>2, ReadTrailerKeeps, CheckDictionaryKeeps, CheckVariantKeeps, TrimKeeps DEF Next
<1>. QED
  BY <1>1, <1>2

\* The loop invariant holds of every reader.
THEOREM Invariance == Spec => []Inv
BY Initially, Step, PTL DEF Spec

\* Every number in the state is an int64 of the code: in particular the sizes
\* and offsets that TrimBinary computes.
THEOREM TypesHold == Spec => []TypeOK
<1>1. Inv => TypeOK
  BY DEF Inv
<1>. QED
  BY <1>1, Invariance, PTL

\* ValidateBounds is sound: whatever numbers an image holds, an accepted index
\* describes ranges that lie before the index and apart from each other.
THEOREM BoundsAreSound == Spec => []AcceptedIsSound
<1>1. Inv => AcceptedIsSound
  <2>. SUFFICES ASSUME Inv, stage = "accepted" PROVE AcceptedIsSound
    BY DEF AcceptedIsSound
  <2>1. DictionarySound /\ \A k \in 1 .. img.count : VariantSound(k)
    BY TypedImage DEF Inv, TypeOK
  <2>. QED
    BY <2>1 DEF AcceptedIsSound, DictionarySound, VariantSound
<1>. QED
  BY <1>1, Invariance, PTL

\* What TrimBinary writes for an accepted image, its readers accept.
THEOREM TrimIsReadable == Spec => []TrimmedIsReadable
<1>1. Inv => TrimmedIsReadable
  BY DEF Inv, TrimmedIsReadable
<1>. QED
  BY <1>1, Invariance, PTL
=============================================================================
