-------------------------- MODULE FlashPartProofs --------------------------
(***************************************************************************)
(* Proofs about the partition table, the boot and the mounts, for every    *)
(* geometry of the flash and every set of labels, sizes and starts.        *)
(***************************************************************************)
EXTENDS FlashPart, FiniteSetTheorems, SequenceTheorems, WellFoundedInduction, TLAPS

----------------------------------------------------------------------------
\* A set of numbers with a bound has a greatest element.
LEMMA GreatestExists ==
    ASSUME NEW n \in Nat, NEW S \in SUBSET (0..n), S # {}
    PROVE  \E m \in S : \A k \in S : k <= m
<1> DEFINE R == StrictSubsetOrdering(Nat)
           D == FiniteSubsetsOf(Nat)
           Above == {k..n : k \in S}
<1>1. Above \subseteq D /\ Above # {}
  <2>1. \A k \in S : k..n \in SUBSET Nat /\ IsFiniteSet(k..n)
    BY FS_Interval
  <2> QED  BY <2>1 DEF FiniteSubsetsOf
<1>2. PICK m \in S : \A k \in S : ~(<<k..n, m..n>> \in R)
  <2>1. IsWellFoundedOn(R, D)
    BY FS_StrictSubsetOrderingWellFounded
  <2>2. PICK B \in Above : \A C \in Above : ~(<<C, B>> \in R)
    <3> HIDE DEF R, D, Above
    <3> QED  BY <1>1, <2>1, WFMin
  <2> QED  BY <2>2
<1>3. ASSUME NEW k \in S, m < k PROVE FALSE
  <2>1. k..n \subseteq m..n /\ m \in m..n /\ m \notin k..n
    BY <1>3
  <2>2. <<k..n, m..n>> \in R
    BY <2>1 DEF StrictSubsetOrdering
  <2> QED  BY <2>2, <1>2
<1> QED  BY <1>3

\* Max of FiniteSetsExt is that element.
LEMMA MaxIsGreatest ==
    ASSUME NEW n \in Nat, NEW S \in SUBSET (0..n), S # {}
    PROVE  Max(S) \in S /\ \A k \in S : k <= Max(S)
<1>1. \E m \in S : \A k \in S : m >= k
  BY GreatestExists
<1> QED  BY <1>1 DEF Max

----------------------------------------------------------------------------
(* Whole sectors.                                                          *)

Aligned(n) == n % SectorSize = 0

LEMMA GeometryIsNat ==
    /\ Sectors \in Nat \ {0} /\ SectorSize \in Nat \ {0} /\ Wide \in Nat \ {0}
    /\ LowSectors \in Nat \ {0} /\ ScratchSectors \in Nat \ {0}
    /\ Cap \in Nat /\ Cap < Wide
<1>1. /\ Sectors \in Nat \ {0} /\ SectorSize \in Nat \ {0} /\ Wide \in Nat \ {0}
      /\ LowSectors \in Nat \ {0} /\ ScratchSectors \in Nat \ {0} /\ Cap < Wide
  BY GeometryAssumption DEF Cap
<1> QED  BY <1>1 DEF Cap

LEMMA AlignedIsMultiple ==
    ASSUME NEW n \in Nat
    PROVE  /\ Aligned(n) <=> \E k \in Nat : n = k * SectorSize
           /\ n % SectorSize \in 0..(SectorSize - 1)
           /\ n - (n % SectorSize) \in Nat /\ Aligned(n - (n % SectorSize))
           /\ (n \div SectorSize) \in Nat
           /\ n = (n \div SectorSize) * SectorSize + (n % SectorSize)
<1> DEFINE s == SectorSize
<1> HIDE DEF s
<1>1. s \in Nat /\ s > 0
  BY GeometryIsNat DEF s
<1>2. /\ n % s \in 0..(s - 1) /\ (n \div s) \in Nat
      /\ n = (n \div s) * s + (n % s)
  BY <1>1
<1>3. \A k \in Nat : (k * s) % s = 0
  BY <1>1
<1>4. n % s = 0 => n = (n \div s) * s
  BY <1>1, <1>2
<1>5. n - (n % s) = (n \div s) * s
  BY <1>1, <1>2
<1> QED  BY <1>1, <1>2, <1>3, <1>4, <1>5 DEF Aligned, s

LEMMA AlignedSum ==
    ASSUME NEW m \in Nat, NEW n \in Nat, Aligned(m), Aligned(n)
    PROVE  Aligned(m + n)
<1>1. PICK j \in Nat, k \in Nat : m = j * SectorSize /\ n = k * SectorSize
  BY AlignedIsMultiple
<1>2. m + n = (j + k) * SectorSize
  BY <1>1, GeometryIsNat
<1>3. m + n \in Nat /\ j + k \in Nat
  OBVIOUS
<1>4. \E l \in Nat : m + n = l * SectorSize
  BY <1>2, <1>3
<1> QED  BY <1>3, <1>4, AlignedIsMultiple

LEMMA AlignedProduct ==
    ASSUME NEW k \in Nat PROVE k * SectorSize \in Nat /\ Aligned(k * SectorSize)
<1>1. k * SectorSize \in Nat
  BY GeometryIsNat
<1> QED  BY <1>1, AlignedIsMultiple

\* A size is rounded to whole sectors; upwards, when the sum does not wrap.
LEMMA RoundUpAligned ==
    ASSUME NEW n \in Nat
    PROVE  /\ RoundUp(n) \in Nat /\ Aligned(RoundUp(n))
           /\ n + SectorSize <= Wide => n <= RoundUp(n) /\ RoundUp(n) < n + SectorSize
<1> DEFINE m == (n + SectorSize - 1) % Wide
<1>1. n + SectorSize - 1 \in Nat
  BY GeometryIsNat
<1>2. m \in Nat /\ (n + SectorSize <= Wide => m = n + SectorSize - 1)
  BY <1>1, GeometryIsNat
<1>3. RoundUp(n) = (m \div SectorSize) * SectorSize
  BY DEF RoundUp
<1> HIDE DEF m
<1>4. /\ (m \div SectorSize) \in Nat /\ m % SectorSize \in 0..(SectorSize - 1)
      /\ m = (m \div SectorSize) * SectorSize + (m % SectorSize)
  BY <1>2, AlignedIsMultiple
<1>5. RoundUp(n) \in Nat /\ Aligned(RoundUp(n))
  BY <1>3, <1>4, AlignedProduct
<1>6. RoundUp(n) = m - (m % SectorSize)
  BY <1>2, <1>3, <1>4, <1>5
<1> QED  BY <1>2, <1>4, <1>5, <1>6, GeometryIsNat

----------------------------------------------------------------------------
(* Tables.                                                                 *)

LabelSet == Labels \union {"spiflash0", "data", "lfs0", "lfs1"}
EntrySet == [label : LabelSet, lfs : BOOLEAN, start : Nat, size : Nat]

\* A list of entries that fits, in which every label is there once.
Listed(entry) ==
    /\ entry \in Seq(EntrySet) /\ Len(entry) <= MaxEntries
    /\ \A i, j \in 1..Len(entry) : entry[i].label = entry[j].label => i = j

LEMMA SlotsAreNat ==
    /\ MaxEntries \in Nat /\ MaxEntries >= 4 /\ MaxMounts \in Nat \ {0}
    /\ HeadSlots \in Nat \ {0} /\ PageSlots \in Nat \ {0}
  BY SlotsAssumption

LEMMA EndIsNat ==
    ASSUME NEW e \in EntrySet
    PROVE  End(e) \in 0..(Wide - 1)
<1>1. e.start + e.size \in Nat
  BY DEF EntrySet
<1> QED  BY <1>1, GeometryIsNat DEF End

\* x_auto_place walks to the right: from a start that is taken it jumps to an
\* end that lies behind it.
JumpTo(t, start, size) == Max({End(t.entry[i]) : i \in Blockers(t, start, size)})

LEMMA JumpMovesOn ==
    ASSUME NEW t, t.entry \in Seq(EntrySet), NEW start \in Nat, NEW size \in Nat,
           Blockers(t, start, size) # {}
    PROVE  /\ JumpTo(t, start, size) \in 0..(Wide - 1) /\ JumpTo(t, start, size) > start
           /\ \E i \in 1..Len(t.entry) : JumpTo(t, start, size) = End(t.entry[i])
<1> DEFINE S == {End(t.entry[i]) : i \in Blockers(t, start, size)}
<1>1. /\ Blockers(t, start, size) \subseteq 1..Len(t.entry)
      /\ \A i \in Blockers(t, start, size) : start < End(t.entry[i])
  BY DEF Blockers
<1>2. \A i \in 1..Len(t.entry) : End(t.entry[i]) \in 0..(Wide - 1)
  BY EndIsNat
<1>3. S \in SUBSET (0..(Wide - 1)) /\ S # {}
  BY <1>1, <1>2
<1>4. Wide - 1 \in Nat
  BY GeometryIsNat
<1>5. Max(S) \in S
  <2> HIDE DEF S
  <2> QED  BY <1>3, <1>4, MaxIsGreatest
<1>6. PICK i \in Blockers(t, start, size) : JumpTo(t, start, size) = End(t.entry[i])
  BY <1>5 DEF JumpTo
<1> QED  BY <1>1, <1>2, <1>6

\* The walk is well defined: as every jump goes up and stays below Wide, the
\* recursive function of AutoPlace exists.
Walk(t, size, f, start) ==
    IF (start + size) % Wide > Cap THEN NoSpace
    ELSE IF Blockers(t, start, size) = {} THEN start
    ELSE f[JumpTo(t, start, size)]

WalkFrom(t, size, n) ==
    \E f : f = [start \in n..(Wide - 1) |-> Walk(t, size, f, start)]

LEMMA WalkExists ==
    ASSUME NEW t, t.entry \in Seq(EntrySet), NEW size \in Nat
    PROVE  WalkFrom(t, size, 0)
<1> DEFINE Bad == {n \in 0..Wide : ~WalkFrom(t, size, n)}
<1>1. Wide \in Nat
  BY GeometryIsNat
<1>2. WalkFrom(t, size, Wide)
  <2> DEFINE g == [start \in Wide..(Wide - 1) |-> NoSpace]
  <2>1. Wide..(Wide - 1) = {}
    BY <1>1
  <2>2. g = [start \in Wide..(Wide - 1) |-> Walk(t, size, g, start)]
    BY <2>1
  <2> QED  BY <2>2 DEF WalkFrom
<1>3. ASSUME NEW n \in 0..(Wide - 1), WalkFrom(t, size, n + 1) PROVE WalkFrom(t, size, n)
  <2>1. PICK g : g = [start \in (n + 1)..(Wide - 1) |-> Walk(t, size, g, start)]
    BY <1>3 DEF WalkFrom
  <2> DEFINE f == [start \in n..(Wide - 1) |->
                      IF start = n THEN Walk(t, size, g, n) ELSE g[start]]
  <2>2. \A start \in n..(Wide - 1) :
            Blockers(t, start, size) # {} =>
                f[JumpTo(t, start, size)] = g[JumpTo(t, start, size)]
    <3> TAKE start \in n..(Wide - 1)
    <3> HAVE Blockers(t, start, size) # {}
    <3>1. JumpTo(t, start, size) \in 0..(Wide - 1) /\ JumpTo(t, start, size) > start
      <4>1. start \in Nat
        BY <1>1
      <4> QED  BY <4>1, JumpMovesOn
    <3>2. JumpTo(t, start, size) \in n..(Wide - 1) /\ JumpTo(t, start, size) # n
      BY <1>1, <3>1
    <3> QED  BY <3>2
  <2>3. \A start \in n..(Wide - 1) : Walk(t, size, f, start) = Walk(t, size, g, start)
    <3> HIDE DEF f
    <3> QED  BY <2>2 DEF Walk
  <2>4. \A start \in n..(Wide - 1) : f[start] = Walk(t, size, g, start)
    <3> TAKE start \in n..(Wide - 1)
    <3>1. CASE start = n
      BY <3>1
    <3>2. CASE start # n
      <4>1. start \in (n + 1)..(Wide - 1)
        BY <1>1, <3>2
      <4>2. g[start] = Walk(t, size, g, start)
        BY <2>1, <4>1
      <4> QED  BY <3>2, <4>2
    <3> QED  BY <3>1, <3>2
  <2>5. f = [start \in n..(Wide - 1) |-> f[start]]
    OBVIOUS
  <2> HIDE DEF f
  <2>6. f = [start \in n..(Wide - 1) |-> Walk(t, size, f, start)]
    BY <2>3, <2>4, <2>5
  <2> QED  BY <2>6 DEF WalkFrom
<1>4. ASSUME Bad # {} PROVE FALSE
  <2>1. PICK m \in Bad : \A k \in Bad : k <= m
    <3>1. Bad \in SUBSET (0..Wide)
      OBVIOUS
    <3> HIDE DEF Bad
    <3> QED  BY <1>1, <1>4, <3>1, GreatestExists
  <2>2. m \in 0..Wide /\ m # Wide
    BY <1>2
  <2>3. m \in 0..(Wide - 1) /\ m + 1 \in 0..Wide /\ ~(m + 1 <= m)
    BY <1>1, <2>2
  <2>4. WalkFrom(t, size, m + 1)
    BY <2>1, <2>3
  <2> QED  BY <1>3, <2>3, <2>4
<1> QED  BY <1>1, <1>4

\* The place x_auto_place finds is free and on the device; it is the first one
\* it looks at or the end of an entry.
FreePlace(t, size, place) ==
    /\ place \in 0..(Wide - 1) /\ place >= SectorSize
    /\ (place + size) % Wide <= Cap
    /\ Blockers(t, place, size) = {}
    /\ place = SectorSize \/ \E i \in 1..Len(t.entry) : place = End(t.entry[i])

LEMMA AutoPlaceIsFree ==
    ASSUME NEW t, t.entry \in Seq(EntrySet), NEW size \in Nat, AutoPlace(t, size) # NoSpace
    PROVE  FreePlace(t, size, AutoPlace(t, size))
<1>1. Wide \in Nat /\ SectorSize \in 0..(Wide - 1)
  <2>1. Cap >= SectorSize
    BY GeometryIsNat DEF Cap
  <2> QED  BY <2>1, GeometryIsNat
<1>2. PICK place : /\ place = [start \in 0..(Wide - 1) |-> Walk(t, size, place, start)]
                   /\ AutoPlace(t, size) = place[SectorSize]
  <2> DEFINE P == CHOOSE f : f = [start \in 0..(Wide - 1) |-> Walk(t, size, f, start)]
  <2>1. P = [start \in 0..(Wide - 1) |-> Walk(t, size, P, start)]
    BY WalkExists DEF WalkFrom
  <2>2. AutoPlace(t, size) = P[SectorSize]
    BY DEF AutoPlace, Walk, JumpTo
  <2> HIDE DEF P
  <2> QED  BY <2>1, <2>2
\* From a start reached by the walk, what it finds is free.
<1> DEFINE Reached(s) == s = SectorSize \/ \E i \in 1..Len(t.entry) : s = End(t.entry[i])
           Bad == {s \in 0..(Wide - 1) : /\ s >= SectorSize /\ Reached(s)
                                         /\ place[s] # NoSpace
                                         /\ ~FreePlace(t, size, place[s])}
<1>3. ASSUME Bad # {} PROVE FALSE
  <2>1. PICK s \in Bad : \A k \in Bad : k <= s
    <3>1. Bad \in SUBSET (0..(Wide - 1)) /\ Wide - 1 \in Nat
      BY <1>1
    <3> HIDE DEF Bad
    <3> QED  BY <1>3, <3>1, GreatestExists
  <2>2. s \in 0..(Wide - 1) /\ place[s] = Walk(t, size, place, s) /\ place[s] # NoSpace
    BY <1>2
  <2>3. (s + size) % Wide <= Cap
    <3>1. (s + size) % Wide \in Int
      BY <1>1, <2>2
    <3> QED  BY <2>2, <3>1, GeometryIsNat DEF Walk
  <2>4. CASE Blockers(t, s, size) = {}
    <3>1. place[s] = s
      BY <2>2, <2>4 DEF Walk
    <3> QED  BY <2>1, <2>3, <2>4, <3>1 DEF FreePlace
  <2>5. CASE Blockers(t, s, size) # {}
    <3> DEFINE n == JumpTo(t, s, size)
    <3>1. n \in 0..(Wide - 1) /\ n > s /\ \E i \in 1..Len(t.entry) : n = End(t.entry[i])
      BY <1>1, <2>2, <2>5, JumpMovesOn
    <3>2. place[s] = place[n]
      BY <2>2, <2>5 DEF Walk
    <3> HIDE DEF n
    <3>3. n \in Bad
      BY <1>1, <2>1, <3>1, <3>2
    <3> QED  BY <1>1, <2>1, <2>2, <3>1, <3>3
  <2> QED  BY <2>4, <2>5
<1>4. SectorSize >= SectorSize
  BY <1>1
<1> QED  BY <1>1, <1>2, <1>3, <1>4

\* Create puts nothing on a place that is not free.
LEMMA PlacementIsFree ==
    ASSUME NEW t, t.entry \in Seq(EntrySet), NEW size \in Nat, NEW start \in Nat,
           Placement(t, start, size) # NoSpace
    PROVE  LET place == Placement(t, start, size) IN
           /\ place \in Nat /\ place >= SectorSize
           /\ (place + size) % Wide <= Cap
           /\ Blockers(t, place, size) = {}
           /\ \/ place <= start /\ Aligned(place)
              \/ place = SectorSize
              \/ \E i \in 1..Len(t.entry) : place = End(t.entry[i])
<1> DEFINE first == start - (start % SectorSize)
<1>1. CASE start = 0
  <2>1. Placement(t, start, size) = AutoPlace(t, size)
    BY <1>1 DEF Placement
  <2>2. FreePlace(t, size, AutoPlace(t, size))
    BY <2>1, AutoPlaceIsFree
  <2> QED  BY <2>1, <2>2, GeometryIsNat DEF FreePlace
<1>2. CASE start # 0
  <2>1. first \in Nat /\ Aligned(first) /\ first <= start
    BY AlignedIsMultiple, GeometryIsNat
  <2>2. /\ Placement(t, start, size) = first
        /\ ~(first < SectorSize) /\ ~((first + size) % Wide > Cap)
        /\ Blockers(t, first, size) = {}
    BY <1>2 DEF Placement
  <2> HIDE DEF first
  <2>3. (first + size) % Wide \in Int
    BY <2>1, GeometryIsNat
  <2> QED  BY <2>1, <2>2, <2>3, GeometryIsNat
<1> QED  BY <1>1, <1>2

----------------------------------------------------------------------------
(* What programming a table leaves in sector 0.                            *)

SectorSet == [magic : BOOLEAN, whole : BOOLEAN, crc : Seq(EntrySet), slot : Seq(EntrySet)]

LEMMA MinOfTwo ==
    ASSUME NEW a \in Int, NEW b \in Int
    PROVE  Min({a, b}) \in {a, b} /\ Min({a, b}) <= a /\ Min({a, b}) <= b
<1>1. \E m \in {a, b} : \A k \in {a, b} : m <= k
  <2>1. CASE a <= b
    BY <2>1
  <2>2. CASE b <= a
    BY <2>2
  <2> QED  BY <2>1, <2>2
<1> QED  BY <1>1 DEF Min

LEMMA BlankTornTyped ==
    /\ Blank \in SectorSet /\ ~Loadable(Blank)
    /\ Torn \in SectorSet /\ ~Loadable(Torn)
<1>1. << >> \in Seq(EntrySet)
  OBVIOUS
<1> QED  BY <1>1 DEF Blank, Torn, SectorSet, Loadable, CrcMatches

\* The pages of an image that is complete carry its CRC; one that has not all
\* its pages is refused, unless the pages it lacks hold nothing.
LEMMA ProgrammedTyped ==
    ASSUME NEW image \in Seq(EntrySet), NEW n \in Nat \ {0}
    PROVE  /\ Programmed(image, n) \in SectorSet
           /\ Loadable(Programmed(image, n)) => Programmed(image, n).slot = image
<1> DEFINE slots == HeadSlots + (n - 1) * PageSlots
           m == Min({Len(image), slots})
<1>1. Len(image) \in Nat /\ slots \in Int
  BY SlotsAreNat
<1>2. m \in Int /\ m <= Len(image)
  <2>1. Len(image) \in Int /\ slots \in Int
    BY <1>1
  <2> HIDE DEF slots
  <2>2. m \in {Len(image), slots} /\ m <= Len(image)
    BY <2>1, MinOfTwo
  <2> HIDE DEF m
  <2> QED  BY <2>1, <2>2
<1>3. SubSeq(image, 1, m) \in Seq(EntrySet)
  <2> HIDE DEF m
  <2>1. \A i \in 1..m : image[i] \in EntrySet
    BY <1>1, <1>2
  <2> QED  BY <1>2, <2>1, SubSeqProperties
<1>4. Programmed(image, n) = [magic |-> TRUE, whole |-> TRUE, crc |-> image,
                              slot |-> SubSeq(image, 1, m)]
  BY DEF Programmed
<1> HIDE DEF m
<1> QED  BY <1>3, <1>4 DEF SectorSet, Loadable, CrcMatches

LEMMA InterruptedTyped ==
    ASSUME NEW old \in SectorSet, NEW new \in SectorSet, NEW s \in Interrupted(old, new)
    PROVE  s \in SectorSet /\ (Loadable(s) => s \in {old, new})
  BY BlankTornTyped DEF Interrupted

LEMMA PagesOfBounds ==
    ASSUME NEW image, Listed(image)
    PROVE  /\ PagesOf(image) \in 1..(MaxEntries + 1)
           /\ HeadSlots + (PagesOf(image) - 1) * PageSlots >= Len(image)
<1> DEFINE Room(n) == HeadSlots + (n - 1) * PageSlots
           Short == {n \in 0..MaxEntries : n = 0 \/ Room(n) < Len(image)}
<1>1. /\ Len(image) \in Nat /\ Len(image) <= MaxEntries
      /\ MaxEntries \in Nat /\ HeadSlots \in Nat \ {0} /\ PageSlots \in Nat \ {0}
  BY SlotsAreNat DEF Listed
<1>2. \A n \in Nat : Room(n) \in Int /\ Room(n + 1) = HeadSlots + n * PageSlots
  BY <1>1
<1>3. Room(MaxEntries + 1) >= Len(image)
  <2>1. MaxEntries * PageSlots >= MaxEntries
    BY <1>1
  <2> QED  BY <1>1, <1>2, <2>1
<1>4. PICK m \in Short : \A k \in Short : k <= m
  <2>1. 0 \in Short /\ Short \in SUBSET (0..MaxEntries)
    BY <1>1
  <2> HIDE DEF Short
  <2> QED  BY <1>1, <2>1, GreatestExists
<1>5. m + 1 \in 1..(MaxEntries + 1) /\ Room(m + 1) >= Len(image)
  <2>1. m \in 0..MaxEntries
    BY <1>4
  <2>2. CASE m = MaxEntries
    BY <1>1, <1>3, <2>1, <2>2
  <2>3. CASE m # MaxEntries
    <3>1. m + 1 \in 0..MaxEntries /\ ~(m + 1 <= m)
      BY <1>1, <2>1, <2>3
    <3>2. ~(Room(m + 1) < Len(image))
      BY <1>4, <3>1
    <3>3. m + 1 \in Nat
      BY <2>1, <1>1
    <3>4. Room(m + 1) \in Int
      BY <1>2, <3>3
    <3> HIDE DEF Room
    <3> QED  BY <1>1, <2>1, <3>1, <3>2, <3>4
  <2> QED  BY <2>2, <2>3
<1>6. m + 1 > 1 => Room(m) < Len(image)
  BY <1>1, <1>4
<1>7. \E n \in 1..(MaxEntries + 1) :
          /\ HeadSlots + (n - 1) * PageSlots >= Len(image)
          /\ n > 1 => HeadSlots + (n - 2) * PageSlots < Len(image)
  <2>1. m \in 0..MaxEntries /\ (m + 1) - 2 = m - 1
    BY <1>4
  <2> QED  BY <1>5, <1>6, <2>1
<1> QED  BY <1>7 DEF PagesOf

----------------------------------------------------------------------------
(* What the calls make of a list of entries.                               *)

TableSet == [valid : BOOLEAN, entry : Seq(EntrySet), guard : [1..MaxEntries -> BOOLEAN]]

LEMMA NoTableTyped ==
    NoTable \in TableSet /\ Listed(NoTable.entry) /\ NoTable.entry = << >>
<1>1. << >> \in Seq(EntrySet) /\ Len(<< >>) = 0
  OBVIOUS
<1> QED  BY <1>1, SlotsAreNat DEF NoTable, TableSet, Listed

LEMMA RegionBounds ==
    LET region == Sectors - LowSectors - ScratchSectors
        half == region \div 2
    IN /\ region \in Nat /\ region >= 2 /\ half \in Nat /\ half >= 1 /\ half <= region
       /\ region - half \in Nat /\ LowSectors - 1 \in Nat /\ LowSectors - 1 >= 1
<1> DEFINE region == Sectors - LowSectors - ScratchSectors
<1>1. region \in Nat /\ region >= 2 /\ LowSectors - 1 \in Nat /\ LowSectors - 1 >= 1
  BY GeometryAssumption, GeometryIsNat
<1> HIDE DEF region
<1>2. region \div 2 \in Nat /\ region \div 2 >= 1 /\ region \div 2 <= region
  BY <1>1
<1>3. region - (region \div 2) \in Nat
  BY <1>1, <1>2
<1> QED  BY <1>1, <1>2, <1>3 DEF region

\* The entry of the default layout that starts at sector first and has n.
LayoutEntry(label, lfs, first, n) == Entry(label, lfs, first * SectorSize, n * SectorSize)

LEMMA LayoutEntryTyped ==
    ASSUME NEW label \in LabelSet, NEW lfs \in BOOLEAN, NEW first \in Nat, NEW n \in Nat
    PROVE  /\ LayoutEntry(label, lfs, first, n) \in EntrySet
           /\ LayoutEntry(label, lfs, first, n).label = label
           /\ LayoutEntry(label, lfs, first, n).start = first * SectorSize
           /\ LayoutEntry(label, lfs, first, n).size = n * SectorSize
<1>1. first * SectorSize \in Nat /\ n * SectorSize \in Nat
  BY GeometryIsNat
<1> QED  BY <1>1 DEF LayoutEntry, Entry, EntrySet

LEMMA DefaultEntries ==
    LET region == Sectors - LowSectors - ScratchSectors
        half == region \div 2
    IN DefaultLayout = << LayoutEntry("spiflash0", FALSE, 0, 1),
                          LayoutEntry("data", FALSE, 1, LowSectors - 1),
                          LayoutEntry("lfs0", TRUE, LowSectors, half),
                          LayoutEntry("lfs1", TRUE, LowSectors + half, region - half) >>
  BY DEF DefaultLayout, LayoutEntry

LEMMA DefaultListed == Listed(DefaultLayout) /\ Len(DefaultLayout) = 4
<1> DEFINE region == Sectors - LowSectors - ScratchSectors
           half == region \div 2
           a == LayoutEntry("spiflash0", FALSE, 0, 1)
           b == LayoutEntry("data", FALSE, 1, LowSectors - 1)
           c == LayoutEntry("lfs0", TRUE, LowSectors, half)
           d == LayoutEntry("lfs1", TRUE, LowSectors + half, region - half)
<1>1. DefaultLayout = <<a, b, c, d>>
  BY DefaultEntries
<1>2. /\ a \in EntrySet /\ a.label = "spiflash0"
      /\ b \in EntrySet /\ b.label = "data"
      /\ c \in EntrySet /\ c.label = "lfs0"
      /\ d \in EntrySet /\ d.label = "lfs1"
  <2>1. {"spiflash0", "data", "lfs0", "lfs1"} \subseteq LabelSet
    BY DEF LabelSet
  <2>2. /\ LowSectors \in Nat /\ half \in Nat /\ region - half \in Nat
        /\ LowSectors - 1 \in Nat /\ LowSectors + half \in Nat
    BY RegionBounds, GeometryIsNat
  <2> HIDE DEF half, region
  <2>0. \A k \in Nat : k * SectorSize \in Nat
    BY GeometryIsNat
  <2>3. a \in EntrySet /\ a.label = "spiflash0"
    BY <2>1, <2>2, <2>0 DEF LayoutEntry, Entry, EntrySet
  <2>4. b \in EntrySet /\ b.label = "data"
    BY <2>1, <2>2, <2>0 DEF LayoutEntry, Entry, EntrySet
  <2>5. c \in EntrySet /\ c.label = "lfs0"
    BY <2>1, <2>2, <2>0 DEF LayoutEntry, Entry, EntrySet
  <2>6. d \in EntrySet /\ d.label = "lfs1"
    BY <2>1, <2>2, <2>0 DEF LayoutEntry, Entry, EntrySet
  <2> QED  BY <2>3, <2>4, <2>5, <2>6
<1> HIDE DEF a, b, c, d
<1>3. <<a, b, c, d>> \in Seq(EntrySet) /\ Len(<<a, b, c, d>>) = 4
  BY <1>2
<1>4. \A i, j \in 1..4 : <<a, b, c, d>>[i].label = <<a, b, c, d>>[j].label => i = j
  BY <1>2
<1> QED  BY <1>1, <1>3, <1>4, SlotsAreNat DEF Listed

LEMMA AppendListed ==
    ASSUME NEW entry, Listed(entry), Len(entry) < MaxEntries, NEW x \in EntrySet,
           \A i \in 1..Len(entry) : entry[i].label # x.label
    PROVE  /\ Listed(Append(entry, x))
           /\ Len(Append(entry, x)) = Len(entry) + 1
           /\ Append(entry, x)[Len(entry) + 1] = x
           /\ \A i \in 1..Len(entry) : Append(entry, x)[i] = entry[i]
<1>1. entry \in Seq(EntrySet) /\ Len(entry) \in Nat
  BY DEF Listed
<1>2. /\ Append(entry, x) \in Seq(EntrySet) /\ Len(Append(entry, x)) = Len(entry) + 1
      /\ Append(entry, x)[Len(entry) + 1] = x
      /\ \A i \in 1..Len(entry) : Append(entry, x)[i] = entry[i]
  BY <1>1, AppendProperties
<1>3. \A i, j \in 1..(Len(entry) + 1) :
          Append(entry, x)[i].label = Append(entry, x)[j].label => i = j
  <2> TAKE i, j \in 1..(Len(entry) + 1)
  <2>1. CASE i \in 1..Len(entry) /\ j \in 1..Len(entry)
    BY <1>2, <2>1 DEF Listed
  <2>2. CASE i = Len(entry) + 1 \/ j = Len(entry) + 1
    BY <1>1, <1>2, <2>2
  <2> QED  BY <1>1, <2>1, <2>2
<1> QED  BY <1>1, <1>2, <1>3, SlotsAreNat DEF Listed

LEMMA DropListed ==
    ASSUME NEW entry, Listed(entry), entry # << >>
    PROVE  LET less == SubSeq(entry, 1, Len(entry) - 1) IN
           /\ Listed(less) /\ Len(less) = Len(entry) - 1
           /\ \A i \in 1..(Len(entry) - 1) : less[i] = entry[i]
<1>1. entry \in Seq(EntrySet) /\ Len(entry) \in Nat \ {0}
  BY EmptySeq DEF Listed
<1>2. \A i \in 1..(Len(entry) - 1) : entry[i] \in EntrySet
  BY <1>1
<1>3. /\ SubSeq(entry, 1, Len(entry) - 1) \in Seq(EntrySet)
      /\ Len(SubSeq(entry, 1, Len(entry) - 1)) = Len(entry) - 1
      /\ \A i \in 1..(Len(entry) - 1) : SubSeq(entry, 1, Len(entry) - 1)[i] = entry[i]
  <2> DEFINE m == Len(entry) - 1
             less == SubSeq(entry, 1, m)
  <2>1. m \in Nat /\ 1 \in Int /\ m \in Int
    BY <1>1
  <2> HIDE DEF m
  <2>2. /\ less \in Seq(EntrySet)
        /\ Len(less) = IF 1 <= m THEN m - 1 + 1 ELSE 0
        /\ \A i \in 1..(m - 1 + 1) : less[i] = entry[1 + i - 1]
    BY <1>2, <2>1, SubSeqProperties DEF m
  <2> HIDE DEF less
  <2>3. Len(less) = m /\ \A i \in 1..m : less[i] = entry[i]
    BY <2>1, <2>2
  <2> QED  BY <2>2, <2>3 DEF m, less
<1> QED  BY <1>1, <1>3, SlotsAreNat DEF Listed

\* Delete: entry j of the result is entry j or, from the deleted one on, j + 1.
LEMMA WithoutListed ==
    ASSUME NEW t \in TableSet, Listed(t.entry), NEW i \in 1..Len(t.entry)
    PROVE  /\ Without(t, i) \in TableSet /\ Listed(Without(t, i).entry)
           /\ Len(Without(t, i).entry) = Len(t.entry) - 1
           /\ \A j \in 1..(Len(t.entry) - 1) :
                 LET k == IF j < i THEN j ELSE j + 1 IN
                 /\ k \in 1..Len(t.entry)
                 /\ Without(t, i).entry[j] = t.entry[k]
                 /\ Without(t, i).guard[j] = t.guard[k]
<1> DEFINE n == Len(t.entry)
           e == [j \in 1..(n - 1) |-> t.entry[IF j < i THEN j ELSE j + 1]]
           g == [j \in 1..MaxEntries |-> t.guard[IF j >= i /\ j < n THEN j + 1 ELSE j]]
<1>1. /\ t.entry \in Seq(EntrySet) /\ n \in Nat \ {0} /\ n <= MaxEntries /\ MaxEntries \in Nat
      /\ i \in 1..n /\ t.guard \in [1..MaxEntries -> BOOLEAN]
  BY SlotsAreNat DEF Listed, TableSet
<1>2. Without(t, i) = [t EXCEPT !.entry = e, !.guard = g]
  BY DEF Without
<1>3. \A j \in 1..(n - 1) : (IF j < i THEN j ELSE j + 1) \in 1..n
  BY <1>1
<1>4. e \in [1..(n - 1) -> EntrySet]
  <2>1. \A k \in 1..n : t.entry[k] \in EntrySet
    BY <1>1
  <2> QED  BY <1>3, <2>1
<1>5. e \in Seq(EntrySet) /\ Len(e) = n - 1
  <2>1. n - 1 \in Nat
    BY <1>1
  <2> HIDE DEF e, n
  <2> QED  BY <1>4, <2>1
<1>6. g \in [1..MaxEntries -> BOOLEAN]
  <2>1. \A j \in 1..MaxEntries : (IF j >= i /\ j < n THEN j + 1 ELSE j) \in 1..MaxEntries
    BY <1>1
  <2> QED  BY <1>1, <2>1
<1>7. \A j \in 1..(n - 1) : /\ e[j] = t.entry[IF j < i THEN j ELSE j + 1]
                            /\ g[j] = t.guard[IF j < i THEN j ELSE j + 1]
  <2> TAKE j \in 1..(n - 1)
  <2>1. j \in 1..MaxEntries /\ (j >= i /\ j < n <=> ~(j < i))
    BY <1>1
  <2> QED  BY <2>1
<1> HIDE DEF e, g
<1>8. /\ Without(t, i) \in TableSet /\ Without(t, i).entry = e /\ Without(t, i).guard = g
  BY <1>2, <1>5, <1>6 DEF TableSet
<1>9. Listed(e)
  <2>1. \A j, k \in 1..(n - 1) : e[j].label = e[k].label => j = k
    <3> TAKE j, k \in 1..(n - 1)
    <3> HAVE e[j].label = e[k].label
    <3> DEFINE p == IF j < i THEN j ELSE j + 1
               q == IF k < i THEN k ELSE k + 1
    <3>1. p \in 1..n /\ q \in 1..n /\ e[j] = t.entry[p] /\ e[k] = t.entry[q]
      BY <1>3, <1>7
    <3> HIDE DEF p, q
    <3>2. p = q
      BY <3>1 DEF Listed
    <3> QED  BY <1>1, <3>2 DEF p, q
  <2> QED  BY <1>1, <1>5, <2>1 DEF Listed
<1> QED  BY <1>1, <1>3, <1>5, <1>7, <1>8, <1>9

----------------------------------------------------------------------------
(* The invariants.  Base holds whatever the host does.                     *)

Why == {"boot", "create", "delete", "provision", "format"}

CallTyped ==
    \/ call = Idle
    \/ call = Booting
    \/ call.at = "mount" /\ call = Mounting(call.next) /\ call.next \in Nat \ {0}
    \/ /\ call.at = "save" /\ call = Saving(call.why, call.pages)
       /\ call.why \in Why /\ call.pages \in Nat \union {NotErased}

VfsInv ==
    /\ vfs = [attached |-> vfs.attached, used |-> vfs.used, mounted |-> vfs.mounted]
    /\ vfs.mounted = [l \in Mounted |-> vfs.mounted[l]]
    /\ Mounted \subseteq vfs.used
    /\ IsFiniteSet(vfs.used) /\ Cardinality(vfs.used) <= MaxMounts

TypeInv ==
    /\ ram \in TableSet /\ Listed(ram.entry) /\ sector \in SectorSet
    /\ CallTyped /\ VfsInv
    /\ calls \in 0..MaxCalls /\ cuts \in 0..MaxCuts

\* What a load would accept is known; while a save runs, sector 0 holds what
\* has been programmed of the table in RAM; a boot starts from nothing.
SectorInv == Loadable(sector) => Listed(sector.slot) /\ sector.slot \in known
SaveInv ==
    call.at = "save" =>
        /\ ram.entry \in known
        /\ call.pages = 0 => sector = Blank
        /\ call.pages \in Nat \ {0} => sector = Programmed(ram.entry, call.pages)
BootInv == call.at = "boot" => ram = NoTable /\ vfs = NoVfs /\ marked = {}

Base == TypeInv /\ SectorInv /\ SaveInv /\ BootInv

\* The entry a create may still take back is the last one, its guard down.
GuardInv ==
    /\ GuardFollowsLabel
    /\ call.at = "save" /\ call.why = "create" =>
          ram.entry # << >> /\ ~ram.guard[Len(ram.entry)]

----------------------------------------------------------------------------
(* The mount slots.                                                        *)

LEMMA NoVfsInv == ASSUME vfs' = NoVfs PROVE VfsInv' /\ Mounted' = {} /\ vfs'.used = {}
<1>1. /\ vfs' = [attached |-> FALSE, used |-> {}, mounted |-> << >>]
      /\ vfs'.used = {} /\ vfs'.mounted = << >>
  BY DEF NoVfs
<1>2. DOMAIN << >> = {} /\ << >> = [l \in {} |-> << >>[l]]
  OBVIOUS
<1>3. IsFiniteSet({}) /\ Cardinality({}) = 0
  BY FS_EmptySet
<1> QED  BY <1>1, <1>2, <1>3, SlotsAreNat DEF VfsInv, Mounted

LEMMA SlotTaken ==
    ASSUME VfsInv, NEW label, SlotFor(label)
    PROVE  /\ IsFiniteSet(vfs.used \union {label})
           /\ Cardinality(vfs.used \union {label}) <= MaxMounts
<1>1. IsFiniteSet(vfs.used) /\ Cardinality(vfs.used) \in Nat /\ Cardinality(vfs.used) <= MaxMounts
  BY FS_CardinalityType DEF VfsInv
<1>2. /\ IsFiniteSet(vfs.used \union {label})
      /\ Cardinality(vfs.used \union {label}) =
             IF label \in vfs.used THEN Cardinality(vfs.used) ELSE Cardinality(vfs.used) + 1
  BY <1>1, FS_AddElement
<1>3. label \in vfs.used \/ Cardinality(vfs.used) < MaxMounts
  BY DEF SlotFor
<1> QED  BY <1>1, <1>2, <1>3, SlotsAreNat

LEMMA WithSlotKeeps ==
    ASSUME VfsInv, NEW label, SlotFor(label), vfs' = WithSlot(label)
    PROVE  VfsInv' /\ vfs'.mounted = vfs.mounted
<1>1. /\ vfs = [attached |-> vfs.attached, used |-> vfs.used, mounted |-> vfs.mounted]
      /\ vfs.mounted = [l \in Mounted |-> vfs.mounted[l]] /\ Mounted \subseteq vfs.used
  BY DEF VfsInv
<1>2. vfs' = [attached |-> vfs.attached, used |-> vfs.used \union {label},
              mounted |-> vfs.mounted]
  BY <1>1 DEF WithSlot
<1>3. /\ vfs'.used = vfs.used \union {label} /\ vfs'.mounted = vfs.mounted
      /\ vfs'.attached = vfs.attached
  BY <1>2
<1> QED  BY <1>1, <1>2, <1>3, SlotTaken DEF VfsInv, Mounted

LEMMA WithMountKeeps ==
    ASSUME VfsInv, NEW label, NEW r, SlotFor(label), vfs' = WithMount(label, r)
    PROVE  /\ VfsInv' /\ Mounted' = Mounted \union {label}
           /\ \A l \in Mounted' : vfs'.mounted[l] = IF l = label THEN r ELSE vfs.mounted[l]
<1> DEFINE m == [l \in Mounted \union {label} |-> IF l = label THEN r ELSE vfs.mounted[l]]
<1>1. /\ vfs = [attached |-> vfs.attached, used |-> vfs.used, mounted |-> vfs.mounted]
      /\ Mounted \subseteq vfs.used
  BY DEF VfsInv
<1>2. vfs' = [attached |-> vfs.attached, used |-> vfs.used \union {label}, mounted |-> m]
  BY <1>1 DEF WithMount, WithSlot
<1>3. /\ vfs'.used = vfs.used \union {label} /\ vfs'.mounted = m
      /\ vfs'.attached = vfs.attached
  <2> HIDE DEF m
  <2> QED  BY <1>2
<1>4. Mounted' = Mounted \union {label} /\ DOMAIN m = Mounted \union {label}
      /\ m = [l \in DOMAIN m |-> m[l]]
  BY <1>3 DEF Mounted
<1>5. \A l \in Mounted' : vfs'.mounted[l] = IF l = label THEN r ELSE vfs.mounted[l]
  BY <1>3, <1>4
<1> HIDE DEF m
<1> QED  BY <1>1, <1>2, <1>3, <1>4, <1>5, SlotTaken DEF VfsInv

LEMMA UnmountKeeps ==
    ASSUME VfsInv, NEW label,
           vfs' = [vfs EXCEPT !.used = @ \ {label},
                              !.mounted = [l \in Mounted \ {label} |-> vfs.mounted[l]]]
    PROVE  /\ VfsInv' /\ Mounted' = Mounted \ {label}
           /\ \A l \in Mounted' : vfs'.mounted[l] = vfs.mounted[l]
<1> DEFINE m == [l \in Mounted \ {label} |-> vfs.mounted[l]]
           u == vfs.used \ {label}
<1>1. /\ vfs = [attached |-> vfs.attached, used |-> vfs.used, mounted |-> vfs.mounted]
      /\ Mounted \subseteq vfs.used
      /\ IsFiniteSet(vfs.used) /\ Cardinality(vfs.used) <= MaxMounts
  BY DEF VfsInv
<1>2. vfs' = [attached |-> vfs.attached, used |-> u, mounted |-> m]
  BY <1>1
<1>3. vfs'.used = u /\ vfs'.mounted = m /\ vfs'.attached = vfs.attached
  <2> DEFINE new == [attached |-> vfs.attached, used |-> u, mounted |-> m]
  <2>1. vfs' = new
    BY <1>2
  <2> HIDE DEF m, u
  <2>2. new.used = u /\ new.mounted = m /\ new.attached = vfs.attached
    OBVIOUS
  <2> HIDE DEF new
  <2> QED  BY <2>1, <2>2, Zenon
<1>4. Mounted' = Mounted \ {label} /\ DOMAIN m = Mounted \ {label} /\ m = [l \in DOMAIN m |-> m[l]]
  BY <1>3 DEF Mounted
<1>5. \A l \in Mounted' : vfs'.mounted[l] = vfs.mounted[l]
  BY <1>3, <1>4
<1>6. IsFiniteSet(u) /\ Cardinality(u) <= MaxMounts
  <2>1. u \subseteq vfs.used
    OBVIOUS
  <2> HIDE DEF u
  <2>2. IsFiniteSet(u) /\ Cardinality(u) <= Cardinality(vfs.used)
    BY <1>1, <2>1, FS_Subset
  <2>3. Cardinality(u) \in Nat /\ Cardinality(vfs.used) \in Nat
    BY <1>1, <2>2, FS_CardinalityType
  <2> QED  BY <1>1, <2>2, <2>3, SlotsAreNat
<1>7. u = vfs.used \ {label}
  OBVIOUS
<1> HIDE DEF m, u
<1> QED  BY <1>1, <1>2, <1>3, <1>4, <1>5, <1>6, <1>7 DEF VfsInv

----------------------------------------------------------------------------
(* Every action keeps Base.                                                *)

LEMMA CallShapes ==
    /\ Idle.at = "idle" /\ Booting.at = "boot"
    /\ \A i : Mounting(i).at = "mount" /\ Mounting(i).next = i
    /\ \A why, pages : /\ Saving(why, pages).at = "save" /\ Saving(why, pages).why = why
                       /\ Saving(why, pages).pages = pages
  BY DEF Idle, Booting, Mounting, Saving

LEMMA CallIs ==
    ASSUME CallTyped
    PROVE  /\ call.at \in {"idle", "boot", "mount", "save"}
           /\ call.at = "mount" => call = Mounting(call.next) /\ call.next \in Nat \ {0}
           /\ call.at = "save" => /\ call = Saving(call.why, call.pages)
                                 /\ call.why \in Why /\ call.pages \in Nat \union {NotErased}
  BY CallShapes DEF CallTyped

LEMMA NotErasedIs == NotErased \in Int /\ NotErased < 0 /\ NotErased + 1 = 0
  BY DEF NotErased

\* A step that is not about the table: the call may end or go on.
LEMMA QuietBase ==
    ASSUME Base, UNCHANGED <<sector, ram, known, calls, cuts>>, VfsInv', CallTyped',
           \/ call'.at \in {"idle", "mount"}
           \/ UNCHANGED <<call, vfs, marked>>
    PROVE  Base'
<1>1. TypeInv' /\ SectorInv'
  BY DEF Base, TypeInv, SectorInv
<1>2. SaveInv' /\ BootInv'
  <2>1. CASE call'.at \in {"idle", "mount"}
    BY <2>1 DEF SaveInv, BootInv
  <2>2. CASE UNCHANGED <<call, vfs, marked>>
    BY <2>2 DEF Base, SaveInv, BootInv
  <2> QED  BY <2>1, <2>2
<1> QED  BY <1>1, <1>2 DEF Base

LEMMA EnterSaveBase ==
    ASSUME Base, NEW t \in TableSet, Listed(t.entry), NEW why \in Why, EnterSave(t, why),
           UNCHANGED <<sector, vfs>>, calls' \in 0..MaxCalls, UNCHANGED cuts
    PROVE  Base' /\ ram' = t /\ call'.at = "save" /\ call'.why = why
<1>1. ram' = t /\ call' = Saving(why, NotErased) /\ known' = known \union {t.entry}
  BY DEF EnterSave
<1>2. call'.at = "save" /\ call'.why = why /\ call'.pages = NotErased
  BY <1>1, CallShapes
<1>3. TypeInv'
  <2>1. CallTyped'
    BY <1>1, <1>2 DEF CallTyped
  <2>2. VfsInv'
    BY DEF Base, TypeInv, VfsInv, Mounted
  <2> QED  BY <1>1, <2>1, <2>2 DEF Base, TypeInv
<1>4. SectorInv'
  BY <1>1 DEF Base, SectorInv
<1>5. SaveInv' /\ BootInv'
  BY <1>1, <1>2, NotErasedIs DEF SaveInv, BootInv
<1> QED  BY <1>1, <1>2, <1>3, <1>4, <1>5 DEF Base

\* What a save has in hand: a page to program, and what sector 0 becomes.
LEMMA SaveTargetTyped ==
    ASSUME Base, call.at = "save"
    PROVE  /\ call.pages \in Nat \union {NotErased} /\ call.why \in Why
           /\ SaveTarget \in SectorSet
           /\ Loadable(SaveTarget) => SaveTarget.slot = ram.entry
           /\ call.pages = NotErased => SaveTarget = Blank
           /\ call.pages \in Nat => SaveTarget = Programmed(ram.entry, call.pages + 1)
<1>1. call.pages \in Nat \union {NotErased} /\ call.why \in Why
  BY CallIs DEF Base, TypeInv
<1>2. CASE call.pages = NotErased
  <2>1. SaveTarget = Blank
    BY <1>2 DEF SaveTarget
  <2> QED  BY <1>1, <1>2, <2>1, BlankTornTyped, NotErasedIs
<1>3. CASE call.pages \in Nat
  <2>1. SaveTarget = Programmed(ram.entry, call.pages + 1)
    BY <1>3, NotErasedIs DEF SaveTarget
  <2>2. call.pages + 1 \in Nat \ {0} /\ ram.entry \in Seq(EntrySet)
    BY <1>3 DEF Base, TypeInv, Listed
  <2> QED  BY <1>1, <1>3, <2>1, <2>2, ProgrammedTyped, NotErasedIs
<1> QED  BY <1>1, <1>2, <1>3

LEMMA SaveStepBase ==
    ASSUME Base, SaveStep PROVE Base'
<1>1. /\ call.at = "save" /\ sector' = SaveTarget /\ call' = [call EXCEPT !.pages = @ + 1]
      /\ UNCHANGED <<ram, vfs, known, marked, calls, cuts>>
  BY DEF SaveStep
<1>2. /\ call = Saving(call.why, call.pages) /\ call.why \in Why
      /\ call.pages \in Nat \union {NotErased}
  BY <1>1, CallIs DEF Base, TypeInv
<1>3. call' = Saving(call.why, call.pages + 1)
  <2>1. call' = [Saving(call.why, call.pages) EXCEPT !.pages = call.pages + 1]
    BY <1>1, <1>2
  <2> QED  BY <2>1 DEF Saving
<1>4. call'.at = "save" /\ call'.why = call.why /\ call'.pages = call.pages + 1
      /\ call.pages + 1 \in Nat
  BY <1>2, <1>3, CallShapes, NotErasedIs
<1>5. TypeInv'
  <2>1. CallTyped'
    BY <1>2, <1>3, <1>4 DEF CallTyped
  <2>2. VfsInv'
    BY <1>1 DEF Base, TypeInv, VfsInv, Mounted
  <2> QED  BY <1>1, <2>1, <2>2, SaveTargetTyped DEF Base, TypeInv
<1>6. SectorInv'
  BY <1>1, SaveTargetTyped DEF Base, TypeInv, SectorInv, SaveInv
<1>7. SaveInv'
  <2>1. ram.entry \in known
    BY <1>1 DEF Base, SaveInv
  <2>2. CASE call.pages = NotErased
    BY <1>1, <1>4, <2>1, <2>2, SaveTargetTyped, NotErasedIs DEF SaveInv
  <2>3. CASE call.pages \in Nat
    BY <1>1, <1>4, <2>1, <2>3, SaveTargetTyped DEF SaveInv
  <2> QED  BY <1>2, <2>2, <2>3
<1>8. BootInv'
  BY <1>4 DEF BootInv
<1> QED  BY <1>5, <1>6, <1>7, <1>8 DEF Base

\* A save that has programmed its last page leaves exactly its own table.
LEMMA SaveEndsBase ==
    ASSUME Base, SaveEnds PROVE Base' /\ ram'.entry = ram.entry /\ ram'.guard = ram.guard
<1>1. /\ call.at = "save" /\ call.pages = PagesOf(ram.entry)
      /\ ram' = [ram EXCEPT !.valid = TRUE] /\ known' = {ram.entry}
      /\ UNCHANGED <<sector, files, marked, calls, cuts>>
  BY DEF SaveEnds
<1>2. ram \in TableSet /\ Listed(ram.entry)
  BY DEF Base, TypeInv
<1>3. ram' \in TableSet /\ ram'.entry = ram.entry /\ ram'.guard = ram.guard
  BY <1>1, <1>2 DEF TableSet
<1>4. \/ call' = Mounting(1) /\ vfs' = [vfs EXCEPT !.attached = TRUE]
      \/ call' = Idle /\ vfs' = vfs
  BY DEF SaveEnds
<1>5. call'.at \in {"idle", "mount"} /\ CallTyped'
  <2>1. CASE call' = Mounting(1)
    BY <2>1, CallShapes DEF CallTyped
  <2>2. CASE call' = Idle
    BY <2>2, CallShapes DEF CallTyped
  <2> QED  BY <1>4, <2>1, <2>2
<1>6. VfsInv'
  <2>1. VfsInv
    BY DEF Base, TypeInv
  <2>2. CASE vfs' = [vfs EXCEPT !.attached = TRUE]
    <3>1. /\ vfs' = [attached |-> TRUE, used |-> vfs.used, mounted |-> vfs.mounted]
          /\ vfs'.attached = TRUE /\ vfs'.used = vfs.used /\ vfs'.mounted = vfs.mounted
      BY <2>1, <2>2 DEF VfsInv
    <3> QED  BY <2>1, <3>1 DEF VfsInv, Mounted
  <2>3. CASE vfs' = vfs
    BY <2>1, <2>3 DEF VfsInv, Mounted
  <2> QED  BY <1>4, <2>2, <2>3
<1>7. TypeInv'
  BY <1>1, <1>2, <1>3, <1>5, <1>6 DEF Base, TypeInv
<1>8. SectorInv'
  <2>1. PagesOf(ram.entry) \in Nat \ {0}
    BY <1>2, PagesOfBounds, SlotsAreNat
  <2>2. sector = Programmed(ram.entry, call.pages)
    BY <1>1, <2>1 DEF Base, SaveInv
  <2>3. Loadable(sector) => sector.slot = ram.entry
    BY <1>1, <1>2, <2>1, <2>2, ProgrammedTyped DEF Listed
  <2> QED  BY <1>1, <1>2, <2>3 DEF SectorInv
<1>9. SaveInv' /\ BootInv'
  BY <1>5 DEF SaveInv, BootInv
<1> QED  BY <1>3, <1>7, <1>8, <1>9 DEF Base

\* What a failed save leaves in RAM.
LEMMA SaveFailsBase ==
    ASSUME Base, SaveFails
    PROVE  /\ Base' /\ call' = Idle /\ UNCHANGED <<vfs, marked, known>>
           /\ ram'.guard = ram.guard
           /\ IF call.why = "create" THEN ram'.entry = SubSeq(ram.entry, 1, Len(ram.entry) - 1)
                                    ELSE ram'.entry = ram.entry
           /\ sector' \in SectorSet
           /\ Loadable(sector') => sector' = sector \/ sector'.slot = ram.entry
<1>1. /\ call.at = "save" /\ sector' \in Interrupted(sector, SaveTarget)
      /\ ram' = IF call.why = "create"
                THEN [ram EXCEPT !.entry = SubSeq(ram.entry, 1, Len(ram.entry) - 1)] ELSE ram
      /\ call' = Idle /\ UNCHANGED <<vfs, files, known, marked, calls, cuts>>
  BY DEF SaveFails
<1>2. ram \in TableSet /\ Listed(ram.entry) /\ sector \in SectorSet
  BY DEF Base, TypeInv
<1>3. Listed(SubSeq(ram.entry, 1, Len(ram.entry) - 1))
  <2>1. CASE ram.entry = << >>
    <3>1. Len(ram.entry) - 1 = -1
      BY <2>1
    <3>2. SubSeq(ram.entry, 1, Len(ram.entry) - 1) = << >>
      BY <3>1, SubSeqEmpty
    <3> QED  BY <3>2, NoTableTyped
  <2>2. CASE ram.entry # << >>
    BY <1>2, <2>2, DropListed
  <2> QED  BY <2>1, <2>2
<1>4. /\ ram' \in TableSet /\ Listed(ram'.entry) /\ ram'.guard = ram.guard
      /\ IF call.why = "create" THEN ram'.entry = SubSeq(ram.entry, 1, Len(ram.entry) - 1)
                                ELSE ram'.entry = ram.entry
  <2> DEFINE less == SubSeq(ram.entry, 1, Len(ram.entry) - 1)
  <2>1. less \in Seq(EntrySet)
    BY <1>3 DEF Listed
  <2>2. CASE call.why = "create"
    <3>1. ram' = [ram EXCEPT !.entry = less]
      BY <1>1, <2>2
    <3> HIDE DEF less
    <3>2. ram' \in TableSet /\ ram'.guard = ram.guard /\ ram'.entry = less
      BY <1>2, <2>1, <3>1 DEF TableSet
    <3> QED  BY <1>3, <2>2, <3>2 DEF less
  <2>3. CASE call.why # "create"
    BY <1>1, <1>2, <2>3
  <2> QED  BY <2>2, <2>3
<1>5. /\ sector' \in SectorSet
      /\ Loadable(sector') => sector' = sector \/ sector'.slot = ram.entry
  BY <1>1, <1>2, SaveTargetTyped, InterruptedTyped
<1>6. call'.at = "idle" /\ CallTyped'
  BY <1>1, CallShapes DEF CallTyped
<1>7. TypeInv'
  <2>1. VfsInv'
    BY <1>1 DEF Base, TypeInv, VfsInv, Mounted
  <2> QED  BY <1>1, <1>4, <1>5, <1>6, <2>1 DEF Base, TypeInv
<1>8. SectorInv'
  BY <1>1, <1>2, <1>5 DEF Base, SectorInv, SaveInv
<1>9. SaveInv' /\ BootInv'
  BY <1>6 DEF SaveInv, BootInv
<1> QED  BY <1>1, <1>4, <1>5, <1>7, <1>8, <1>9 DEF Base

LEMMA TableTyped ==
    ASSUME NEW entry, Listed(entry)
    PROVE  /\ Table(entry) \in TableSet /\ Table(entry).entry = entry
           /\ Table(entry).guard = [i \in 1..MaxEntries |-> FALSE]
<1>1. entry \in Seq(EntrySet)
  BY DEF Listed
<1> QED  BY <1>1 DEF Table, NoTable, TableSet

LEMMA BootLoadedBase ==
    ASSUME Base, BootLoaded PROVE Base'
<1>1. /\ call.at = "boot" /\ Loadable(sector) /\ ram' = Table(sector.slot)
      /\ vfs' = [vfs EXCEPT !.attached = TRUE] /\ call' = Mounting(1)
      /\ known' = {sector.slot} /\ UNCHANGED <<sector, files, marked, calls, cuts>>
  BY DEF BootLoaded
<1>2. Listed(sector.slot) /\ VfsInv
  BY <1>1 DEF Base, SectorInv, TypeInv
<1>3. call'.at = "mount" /\ CallTyped'
  BY <1>1, CallShapes DEF CallTyped
<1>4. VfsInv'
  <2>1. /\ vfs' = [attached |-> TRUE, used |-> vfs.used, mounted |-> vfs.mounted]
        /\ vfs'.attached = TRUE /\ vfs'.used = vfs.used /\ vfs'.mounted = vfs.mounted
    BY <1>1, <1>2 DEF VfsInv
  <2> QED  BY <1>2, <2>1 DEF VfsInv, Mounted
<1>5. TypeInv' /\ SectorInv'
  BY <1>1, <1>2, <1>3, <1>4, TableTyped DEF Base, TypeInv, SectorInv
<1> QED  BY <1>3, <1>5 DEF Base, SaveInv, BootInv

LEMMA BootMountBase ==
    ASSUME Base, BootMount PROVE Base'
<1> DEFINE e == ram.entry[call.next]
           r == Region(e)
<1>1. /\ call.at = "mount" /\ call' = Mounting(call.next + 1)
      /\ UNCHANGED <<sector, ram, known, marked, calls, cuts>>
      /\ \/ vfs' = vfs
         \/ SlotFor(e.label) /\ vfs' = WithMount(e.label, r)
         \/ SlotFor(e.label) /\ vfs' = WithSlot(e.label)
  BY DEF BootMount
<1>2. call'.at = "mount" /\ CallTyped'
  <2>1. call.next + 1 \in Nat \ {0}
    BY <1>1, CallIs DEF Base, TypeInv
  <2> QED  BY <1>1, <2>1, CallShapes DEF CallTyped
<1>3. VfsInv'
  <2>1. VfsInv
    BY DEF Base, TypeInv
  <2>2. CASE vfs' = vfs
    BY <2>1, <2>2 DEF VfsInv, Mounted
  <2> HIDE DEF e, r
  <2> QED  BY <1>1, <2>1, <2>2, WithMountKeeps, WithSlotKeeps
<1> QED  BY <1>1, <1>2, <1>3, QuietBase

LEMMA BootBase ==
    ASSUME Base, BootOffline \/ BootBlank \/ BootCorrupt \/ BootLoaded \/ BootMount \/ BootEnds
    PROVE  Base'
<1>1. CASE BootOffline \/ BootCorrupt \/ BootEnds
  <2>1. call' = Idle /\ UNCHANGED <<sector, ram, vfs, files, known, marked, calls, cuts>>
    BY <1>1 DEF BootOffline, BootCorrupt, BootEnds
  <2>2. call'.at = "idle" /\ CallTyped'
    BY <2>1, CallShapes DEF CallTyped
  <2>3. VfsInv'
    BY <2>1 DEF Base, TypeInv, VfsInv, Mounted
  <2> QED  BY <2>1, <2>2, <2>3, QuietBase
<1>2. CASE BootBlank
  <2> DEFINE t == [NoTable EXCEPT !.entry = DefaultLayout]
  <2>1. t \in TableSet /\ Listed(t.entry)
    BY NoTableTyped, DefaultListed DEF TableSet, Listed
  <2>2. EnterSave(t, "boot") /\ UNCHANGED <<sector, vfs, files, marked, calls, cuts>>
    BY <1>2 DEF BootBlank
  <2>3. calls' \in 0..MaxCalls /\ UNCHANGED cuts /\ "boot" \in Why
    BY <2>2 DEF Base, TypeInv, Why
  <2> HIDE DEF t
  <2> QED  BY <2>1, <2>2, <2>3, EnterSaveBase
<1> QED  BY <1>1, <1>2, BootLoadedBase, BootMountBase

LEMMA HostCallKeeps ==
    ASSUME Base, HostCall
    PROVE  /\ call.at = "idle" /\ calls' \in 0..MaxCalls /\ UNCHANGED <<vfs, cuts>>
           /\ VfsInv'
<1>1. call.at = "idle" /\ calls < MaxCalls /\ calls' = calls + 1 /\ UNCHANGED <<vfs, cuts>>
  BY DEF HostCall
<1>2. calls' \in 0..MaxCalls
  BY <1>1, BoundAssumption DEF Base, TypeInv
<1> QED  BY <1>1, <1>2 DEF Base, TypeInv, VfsInv, Mounted

\* What x_spiflash_part_create makes of the table.
LEMMA CreateEffect ==
    ASSUME Base, NEW label \in Labels, NEW lfs \in BOOLEAN, NEW size \in Sizes,
           NEW start \in Starts, Create(label, lfs, size, start)
    PROVE  \E e \in EntrySet :
              /\ e.label = label /\ e.size = RoundUp(size)
              /\ e.start = Placement(ram, start, e.size) /\ e.start # NoSpace
              /\ Len(ram.entry) \in Nat /\ Len(ram.entry) < MaxEntries
              /\ \A i \in 1..Len(ram.entry) : ram.entry[i].label # label
              /\ ram' \in TableSet /\ ram'.entry = Append(ram.entry, e) /\ Listed(ram'.entry)
              /\ ram'.guard = [ram.guard EXCEPT ![Len(ram.entry) + 1] = FALSE]
              /\ EnterSave(ram', "create") /\ call'.at = "save" /\ call'.why = "create"
              /\ marked' = marked /\ HostCall /\ sector' = sector
<1> DEFINE need == RoundUp(size)
           place == Placement(ram, start, need)
           e == Entry(label, lfs, place, need)
           t == Appended(ram, e)
<1>1. /\ Len(ram.entry) < MaxEntries /\ Find(ram, label) = {} /\ place # NoSpace
      /\ EnterSave(t, "create")
  BY DEF Create
<1>2. ram \in TableSet /\ Listed(ram.entry) /\ ram.entry \in Seq(EntrySet)
  BY DEF Base, TypeInv, Listed
<1>3. size \in Nat /\ start \in Nat
  BY RequestAssumption
<1>4. need \in Nat
  BY <1>3, RoundUpAligned
<1>5. place \in Nat
  <2> HIDE DEF need
  <2> QED  BY <1>1, <1>2, <1>3, <1>4, PlacementIsFree
<1> HIDE DEF need, place
<1>6. e \in EntrySet /\ e.label = label /\ e.start = place /\ e.size = need
  BY <1>4, <1>5 DEF Entry, EntrySet, LabelSet
<1>7. \A i \in 1..Len(ram.entry) : ram.entry[i].label # label
  BY <1>1 DEF Find
<1> HIDE DEF e
<1>8. Listed(Append(ram.entry, e)) /\ Append(ram.entry, e) \in Seq(EntrySet)
  <2>1. Listed(Append(ram.entry, e))
    BY <1>1, <1>2, <1>6, <1>7, AppendListed
  <2> QED  BY <2>1 DEF Listed
<1>9. Len(ram.entry) \in Nat /\ Len(ram.entry) + 1 \in 1..MaxEntries
  BY <1>1, <1>2, SlotsAreNat
<1>10. /\ t \in TableSet /\ t.entry = Append(ram.entry, e)
       /\ t.guard = [ram.guard EXCEPT ![Len(ram.entry) + 1] = FALSE]
  <2> DEFINE a == Append(ram.entry, e)
             g == [ram.guard EXCEPT ![Len(ram.entry) + 1] = FALSE]
  <2>1. t = [ram EXCEPT !.entry = a, !.guard = g]
    BY DEF Appended
  <2>2. a \in Seq(EntrySet) /\ g \in [1..MaxEntries -> BOOLEAN]
    BY <1>2, <1>8 DEF TableSet
  <2> HIDE DEF a, g, t
  <2>3. t \in TableSet /\ t.entry = a /\ t.guard = g
    BY <1>2, <2>1, <2>2 DEF TableSet
  <2> QED  BY <2>3 DEF a, g
<1>11. marked' = marked /\ HostCall /\ sector' = sector
  BY DEF Create
<1> HIDE DEF t
<1>12. ram' = t /\ call'.at = "save" /\ call'.why = "create"
  BY <1>1, CallShapes DEF EnterSave
<1>13. need = RoundUp(size) /\ place = Placement(ram, start, need)
  BY DEF need, place
<1> QED  BY <1>1, <1>6, <1>7, <1>8, <1>9, <1>10, <1>11, <1>12, <1>13

LEMMA CreateBase ==
    ASSUME Base, NEW label \in Labels, NEW lfs \in BOOLEAN, NEW size \in Sizes,
           NEW start \in Starts, Create(label, lfs, size, start)
    PROVE  Base'
<1>1. /\ ram' \in TableSet /\ Listed(ram'.entry) /\ EnterSave(ram', "create")
      /\ HostCall /\ UNCHANGED sector
  BY CreateEffect
<1>2. "create" \in Why
  BY DEF Why
<1> DEFINE t == ram'
<1>3. t \in TableSet /\ Listed(t.entry) /\ EnterSave(t, "create")
  BY <1>1
<1> HIDE DEF t
<1> QED  BY <1>1, <1>2, <1>3, HostCallKeeps, EnterSaveBase

LEMMA DeleteBase ==
    ASSUME Base, NEW label \in Labels, Delete(label) PROVE Base'
<1>1. /\ HostCall /\ UNCHANGED sector
      /\ \E i \in 1..Len(ram.entry) : EnterSave(Without(ram, i), "delete")
  BY DEF Delete, Find
<1>2. PICK i \in 1..Len(ram.entry) : EnterSave(Without(ram, i), "delete")
  BY <1>1
<1>3. Without(ram, i) \in TableSet /\ Listed(Without(ram, i).entry) /\ "delete" \in Why
  BY WithoutListed DEF Base, TypeInv, Why
<1> QED  BY <1>1, <1>2, <1>3, HostCallKeeps, EnterSaveBase

LEMMA ReplaceBase ==
    ASSUME Base, NEW entry, Listed(entry), NEW why \in Why, Replace(entry, why)
    PROVE  /\ Base' /\ call'.at = "save" /\ call'.why = why
           /\ ram'.entry = entry /\ ram'.guard = [i \in 1..MaxEntries |-> FALSE]
<1> DEFINE t == [ram EXCEPT !.entry = entry, !.guard = NoTable.guard]
<1>1. HostCall /\ UNCHANGED sector /\ EnterSave(t, why)
  BY DEF Replace
<1>2. NoTable.guard = [i \in 1..MaxEntries |-> FALSE]
  BY DEF NoTable
<1>3. entry \in Seq(EntrySet) /\ ram \in TableSet
  BY DEF Listed, Base, TypeInv
<1>4. t \in TableSet /\ t.entry = entry /\ t.guard = [i \in 1..MaxEntries |-> FALSE]
  BY <1>2, <1>3 DEF TableSet
<1> HIDE DEF t
<1>5. Base' /\ ram' = t /\ call'.at = "save" /\ call'.why = why
  BY <1>1, <1>4, HostCallKeeps, EnterSaveBase
<1> QED  BY <1>4, <1>5

LEMMA LoadBase ==
    ASSUME Base, Load PROVE Base'
<1>1. /\ HostCall /\ UNCHANGED <<sector, call>>
      /\ \/ Loadable(sector) /\ ram' = Table(sector.slot) /\ known' = {sector.slot}
         \/ ram' = NoTable /\ UNCHANGED known
  BY DEF Load
<1>2. ram' \in TableSet /\ Listed(ram'.entry)
  BY <1>1, TableTyped, NoTableTyped DEF Base, SectorInv
<1>3. call'.at = "idle" /\ CallTyped'
  BY <1>1, HostCallKeeps DEF Base, TypeInv, CallTyped
<1>4. TypeInv'
  BY <1>1, <1>2, <1>3, HostCallKeeps DEF Base, TypeInv
<1>5. SectorInv'
  BY <1>1 DEF Base, SectorInv
<1> QED  BY <1>3, <1>4, <1>5 DEF Base, SaveInv, BootInv

LEMMA EraseBase ==
    ASSUME Base, NEW label, Erase(label)
    PROVE  /\ Base' /\ UNCHANGED <<ram, call, known, marked, vfs>>
           /\ Loadable(sector') => sector' = sector
<1>1. /\ HostCall /\ UNCHANGED <<ram, call, known, marked>>
      /\ sector' \in {sector, Blank} \union Interrupted(sector, Blank)
  BY DEF Erase
<1>2. sector' \in SectorSet /\ (Loadable(sector') => sector' = sector)
  <2>1. sector \in SectorSet
    BY DEF Base, TypeInv
  <2> QED  BY <1>1, <2>1, BlankTornTyped, InterruptedTyped
<1>3. call'.at = "idle" /\ CallTyped'
  BY <1>1, HostCallKeeps DEF Base, TypeInv, CallTyped
<1>4. TypeInv'
  BY <1>1, <1>2, <1>3, HostCallKeeps DEF Base, TypeInv
<1>5. SectorInv'
  BY <1>1, <1>2 DEF Base, SectorInv
<1> QED  BY <1>1, <1>2, <1>3, <1>4, <1>5, HostCallKeeps DEF Base, SaveInv, BootInv

LEMMA SetMountedBase ==
    ASSUME Base, NEW label, NEW on \in BOOLEAN, SetMounted(label, on) PROVE Base'
<1>1. /\ call.at = "idle" /\ UNCHANGED <<sector, vfs, files, call, known, calls, cuts>>
      /\ \E i \in 1..Len(ram.entry) : ram' = [ram EXCEPT !.guard[i] = on]
  BY DEF SetMounted, Find
<1>2. PICK i \in 1..Len(ram.entry) : ram' = [ram EXCEPT !.guard[i] = on]
  BY <1>1
<1>3. ram' \in TableSet /\ ram'.entry = ram.entry
  BY <1>2 DEF Base, TypeInv, TableSet
<1>4. call'.at = "idle" /\ CallTyped'
  BY <1>1 DEF Base, TypeInv, CallTyped
<1>5. TypeInv'
  <2>1. VfsInv'
    BY <1>1 DEF Base, TypeInv, VfsInv, Mounted
  <2> QED  BY <1>1, <1>3, <1>4, <2>1 DEF Base, TypeInv
<1>6. SectorInv'
  BY <1>1 DEF Base, SectorInv
<1> QED  BY <1>4, <1>5, <1>6 DEF Base, SaveInv, BootInv

LEMMA VfsBase ==
    ASSUME Base, NEW label,
           VfsMount(label) \/ VfsUnmount(label) \/ VfsFormat(label) \/ WriteFile(label)
    PROVE  Base'
<1>1. call.at = "idle" /\ UNCHANGED <<sector, ram, call, known, marked, calls, cuts>>
  BY DEF VfsMount, VfsUnmount, VfsFormat, WriteFile, VfsCall
<1>2. call'.at = "idle" /\ CallTyped'
  BY <1>1 DEF Base, TypeInv, CallTyped
<1>3. VfsInv
  BY DEF Base, TypeInv
<1>4. VfsInv'
  <2>1. CASE VfsMount(label)
    <3>1. SlotFor(label) /\ \/ \E r : vfs' = WithMount(label, r)
                            \/ vfs' = WithSlot(label)
      BY <2>1 DEF VfsMount
    <3> QED  BY <1>3, <3>1, WithMountKeeps, WithSlotKeeps
  <2>2. CASE VfsUnmount(label)
    BY <1>3, <2>2, UnmountKeeps DEF VfsUnmount
  <2>3. CASE VfsFormat(label)
    BY <1>3, <2>3, WithSlotKeeps DEF VfsFormat
  <2>4. CASE WriteFile(label)
    BY <1>3, <2>4 DEF WriteFile, VfsInv, Mounted
  <2> QED  BY <2>1, <2>2, <2>3, <2>4
<1> QED  BY <1>1, <1>2, <1>4, QuietBase

LEMMA PowerCutBase ==
    ASSUME Base, PowerCut
    PROVE  Base' /\ (Loadable(sector') => sector' = sector \/ sector'.slot = ram.entry)
<1>1. /\ cuts < MaxCuts /\ cuts' = cuts + 1 /\ UNCHANGED <<files, known, calls>>
      /\ ram' = NoTable /\ vfs' = NoVfs /\ call' = Booting /\ marked' = {}
      /\ \/ sector' = sector
         \/ call.at = "save" /\ sector' \in Interrupted(sector, SaveTarget)
  BY DEF PowerCut
<1>2. sector \in SectorSet
  BY DEF Base, TypeInv
<1>3. /\ sector' \in SectorSet
      /\ Loadable(sector') => \/ sector' = sector
                              \/ sector'.slot = ram.entry /\ call.at = "save"
  BY <1>1, <1>2, SaveTargetTyped, InterruptedTyped
<1>4. call'.at = "boot" /\ CallTyped'
  BY <1>1, CallShapes DEF CallTyped
<1>5. cuts' \in 0..MaxCuts
  BY <1>1, BoundAssumption DEF Base, TypeInv
<1>6. TypeInv'
  BY <1>1, <1>3, <1>4, <1>5, NoTableTyped, NoVfsInv DEF Base, TypeInv
<1>7. SectorInv'
  BY <1>1, <1>3 DEF Base, TypeInv, SectorInv, SaveInv
<1> QED  BY <1>1, <1>3, <1>4, <1>6, <1>7 DEF Base, SaveInv, BootInv

LEMMA HostBase ==
    ASSUME Base, Provision \/ Format \/ Load \/ HostNext PROVE Base'
<1>1. CASE Provision
  <2>1. Replace(DefaultLayout, "provision") /\ "provision" \in Why
    BY <1>1 DEF Provision, Why
  <2> QED  BY <2>1, DefaultListed, ReplaceBase
<1>2. CASE Format
  <2>1. Replace(<< >>, "format") /\ "format" \in Why /\ Listed(<< >>)
    BY <1>2, NoTableTyped DEF Format, Why
  <2> QED  BY <2>1, ReplaceBase
<1>3. CASE HostNext
  BY <1>3, EraseBase, CreateBase, DeleteBase, SetMountedBase, VfsBase DEF HostNext
<1> QED  BY <1>1, <1>2, <1>3, LoadBase

LEMMA InitBase == ASSUME Init PROVE Base
<1>1. /\ sector = Blank /\ ram = NoTable /\ vfs = NoVfs /\ call = Booting
      /\ known = {} /\ marked = {} /\ calls = 0 /\ cuts = 0
  BY DEF Init
<1>2. call.at = "boot" /\ CallTyped
  BY <1>1, CallShapes DEF CallTyped
<1>3. VfsInv
  <2>1. vfs = [attached |-> FALSE, used |-> {}, mounted |-> << >>]
        /\ vfs.used = {} /\ vfs.mounted = << >> /\ vfs.attached = FALSE
    BY <1>1 DEF NoVfs
  <2>2. DOMAIN << >> = {} /\ << >> = [l \in {} |-> << >>[l]]
    OBVIOUS
  <2>3. IsFiniteSet({}) /\ Cardinality({}) = 0
    BY FS_EmptySet
  <2> QED  BY <2>1, <2>2, <2>3, SlotsAreNat DEF VfsInv, Mounted
<1>4. TypeInv
  BY <1>1, <1>2, <1>3, NoTableTyped, BlankTornTyped, BoundAssumption DEF TypeInv
<1> QED  BY <1>1, <1>2, <1>4, BlankTornTyped DEF Base, SectorInv, SaveInv, BootInv

LEMMA NextBase == ASSUME Base, [Next]_vars PROVE Base'
<1>1. CASE UNCHANGED vars
  BY <1>1 DEF vars, Base, TypeInv, SectorInv, SaveInv, BootInv, CallTyped, VfsInv, Mounted
<1> QED  BY <1>1, SaveStepBase, SaveEndsBase, SaveFailsBase, BootBase, HostBase, PowerCutBase
         DEF Next

\* The part of the invariant that needs nothing of the host.
THEOREM FlashBase == Spec => []Base
<1>1. Init => Base
  BY InitBase
<1>2. Base /\ [Next]_vars => Base'
  BY NextBase
<1> QED  BY <1>1, <1>2, PTL DEF Spec

\* Wherever power went or an erase or a program failed, what a load accepts is
\* the table last saved or loaded, or one whose save was under way since.
THEOREM FlashLoadIsKnownTable == Spec => []LoadIsKnownTable
<1>1. Base => LoadIsKnownTable
  BY DEF Base, SectorInv, LoadIsKnownTable
<1> QED  BY <1>1, FlashBase, PTL

----------------------------------------------------------------------------
(* The mounted guard stays with its label.                                 *)

Guarded(t) == {t.entry[i].label : i \in {k \in 1..Len(t.entry) : t.guard[k]}}

LEMMA GuardKept ==
    ASSUME GuardInv, ram'.entry = ram.entry, ram'.guard = ram.guard, marked' = marked,
           call'.at = "save" /\ call'.why = "create" =>
              call.at = "save" /\ call.why = "create"
    PROVE  GuardInv'
<1>1. GuardFollowsLabel'
  BY DEF GuardInv, GuardFollowsLabel
<1>2. call'.at = "save" /\ call'.why = "create" =>
          ram'.entry # << >> /\ ~ram'.guard[Len(ram'.entry)]
  BY DEF GuardInv
<1> QED  BY <1>1, <1>2 DEF GuardInv

\* No guard is up and nothing is marked.
LEMMA GuardsDown ==
    ASSUME ram' \in TableSet, ram'.guard = [i \in 1..MaxEntries |-> FALSE],
           Listed(ram'.entry), marked' = {},
           ~(call'.at = "save" /\ call'.why = "create")
    PROVE  GuardInv'
<1>1. \A k \in 1..Len(ram'.entry) : ~ram'.guard[k]
  BY SlotsAreNat DEF Listed
<1> QED  BY <1>1 DEF GuardInv, GuardFollowsLabel

LEMMA CreateGuard ==
    ASSUME Base, GuardInv, NEW label \in Labels, NEW lfs \in BOOLEAN, NEW size \in Sizes,
           NEW start \in Starts, Create(label, lfs, size, start)
    PROVE  GuardInv'
<1> DEFINE n == Len(ram.entry)
<1>1. PICK e \in EntrySet :
         /\ n \in Nat /\ n < MaxEntries
         /\ ram'.entry = Append(ram.entry, e)
         /\ ram'.guard = [ram.guard EXCEPT ![n + 1] = FALSE]
         /\ marked' = marked
  BY CreateEffect
<1>3. Listed(ram.entry) /\ ram \in TableSet /\ ram.guard \in [1..MaxEntries -> BOOLEAN]
  BY DEF Base, TypeInv, TableSet
<1> HIDE DEF n
<1>4. /\ Len(ram'.entry) = n + 1 /\ ram'.entry[n + 1] = e
      /\ \A i \in 1..n : ram'.entry[i] = ram.entry[i]
  BY <1>1, <1>3 DEF Listed, n
<1>5. ~ram'.guard[n + 1] /\ \A i \in 1..n : ram'.guard[i] = ram.guard[i]
  <2>1. n + 1 \in 1..MaxEntries /\ \A i \in 1..n : i \in 1..MaxEntries /\ i # n + 1
    BY <1>1, SlotsAreNat
  <2> DEFINE g == ram.guard
             h == ram'.guard
  <2>2. g \in [1..MaxEntries -> BOOLEAN] /\ h = [g EXCEPT ![n + 1] = FALSE]
    BY <1>1, <1>3
  <2> HIDE DEF g, h
  <2>3. ~h[n + 1] /\ \A i \in 1..n : h[i] = g[i]
    BY <2>1, <2>2
  <2> QED  BY <2>3 DEF g, h
<1>6. GuardFollowsLabel'
  <2>1. Guarded(ram)' = Guarded(ram)
    <3>1. {k \in 1..(n + 1) : ram'.guard[k]} = {k \in 1..n : ram.guard[k]}
      BY <1>1, <1>5
    <3> QED  BY <1>4, <3>1 DEF Guarded, n
  <2> QED  BY <1>1, <2>1 DEF Guarded, GuardInv, GuardFollowsLabel
<1>7. ram'.entry # << >>
  BY <1>1, <1>4
<1> QED  BY <1>4, <1>5, <1>6, <1>7 DEF GuardInv

LEMMA DeleteGuard ==
    ASSUME Base, GuardInv, NEW label, Delete(label) PROVE GuardInv'
<1>1. PICK i \in 1..Len(ram.entry) :
          ~ram.guard[i] /\ EnterSave(Without(ram, i), "delete")
  BY DEF Delete, Find
<1> DEFINE n == Len(ram.entry)
           t == Without(ram, i)
           From(j) == IF j < i THEN j ELSE j + 1
<1>2. ram' = t /\ marked' = marked /\ call'.why = "delete"
  BY <1>1, CallShapes DEF EnterSave, Delete
<1>3. ram \in TableSet /\ Listed(ram.entry) /\ n \in Nat
  BY DEF Base, TypeInv, Listed
<1>4. /\ Len(t.entry) = n - 1
      /\ \A j \in 1..(n - 1) : /\ From(j) \in 1..n
                                /\ t.entry[j] = ram.entry[From(j)]
                                /\ t.guard[j] = ram.guard[From(j)]
  BY <1>3, WithoutListed
<1>5. \A k \in 1..n : k # i => \E j \in 1..(n - 1) : k = From(j)
  <2> TAKE k \in 1..n
  <2> HAVE k # i
  <2>1. CASE k < i
    BY <1>3, <2>1
  <2>2. CASE k > i
    <3>1. k - 1 \in 1..(n - 1) /\ From(k - 1) = k
      BY <1>3, <2>2
    <3> QED  BY <3>1
  <2> QED  BY <2>1, <2>2
<1> HIDE DEF t, From, n
<1>6. Guarded(t) = Guarded(ram)
  <2>1. ASSUME NEW l \in Guarded(t) PROVE l \in Guarded(ram)
    <3>1. PICK j \in 1..(n - 1) : t.guard[j] /\ l = t.entry[j].label
      BY <1>4, <2>1 DEF Guarded
    <3>2. From(j) \in 1..n /\ ram.guard[From(j)] /\ l = ram.entry[From(j)].label
      BY <1>4, <3>1
    <3> QED  BY <3>2 DEF Guarded, n
  <2>2. ASSUME NEW l \in Guarded(ram) PROVE l \in Guarded(t)
    <3>1. PICK k \in 1..n : ram.guard[k] /\ l = ram.entry[k].label
      BY <2>2 DEF Guarded, n
    <3>2. PICK j \in 1..(n - 1) : k = From(j)
      BY <1>1, <1>5, <3>1 DEF n
    <3>3. t.guard[j] /\ l = t.entry[j].label
      BY <1>4, <3>1, <3>2
    <3> QED  BY <1>4, <3>3 DEF Guarded
  <2> QED  BY <2>1, <2>2
<1>7. GuardFollowsLabel'
  BY <1>2, <1>6 DEF Guarded, GuardInv, GuardFollowsLabel
<1> QED  BY <1>2, <1>7 DEF GuardInv

LEMMA SetMountedGuard ==
    ASSUME Base, GuardInv, NEW label, NEW on \in BOOLEAN, SetMounted(label, on)
    PROVE  GuardInv'
<1>1. PICK i \in 1..Len(ram.entry) :
          ram.entry[i].label = label /\ ram' = [ram EXCEPT !.guard[i] = on]
  BY DEF SetMounted, Find
<1>2. /\ marked' = IF on THEN marked \union {label} ELSE marked \ {label}
      /\ call' = call /\ call.at = "idle"
  BY DEF SetMounted
<1>3. ram \in TableSet /\ Listed(ram.entry) /\ i \in 1..MaxEntries
  BY SlotsAreNat DEF Base, TypeInv, Listed
<1>4. ram'.entry = ram.entry /\ ram'.guard = [ram.guard EXCEPT ![i] = on]
  BY <1>1, <1>3 DEF TableSet
<1>5. \A k \in 1..Len(ram.entry) : /\ ram'.guard[k] <=> IF k = i THEN on ELSE ram.guard[k]
                                   /\ ram.entry[k].label = label <=> k = i
  BY <1>1, <1>3, <1>4, SlotsAreNat DEF Listed, TableSet
<1>6. Guarded(ram)' = IF on THEN Guarded(ram) \union {label} ELSE Guarded(ram) \ {label}
  BY <1>1, <1>4, <1>5 DEF Guarded
<1>7. GuardFollowsLabel'
  BY <1>2, <1>6 DEF Guarded, GuardInv, GuardFollowsLabel
<1> QED  BY <1>2, <1>7 DEF GuardInv

\* A failed create takes back the last entry, whose guard is down.
LEMMA SaveFailsGuard ==
    ASSUME Base, GuardInv, SaveFails PROVE GuardInv'
<1>1. /\ call' = Idle /\ marked' = marked /\ ram'.guard = ram.guard
      /\ IF call.why = "create" THEN ram'.entry = SubSeq(ram.entry, 1, Len(ram.entry) - 1)
                               ELSE ram'.entry = ram.entry
  BY SaveFailsBase
<1>2. call'.at = "idle" /\ call.at = "save"
  BY <1>1, CallShapes DEF SaveFails
<1>3. CASE call.why # "create"
  <2>1. ram'.entry = ram.entry
    BY <1>1, <1>3
  <2>2. ~(call'.at = "save")
    BY <1>2
  <2> QED  BY <1>1, <2>1, <2>2, GuardKept
<1>4. CASE call.why = "create"
  <2> DEFINE n == Len(ram.entry)
  <2>1. ram.entry # << >> /\ ~ram.guard[n] /\ Listed(ram.entry)
    BY <1>2, <1>4 DEF GuardInv, Base, TypeInv
  <2>2. /\ n \in Nat \ {0} /\ Len(ram'.entry) = n - 1
        /\ \A i \in 1..(n - 1) : ram'.entry[i] = ram.entry[i]
    <3>1. n \in Nat \ {0}
      BY <2>1, EmptySeq DEF Listed
    <3> QED  BY <1>1, <1>4, <2>1, <3>1, DropListed
  <2>3. {k \in 1..(n - 1) : ram'.guard[k]} = {k \in 1..n : ram.guard[k]}
    BY <1>1, <2>1, <2>2
  <2>4. Guarded(ram)' = Guarded(ram)
    BY <2>2, <2>3 DEF Guarded
  <2>5. GuardFollowsLabel'
    BY <1>1, <2>4 DEF Guarded, GuardInv, GuardFollowsLabel
  <2> QED  BY <1>2, <2>5 DEF GuardInv
<1> QED  BY <1>3, <1>4

LEMMA NextGuard ==
    ASSUME Base, GuardInv, [Next]_vars PROVE GuardInv'
<1>1. CASE SaveStep
  BY <1>1, CallIs, CallShapes, GuardKept DEF SaveStep, Base, TypeInv
<1>2. CASE SaveEnds
  <2>1. call'.at \in {"idle", "mount"} /\ marked' = marked
    BY <1>2, CallShapes DEF SaveEnds
  <2>2. ram'.entry = ram.entry /\ ram'.guard = ram.guard /\ ~(call'.at = "save")
    BY <1>2, <2>1, SaveEndsBase
  <2> QED  BY <2>1, <2>2, GuardKept
<1>3. CASE BootOffline \/ BootCorrupt \/ BootMount \/ BootEnds
  <2>1. call'.at \in {"idle", "mount"} /\ marked' = marked /\ ram' = ram
    BY <1>3, CallShapes DEF BootOffline, BootCorrupt, BootMount, BootEnds
  <2>2. ram'.entry = ram.entry /\ ram'.guard = ram.guard /\ ~(call'.at = "save")
    BY <2>1
  <2> QED  BY <2>1, <2>2, GuardKept
<1>4. CASE BootBlank \/ BootLoaded \/ Load \/ PowerCut
  <2>1. Base'
    BY <1>4, NextBase DEF Next
  <2>2. /\ marked' = {} /\ ram'.guard = [i \in 1..MaxEntries |-> FALSE]
        /\ ~(call'.at = "save" /\ call'.why = "create")
    <3>1. CASE BootBlank
      <4>1. ram' = [NoTable EXCEPT !.entry = DefaultLayout] /\ call' = Saving("boot", NotErased)
            /\ marked' = {}
        BY <3>1 DEF BootBlank, EnterSave, Base, BootInv
      <4> QED  BY <4>1, CallShapes DEF NoTable
    <3>2. CASE BootLoaded
      <4>1. ram' = Table(sector.slot) /\ call' = Mounting(1) /\ marked' = {}
        BY <3>2 DEF BootLoaded, Base, BootInv
      <4> QED  BY <4>1, CallShapes DEF Table, NoTable
    <3>3. CASE Load
      <4>1. call' = call /\ marked' = {} /\ call.at = "idle"
        BY <3>3 DEF Load, HostCall
      <4>2. ram' = Table(sector.slot) \/ ram' = NoTable
        BY <3>3 DEF Load
      <4>3. NoTable.guard = [i \in 1..MaxEntries |-> FALSE]
        BY DEF NoTable
      <4>4. Table(sector.slot).guard = NoTable.guard
        BY DEF Table, NoTable
      <4> QED  BY <4>1, <4>2, <4>3, <4>4
    <3>4. CASE PowerCut
      BY <3>4, CallShapes DEF PowerCut, NoTable
    <3> QED  BY <1>4, <3>1, <3>2, <3>3, <3>4
  <2> QED  BY <2>1, <2>2, GuardsDown DEF Base, TypeInv
<1>5. CASE Provision \/ Format
  <2>1. /\ Base' /\ call'.why # "create" /\ ram'.guard = [i \in 1..MaxEntries |-> FALSE]
        /\ marked' = {}
    BY <1>5, ReplaceBase, DefaultListed, NoTableTyped DEF Provision, Format, Replace, Why
  <2> QED  BY <2>1, GuardsDown DEF Base, TypeInv
<1>6. CASE HostNext
  <2>1. ASSUME NEW label, Erase(label) PROVE GuardInv'
    BY <2>1, EraseBase, GuardKept
  <2>2. ASSUME NEW label,
               VfsMount(label) \/ VfsUnmount(label) \/ VfsFormat(label) \/ WriteFile(label)
        PROVE  GuardInv'
    BY <2>2, GuardKept DEF VfsMount, VfsUnmount, VfsFormat, WriteFile, VfsCall
  <2> QED  BY <1>6, <2>1, <2>2, CreateGuard, DeleteGuard, SetMountedGuard DEF HostNext
<1>7. CASE UNCHANGED vars
  BY <1>7, GuardKept DEF vars
<1> QED  BY <1>1, <1>2, <1>3, <1>4, <1>5, <1>6, <1>7, SaveFailsGuard DEF Next

LEMMA InitGuard == ASSUME Init PROVE GuardInv
<1>1. call.at = "boot" /\ marked = {} /\ Len(ram.entry) = 0
  BY CallShapes DEF Init, NoTable
<1> QED  BY <1>1 DEF GuardInv, GuardFollowsLabel

\* delete and erase refuse exactly the labels that were marked mounted and not
\* released since, wherever compaction has moved their entries.
THEOREM FlashGuardFollowsLabel == Spec => []GuardFollowsLabel
<1>1. Init => GuardInv
  BY InitGuard
<1>2. Base /\ GuardInv /\ [Next]_vars => GuardInv'
  BY NextGuard
<1>3. GuardInv => GuardFollowsLabel
  BY DEF GuardInv
<1> QED  BY <1>1, <1>2, <1>3, FlashBase, PTL DEF Spec

----------------------------------------------------------------------------
(* Partitions share no flash, as long as no request is so large that a     *)
(* 32-bit sum of the code wraps.                                           *)

RequestsFit ==
    \A size \in Sizes :
        /\ Cap + size + SectorSize <= Wide
        /\ \A start \in Starts : start + size + SectorSize <= Wide

\* On whole sectors of the device, and off sector 0 unless it is its own entry.
WellPlaced(e) ==
    /\ Aligned(e.start) /\ Aligned(e.size) /\ e.start + e.size <= Cap
    /\ e.start < SectorSize => e.label = "spiflash0" /\ e.size = SectorSize

Placed(entry) ==
    \A i, j \in 1..Len(entry) :
        WellPlaced(entry[i]) /\ (i # j => Apart(entry[i], entry[j]))

PlaceInv == Placed(ram.entry) /\ (Loadable(sector) => Placed(sector.slot))

LEMMA PlacedEnd ==
    ASSUME NEW e \in EntrySet, WellPlaced(e) PROVE End(e) = e.start + e.size /\ End(e) <= Cap
<1>1. e.start + e.size \in Nat /\ e.start + e.size <= Cap
  BY DEF EntrySet, WellPlaced
<1> QED  BY <1>1, GeometryIsNat DEF End

\* Where create puts an entry is on whole sectors, off sector 0, and clear of
\* every other entry.
LEMMA NewEntryPlaced ==
    ASSUME RequestsFit, NEW t, Listed(t.entry), Placed(t.entry),
           NEW size \in Sizes, NEW start \in Starts, NEW x \in EntrySet,
           x.size = RoundUp(size), x.start = Placement(t, start, x.size),
           x.start # NoSpace
    PROVE  /\ WellPlaced(x) /\ \A i \in 1..Len(t.entry) : Apart(t.entry[i], x) /\ Apart(x, t.entry[i])
<1> DEFINE need == x.size
           place == x.start
<1>1. /\ size \in Nat \ {0} /\ start \in Nat /\ t.entry \in Seq(EntrySet)
      /\ need \in Nat /\ place \in Nat
  BY RequestAssumption DEF Listed, EntrySet
<1>2. Aligned(need) /\ need < size + SectorSize
  <2>1. size + SectorSize <= Wide
    BY <1>1, GeometryIsNat DEF RequestsFit
  <2> QED  BY <1>1, <2>1, RoundUpAligned
<1>3. /\ place >= SectorSize /\ (place + need) % Wide <= Cap /\ Blockers(t, place, need) = {}
      /\ \/ place <= start /\ Aligned(place)
         \/ place = SectorSize
         \/ \E i \in 1..Len(t.entry) : place = End(t.entry[i])
  BY <1>1, PlacementIsFree
<1>4. \A i \in 1..Len(t.entry) : /\ t.entry[i] \in EntrySet /\ WellPlaced(t.entry[i])
                                 /\ End(t.entry[i]) = t.entry[i].start + t.entry[i].size
                                 /\ End(t.entry[i]) <= Cap
  BY <1>1, PlacedEnd DEF Placed
<1>5. Aligned(place) /\ place + need < Wide
  <2>1. CASE place <= start /\ Aligned(place)
    <3>1. start + size + SectorSize <= Wide
      BY DEF RequestsFit
    <3> QED  BY <1>1, <1>2, <2>1, <3>1, GeometryIsNat
  <2>2. CASE place = SectorSize
    <3>1. Aligned(1 * SectorSize) /\ 1 * SectorSize = SectorSize
      BY AlignedProduct, GeometryIsNat
    <3>2. SectorSize <= Cap
      BY GeometryIsNat DEF Cap
    <3>3. Cap + size + SectorSize <= Wide
      BY DEF RequestsFit
    <3> QED  BY <1>1, <1>2, <2>2, <3>1, <3>2, <3>3, GeometryIsNat
  <2>3. CASE \E i \in 1..Len(t.entry) : place = End(t.entry[i])
    <3>1. PICK i \in 1..Len(t.entry) : place = End(t.entry[i])
      BY <2>3
    <3>2. /\ place = t.entry[i].start + t.entry[i].size /\ place <= Cap
          /\ t.entry[i].start \in Nat /\ t.entry[i].size \in Nat
          /\ Aligned(t.entry[i].start) /\ Aligned(t.entry[i].size)
      BY <1>4, <3>1 DEF EntrySet, WellPlaced
    <3>3. Aligned(place)
      BY <3>2, AlignedSum
    <3>4. Cap + size + SectorSize <= Wide
      BY DEF RequestsFit
    <3> QED  BY <1>1, <1>2, <3>2, <3>3, <3>4, GeometryIsNat
  <2> QED  BY <1>3, <2>1, <2>2, <2>3
<1>6. (place + need) % Wide = place + need
  BY <1>1, <1>5, GeometryIsNat
<1>7. WellPlaced(x)
  BY <1>1, <1>2, <1>3, <1>5, <1>6, GeometryIsNat DEF WellPlaced
<1>8. ASSUME NEW i \in 1..Len(t.entry)
      PROVE  Apart(t.entry[i], x) /\ Apart(x, t.entry[i])
  <2>1. ~(place < End(t.entry[i]) /\ place + need > t.entry[i].start)
    BY <1>3, <1>6 DEF Blockers
  <2>2. t.entry[i].start \in Nat /\ t.entry[i].size \in Nat
        /\ End(t.entry[i]) = t.entry[i].start + t.entry[i].size
    BY <1>4 DEF EntrySet
  <2> QED  BY <1>1, <2>1, <2>2 DEF Apart
<1> QED  BY <1>7, <1>8

LEMMA CreatePlaced ==
    ASSUME RequestsFit, Base, PlaceInv, NEW label \in Labels, NEW lfs \in BOOLEAN,
           NEW size \in Sizes, NEW start \in Starts, Create(label, lfs, size, start)
    PROVE  PlaceInv'
<1> DEFINE n == Len(ram.entry)
<1>1. PICK e \in EntrySet :
         /\ e.size = RoundUp(size) /\ e.start = Placement(ram, start, e.size)
         /\ e.start # NoSpace /\ n \in Nat /\ n < MaxEntries
         /\ ram'.entry = Append(ram.entry, e) /\ sector' = sector
  BY CreateEffect
<1>2. Listed(ram.entry)
  BY DEF Base, TypeInv
<1>3. /\ Len(ram'.entry) = n + 1 /\ ram'.entry[n + 1] = e
      /\ \A i \in 1..n : ram'.entry[i] = ram.entry[i]
  BY <1>1, <1>2, AppendListed
<1>4. WellPlaced(e) /\ \A i \in 1..n : Apart(ram.entry[i], e) /\ Apart(e, ram.entry[i])
  BY <1>1, <1>2, NewEntryPlaced DEF PlaceInv
<1> HIDE DEF n
<1>5. Placed(ram'.entry)
  <2>1. \A i \in 1..(n + 1) : i = n + 1 \/ i \in 1..n
    BY <1>1
  <2>2. \A i, j \in 1..n : WellPlaced(ram.entry[i])
                           /\ (i # j => Apart(ram.entry[i], ram.entry[j]))
    BY DEF PlaceInv, Placed, n
  <2> QED  BY <1>3, <1>4, <2>1, <2>2 DEF Placed
<1> QED  BY <1>1, <1>5 DEF PlaceInv

LEMMA DeletePlaced ==
    ASSUME Base, PlaceInv, NEW label, Delete(label) PROVE PlaceInv'
<1>1. PICK i \in 1..Len(ram.entry) : EnterSave(Without(ram, i), "delete")
  BY DEF Delete, Find
<1> DEFINE n == Len(ram.entry)
           t == Without(ram, i)
           From(j) == IF j < i THEN j ELSE j + 1
<1>2. ram' = t /\ sector' = sector
  BY <1>1 DEF EnterSave, Delete
<1>3. ram \in TableSet /\ Listed(ram.entry) /\ n \in Nat
  BY DEF Base, TypeInv, Listed
<1>4. /\ Len(t.entry) = n - 1
      /\ \A j \in 1..(n - 1) : From(j) \in 1..n /\ t.entry[j] = ram.entry[From(j)]
  BY <1>3, WithoutListed
<1>5. \A j, k \in 1..(n - 1) : j # k => From(j) # From(k)
  BY <1>3
<1> HIDE DEF t, From
<1>6. Placed(t.entry)
  BY <1>4, <1>5 DEF PlaceInv, Placed
<1> QED  BY <1>2, <1>6 DEF PlaceInv

LEMMA DefaultPlaced == Placed(DefaultLayout)
<1> DEFINE region == Sectors - LowSectors - ScratchSectors
           half == region \div 2
           s == SectorSize
           a == LayoutEntry("spiflash0", FALSE, 0, 1)
           b == LayoutEntry("data", FALSE, 1, LowSectors - 1)
           c == LayoutEntry("lfs0", TRUE, LowSectors, half)
           d == LayoutEntry("lfs1", TRUE, LowSectors + half, region - half)
<1>1. DefaultLayout = <<a, b, c, d>>
  BY DefaultEntries
<1>2. /\ LowSectors \in Nat /\ half \in Nat /\ region - half \in Nat /\ LowSectors >= 1
      /\ LowSectors - 1 \in Nat /\ LowSectors + half \in Nat /\ s \in Nat /\ s > 0
  BY RegionBounds, GeometryIsNat
<1>3. LowSectors + half + (region - half) <= Sectors /\ Sectors \in Nat
  <2>1. region \in Int /\ half \in Int
    BY GeometryIsNat
  <2>2. LowSectors + region <= Sectors
    BY GeometryIsNat
  <2> HIDE DEF half, region
  <2> QED  BY <2>1, <2>2, GeometryIsNat
<1> HIDE DEF half
<1> DEFINE rest == region - half
<1>4. LowSectors + half + rest <= Sectors /\ rest \in Nat
  BY <1>2, <1>3
<1> HIDE DEF rest, s
<1>5. \A j, k \in Nat : j * s + k * s = (j + k) * s /\ j * s \in Nat
  BY <1>2
<1>6. \A j, k \in Nat : j <= k => j * s <= k * s
  BY <1>2
<1> DEFINE A == 0 * s
           B == 1 * s
           C == LowSectors * s
           D == (LowSectors + half) * s
           Top == (LowSectors + half + rest) * s
           nb == (LowSectors - 1) * s
           nc == half * s
           nd == rest * s
<1>7. /\ A = 0 /\ B = s /\ B + nb = C /\ C + nc = D /\ D + nd = Top
      /\ B <= C /\ C <= D /\ D <= Top /\ Top <= Cap
      /\ {A, B, C, D, Top, nb, nc, nd} \subseteq Nat
  <2>1. A = 0 /\ B = s
    BY <1>2
  <2>2. B + nb = C
    <3>1. 1 + (LowSectors - 1) = LowSectors
      BY <1>2
    <3>2. B + nb = (1 + (LowSectors - 1)) * s
      BY <1>2, <1>5
    <3> QED  BY <3>1, <3>2
  <2>3. C + nc = D
    BY <1>2, <1>5
  <2>4. D + nd = Top
    BY <1>2, <1>4, <1>5
  <2>5. Top <= Cap
    <3>1. Top <= Sectors * s
      BY <1>2, <1>3, <1>4, <1>6
    <3> QED  BY <3>1 DEF Cap, s
  <2>6. {A, B, C, D, Top, nb, nc, nd} \subseteq Nat
    BY <1>2, <1>4, <1>5
  <2> HIDE DEF A, B, C, D, Top, nb, nc, nd
  <2> QED  BY <2>1, <2>2, <2>3, <2>4, <2>5, <2>6
<1>8. /\ a.start = A /\ a.size = B /\ a.label = "spiflash0"
      /\ b.start = B /\ b.size = nb /\ c.start = C /\ c.size = nc
      /\ d.start = D /\ d.size = nd
  BY DEF LayoutEntry, Entry, s, rest
<1>9. /\ Aligned(A) /\ Aligned(B) /\ Aligned(C) /\ Aligned(D)
      /\ Aligned(nb) /\ Aligned(nc) /\ Aligned(nd)
  BY <1>2, <1>4, AlignedProduct DEF s
<1> HIDE DEF a, b, c, d, A, B, C, D, Top, nb, nc, nd
<1>10. Cap \in Nat
  BY GeometryIsNat
<1>11. WellPlaced(a) /\ WellPlaced(b) /\ WellPlaced(c) /\ WellPlaced(d)
  BY <1>2, <1>7, <1>8, <1>9, <1>10 DEF WellPlaced, s
<1>12. /\ Apart(a, b) /\ Apart(a, c) /\ Apart(a, d) /\ Apart(b, c) /\ Apart(b, d) /\ Apart(c, d)
       /\ Apart(b, a) /\ Apart(c, a) /\ Apart(d, a) /\ Apart(c, b) /\ Apart(d, b) /\ Apart(d, c)
  BY <1>2, <1>7, <1>8 DEF Apart
<1>13. Len(<<a, b, c, d>>) = 4
  OBVIOUS
<1>14. \A i \in 1..4 : WellPlaced(<<a, b, c, d>>[i])
  BY <1>11
<1>15. \A i, j \in 1..4 : i # j => Apart(<<a, b, c, d>>[i], <<a, b, c, d>>[j])
  BY <1>12
<1> QED  BY <1>1, <1>13, <1>14, <1>15 DEF Placed

\* What leaves the entries alone, and in sector 0 at most what a save left.
LEMMA PlaceKept ==
    ASSUME PlaceInv, ram'.entry = ram.entry \/ Placed(ram'.entry),
           Loadable(sector') => sector' = sector \/ sector'.slot = ram.entry
    PROVE  PlaceInv'
  BY DEF PlaceInv

LEMMA SaveFailsPlaced ==
    ASSUME Base, PlaceInv, SaveFails PROVE PlaceInv'
<1>1. /\ IF call.why = "create" THEN ram'.entry = SubSeq(ram.entry, 1, Len(ram.entry) - 1)
                               ELSE ram'.entry = ram.entry
      /\ Loadable(sector') => sector' = sector \/ sector'.slot = ram.entry
  BY SaveFailsBase
<1>2. CASE call.why # "create"
  BY <1>1, <1>2, PlaceKept
<1>3. CASE call.why = "create"
  <2> DEFINE n == Len(ram.entry)
  <2>1. Listed(ram.entry) /\ n \in Nat
    BY DEF Base, TypeInv, Listed
  <2>2. CASE ram.entry = << >>
    <3>1. SubSeq(<< >>, 1, Len(<< >>) - 1) = << >>
      OBVIOUS
    <3> QED  BY <1>1, <1>3, <2>2, <3>1, PlaceKept
  <2>3. CASE ram.entry # << >>
    <3>1. Len(ram'.entry) = n - 1 /\ \A i \in 1..(n - 1) : ram'.entry[i] = ram.entry[i]
      BY <1>1, <1>3, <2>1, <2>3, DropListed
    <3>2. \A i \in 1..(n - 1) : i \in 1..n
      BY <2>1
    <3>3. Placed(ram'.entry)
      BY <3>1, <3>2 DEF PlaceInv, Placed
    <3> QED  BY <1>1, <3>3, PlaceKept
  <2> QED  BY <2>2, <2>3
<1> QED  BY <1>2, <1>3

LEMMA NextPlaced ==
    ASSUME RequestsFit, Base, PlaceInv, [Next]_vars PROVE PlaceInv'
<1>0. Placed(<< >>) /\ NoTable.entry = << >>
  BY NoTableTyped DEF Placed
<1>1. CASE SaveStep
  <2>1. call.at = "save" /\ sector' = SaveTarget /\ ram' = ram
    BY <1>1 DEF SaveStep
  <2> QED  BY <2>1, SaveTargetTyped, PlaceKept
<1>2. CASE SaveEnds
  <2>1. sector' = sector /\ ram'.entry = ram.entry
    BY <1>2, SaveEndsBase DEF SaveEnds
  <2> QED  BY <2>1, PlaceKept
<1>3. CASE BootOffline \/ BootCorrupt \/ BootMount \/ BootEnds
  BY <1>3, PlaceKept DEF BootOffline, BootCorrupt, BootMount, BootEnds
<1>4. CASE BootBlank
  <2>1. ram' = [NoTable EXCEPT !.entry = DefaultLayout] /\ sector' = sector
    BY <1>4 DEF BootBlank, EnterSave
  <2>2. ram'.entry = DefaultLayout
    BY <2>1 DEF NoTable
  <2> QED  BY <2>1, <2>2, DefaultPlaced, PlaceKept
<1>5. CASE BootLoaded \/ Load
  <2>1. sector' = sector /\ (\/ Loadable(sector) /\ ram' = Table(sector.slot)
                             \/ ram' = NoTable)
    BY <1>5 DEF BootLoaded, Load
  <2>2. Loadable(sector) => Table(sector.slot).entry = sector.slot
    BY TableTyped DEF Base, SectorInv
  <2>3. Placed(ram'.entry)
    BY <1>0, <2>1, <2>2 DEF PlaceInv
  <2> QED  BY <2>1, <2>3, PlaceKept
<1>6. CASE Provision \/ Format
  <2>1. sector' = sector
    BY <1>6 DEF Provision, Format, Replace
  <2>2. ram'.entry = DefaultLayout \/ ram'.entry = << >>
    <3>1. Listed(<< >>) /\ {"provision", "format"} \subseteq Why
      BY NoTableTyped DEF Why
    <3> QED  BY <1>6, <3>1, ReplaceBase, DefaultListed DEF Provision, Format
  <2> QED  BY <1>0, <2>1, <2>2, DefaultPlaced, PlaceKept
<1>7. CASE PowerCut
  <2>1. ram' = NoTable
    BY <1>7 DEF PowerCut
  <2> QED  BY <1>0, <1>7, <2>1, PowerCutBase, PlaceKept
<1>8. CASE HostNext
  <2>1. ASSUME NEW label, Erase(label) PROVE PlaceInv'
    BY <2>1, EraseBase, PlaceKept
  <2>2. ASSUME NEW label, NEW on, SetMounted(label, on) PROVE PlaceInv'
    <3>1. \E i : ram' = [ram EXCEPT !.guard[i] = on]
      BY <2>2 DEF SetMounted
    <3>2. ram'.entry = ram.entry
      BY <3>1 DEF Base, TypeInv, TableSet
    <3>3. sector' = sector
      BY <2>2 DEF SetMounted
    <3> QED  BY <3>2, <3>3, PlaceKept
  <2>3. ASSUME NEW label,
               VfsMount(label) \/ VfsUnmount(label) \/ VfsFormat(label) \/ WriteFile(label)
        PROVE  PlaceInv'
    BY <2>3, PlaceKept DEF VfsMount, VfsUnmount, VfsFormat, WriteFile, VfsCall
  <2> QED  BY <1>8, <2>1, <2>2, <2>3, CreatePlaced, DeletePlaced DEF HostNext
<1>9. CASE UNCHANGED vars
  BY <1>9, PlaceKept DEF vars
<1> QED  BY <1>1, <1>2, <1>3, <1>4, <1>5, <1>6, <1>7, <1>8, <1>9, SaveFailsPlaced DEF Next

LEMMA InitPlaced == ASSUME Init PROVE PlaceInv
<1>1. ram.entry = << >> /\ sector = Blank
  BY NoTableTyped DEF Init
<1>2. Placed(ram.entry)
  BY <1>1 DEF Placed
<1> QED  BY <1>1, <1>2, BlankTornTyped DEF PlaceInv

\* However partitions are created, deleted, compacted, saved and loaded, no two
\* share flash and none leaves the device.
THEOREM FlashEntriesDisjoint ==
    ASSUME RequestsFit PROVE Spec => []EntriesDisjoint
<1>1. Base /\ PlaceInv /\ [Next]_vars => PlaceInv'
  BY NextPlaced
<1>2. PlaceInv => EntriesDisjoint
  BY DEF PlaceInv, Placed, WellPlaced, EntriesDisjoint
<1>3. Init => PlaceInv
  BY InitPlaced
<1> QED  BY <1>1, <1>2, <1>3, FlashBase, PTL DEF Spec

\* The table in RAM is always one of distinct labels on whole sectors.
THEOREM FlashTypeCorrect ==
    ASSUME RequestsFit PROVE Spec => []TypeOK
<1>1. Base /\ PlaceInv /\ [Next]_vars => PlaceInv'
  BY NextPlaced
<1>2. ASSUME Base, PlaceInv PROVE TypeOK
  <2>1. sector.magic \in BOOLEAN /\ sector.whole \in BOOLEAN
    BY <1>2 DEF Base, TypeInv, SectorSet
  <2>2. Len(ram.entry) <= MaxEntries /\ ram.guard \in [1..MaxEntries -> BOOLEAN]
    BY <1>2 DEF Base, TypeInv, TableSet, Listed
  <2>3. ASSUME NEW i \in 1..Len(ram.entry)
        PROVE  /\ ram.entry[i].start % SectorSize = 0
               /\ ram.entry[i].size % SectorSize = 0
               /\ Find(ram, ram.entry[i].label) = {i}
    <3>1. WellPlaced(ram.entry[i])
      BY <1>2 DEF PlaceInv, Placed
    <3>2. Find(ram, ram.entry[i].label) = {i}
      BY <1>2 DEF Base, TypeInv, Listed, Find
    <3> QED  BY <3>1, <3>2 DEF WellPlaced, Aligned
  <2>4. /\ Mounted \subseteq vfs.used /\ Cardinality(vfs.used) <= MaxMounts
        /\ call.at \in {"idle", "boot", "mount", "save"}
        /\ calls \in 0..MaxCalls /\ cuts \in 0..MaxCuts
    BY <1>2, CallIs DEF Base, TypeInv, VfsInv
  <2> QED  BY <2>1, <2>2, <2>3, <2>4 DEF TypeOK
<1>3. Init => PlaceInv
  BY InitPlaced
<1> QED  BY <1>1, <1>2, <1>3, FlashBase, PTL DEF Spec

----------------------------------------------------------------------------
(* What a raised guard protects.                                           *)

LEMMA MarkedIsGuarded ==
    ASSUME Base, GuardInv, NEW label \in marked, NEW i \in Find(ram, label)
    PROVE  /\ i \in 1..Len(ram.entry) /\ ram.entry[i].label = label
           /\ ram.guard[i]
<1>1. i \in 1..Len(ram.entry) /\ ram.entry[i].label = label /\ Listed(ram.entry)
  BY DEF Find, Base, TypeInv
<1>2. PICK k \in 1..Len(ram.entry) : ram.guard[k] /\ ram.entry[k].label = label
  BY DEF GuardInv, GuardFollowsLabel
<1>3. k = i
  BY <1>1, <1>2 DEF Listed
<1> QED  BY <1>1, <1>2, <1>3

\* It is enough that each entry of that label is still there, at any place.
LEMMA EntryStays ==
    ASSUME NEW label, calls' = calls \/ files' = files,
           \A i \in Find(ram, label) :
              \E j \in 1..Len(ram'.entry) : ram'.entry[j] = ram.entry[i]
    PROVE  Protected(label)
<1>1. ASSUME NEW i \in Find(ram, label)
      PROVE  \E j \in Find(ram', label) : ram'.entry[j] = ram.entry[i]
  BY <1>1 DEF Find
<1> QED  BY <1>1 DEF Protected

LEMMA CreateProtects ==
    ASSUME Base, NEW new \in Labels, NEW lfs \in BOOLEAN, NEW size \in Sizes,
           NEW start \in Starts, Create(new, lfs, size, start), NEW label
    PROVE  Protected(label)
<1>1. PICK e \in EntrySet : ram'.entry = Append(ram.entry, e)
  BY CreateEffect
<1>2. ram.entry \in Seq(EntrySet) /\ Len(ram.entry) \in Nat
  BY DEF Base, TypeInv, Listed
<1>3. \A i \in 1..Len(ram.entry) :
          i \in 1..Len(ram'.entry) /\ ram'.entry[i] = ram.entry[i]
  BY <1>1, <1>2
<1>4. files' = files
  BY DEF Create
<1> QED  BY <1>3, <1>4, EntryStays DEF Find

LEMMA DeleteProtects ==
    ASSUME Base, GuardInv, NEW gone, Delete(gone), NEW label \in marked
    PROVE  Protected(label)
<1>1. PICK k \in 1..Len(ram.entry) :
          ~ram.guard[k] /\ ram' = Without(ram, k)
  BY DEF Delete, Find, EnterSave
<1> DEFINE n == Len(ram.entry)
           t == Without(ram, k)
           From(j) == IF j < k THEN j ELSE j + 1
<1>2. ram \in TableSet /\ Listed(ram.entry) /\ n \in Nat
  BY DEF Base, TypeInv, Listed
<1>3. Len(t.entry) = n - 1 /\ \A j \in 1..(n - 1) : t.entry[j] = ram.entry[From(j)]
  BY <1>2, WithoutListed
<1>4. \A i \in 1..n : i # k => \E j \in 1..(n - 1) : i = From(j)
  <2> TAKE i \in 1..n
  <2> HAVE i # k
  <2>1. CASE i < k
    BY <1>2, <2>1
  <2>2. CASE i > k
    <3>1. i - 1 \in 1..(n - 1) /\ From(i - 1) = i
      BY <1>2, <2>2
    <3> QED  BY <3>1
  <2> QED  BY <2>1, <2>2
<1> HIDE DEF t, From, n
<1>5. ASSUME NEW i \in Find(ram, label)
      PROVE  \E j \in 1..Len(ram'.entry) : ram'.entry[j] = ram.entry[i]
  <2>1. i \in 1..n /\ i # k
    BY <1>1, MarkedIsGuarded DEF n
  <2>2. PICK j \in 1..(n - 1) : i = From(j)
    BY <1>4, <2>1
  <2> QED  BY <1>1, <1>3, <2>2 DEF t
<1>6. files' = files
  BY DEF Delete
<1> QED  BY <1>5, <1>6, EntryStays

\* What is erased is another partition's flash.
LEMMA EraseProtects ==
    ASSUME Base, GuardInv, PlaceInv, NEW other, Erase(other), NEW label \in marked
    PROVE  Protected(label)
<1>1. PICK k \in 1..Len(ram.entry) :
          ~ram.guard[k] /\ files' = Erased(Region(ram.entry[k])) /\ ram' = ram
  BY DEF Erase, Find
<1>2. ASSUME NEW i \in Find(ram, label)
      PROVE  \A f \in files : f.at = Region(ram.entry[i]) => f \in files'
  <2>1. i \in 1..Len(ram.entry) /\ i # k
    BY <1>1, MarkedIsGuarded
  <2>2. Apart(ram.entry[i], ram.entry[k])
    BY <2>1 DEF PlaceInv, Placed
  <2>3. Apart(Region(ram.entry[i]), Region(ram.entry[k]))
    BY <2>2 DEF Apart, Region
  <2> QED  BY <1>1, <2>3 DEF Erased
<1> QED  BY <1>1, <1>2 DEF Protected

\* A save that fails takes back an entry whose guard is down, or none.
LEMMA SaveFailsProtects ==
    ASSUME Base, GuardInv, SaveFails, NEW label \in marked PROVE Protected(label)
<1>1. /\ calls' = calls /\ call.at = "save" /\ ram.entry \in Seq(EntrySet)
      /\ Listed(ram.entry) /\ Len(ram.entry) \in Nat
      /\ IF call.why = "create" THEN ram'.entry = SubSeq(ram.entry, 1, Len(ram.entry) - 1)
                               ELSE ram'.entry = ram.entry
  BY SaveFailsBase DEF SaveFails, Base, TypeInv, Listed
<1>2. CASE call.why # "create"
  BY <1>1, <1>2, EntryStays DEF Find
<1>3. CASE call.why = "create"
  <2> DEFINE n == Len(ram.entry)
  <2>1. ram.entry # << >> /\ ~ram.guard[n]
    BY <1>1, <1>3 DEF GuardInv
  <2>2. Len(ram'.entry) = n - 1 /\ \A i \in 1..(n - 1) : ram'.entry[i] = ram.entry[i]
    BY <1>1, <1>3, <2>1, DropListed
  <2>3. ASSUME NEW i \in Find(ram, label)
        PROVE  \E j \in 1..Len(ram'.entry) : ram'.entry[j] = ram.entry[i]
    <3>1. i \in 1..n /\ i # n
      BY <2>1, MarkedIsGuarded
    <3> QED  BY <1>1, <2>2, <3>1
  <2> QED  BY <1>1, <2>3, EntryStays
<1> QED  BY <1>2, <1>3

LEMMA StepProtects ==
    ASSUME Base, GuardInv, PlaceInv, [Next]_vars, NEW label \in marked \cap marked'
    PROVE  Protected(label)
<1>1. CASE SaveFails
  BY <1>1, SaveFailsProtects
<1>2. CASE /\ calls' = calls /\ ram'.entry = ram.entry
  BY <1>2, EntryStays DEF Find
<1>3. CASE \/ SaveStep \/ BootOffline \/ BootCorrupt \/ BootMount \/ BootEnds
           \/ UNCHANGED vars
  BY <1>2, <1>3 DEF SaveStep, BootOffline, BootCorrupt, BootMount, BootEnds, vars
<1>4. CASE SaveEnds
  <2>1. ram'.entry = ram.entry /\ calls' = calls
    BY <1>4, SaveEndsBase DEF SaveEnds
  <2> QED  BY <1>2, <2>1
<1>5. CASE BootBlank \/ BootLoaded
  BY <1>5 DEF BootBlank, BootLoaded, Base, BootInv
<1>6. CASE Provision \/ Format \/ Load \/ PowerCut
  BY <1>6 DEF Provision, Format, Replace, Load, PowerCut
<1>7. CASE HostNext
  <2>1. ASSUME NEW l, NEW on, SetMounted(l, on) PROVE Protected(label)
    <3>1. calls' = calls /\ \E i : ram' = [ram EXCEPT !.guard[i] = on]
      BY <2>1 DEF SetMounted
    <3>2. ram'.entry = ram.entry
      BY <3>1 DEF Base, TypeInv, TableSet
    <3> QED  BY <1>2, <3>1, <3>2
  <2>2. ASSUME NEW l, VfsMount(l) \/ VfsUnmount(l) \/ VfsFormat(l) \/ WriteFile(l)
        PROVE  Protected(label)
    BY <1>2, <2>2 DEF VfsMount, VfsUnmount, VfsFormat, WriteFile, VfsCall
  <2> QED  BY <1>7, <2>1, <2>2, CreateProtects, DeleteProtects, EraseProtects DEF HostNext
<1> QED  BY <1>1, <1>3, <1>4, <1>5, <1>6, <1>7 DEF Next

\* While a label's guard stays up nothing drops, moves or changes its entry,
\* and no partition call, an erase of another partition included, takes away
\* the file system that lies there.
THEOREM FlashGuardProtects ==
    ASSUME RequestsFit PROVE Spec => GuardProtects
<1>1. Base /\ PlaceInv /\ [Next]_vars => PlaceInv'
  BY NextPlaced
<1>2. Init => PlaceInv
  BY InitPlaced
<1>3. Init => GuardInv
  BY InitGuard
<1>4. Base /\ GuardInv /\ [Next]_vars => GuardInv'
  BY NextGuard
<1>5. Base /\ GuardInv /\ PlaceInv /\ [Next]_vars =>
          [\A label \in marked \cap marked' : Protected(label)]_vars
  BY StepProtects
<1> QED  BY <1>1, <1>2, <1>3, <1>4, <1>5, FlashBase, PTL DEF Spec, GuardProtects

=============================================================================
