---------------------------- MODULE Memory_proof ----------------------------
(***************************************************************************)
(* Proofs about how memory is read and searched: first the layers of       *)
(* segments, for any file and any read; then the scan of a layer, for any  *)
(* chunk size and overlap, any sections, blocks and unreadable bytes, and  *)
(* an occurrence anywhere.                                                 *)
(***************************************************************************)
EXTENDS LayerScan, Segments,
        SequenceTheorems, NaturalsInduction, WellFoundedInduction, TLAPS

-----------------------------------------------------------------------------
(* Induction goes by the least counterexample. *)

\* A set of numbers that has an element has a least one.
LEMMA Least ==
  ASSUME NEW S \in SUBSET Nat, S # {}
  PROVE  \E x \in S : \A y \in S : x <= y
<1> DEFINE R == OpToRel(<, Nat)
<1>1. IsWellFoundedOn(R, Nat)
  BY NatLessThanWellFounded
<1> HIDE DEF R
<1>2. \E x \in S : \A y \in S : ~ (<<y, x>> \in R)
  BY <1>1, WFMin, Zenon
<1>3. \A x, y \in Nat : <<y, x>> \in R <=> y < x
  BY DEF R, OpToRel
<1>4. PICK x \in S : \A y \in S : ~ (<<y, x>> \in R)
  BY <1>2, Zenon
<1>5. \A y \in S : y \in Nat /\ x \in Nat
  BY Zenon
<1>6. \A y \in S : ~ (y < x)
  BY <1>3, <1>4, <1>5, Zenon
<1>7. \A y \in S : x <= y
  BY <1>5, <1>6, SMT
<1> QED BY <1>7, Zenon

\* Runs low[i] .. high[i] of which each ends where the next begins, or before, are
\* in order.
LEMMA Ordered ==
  ASSUME NEW n \in Nat, NEW low, NEW high,
         \A i \in 1..n : low[i] \in Int /\ high[i] \in Int /\ low[i] <= high[i],
         \A i \in 1..n - 1 : high[i] <= low[i + 1],
         NEW i \in 1..n, NEW j \in 1..n, i < j
  PROVE  high[i] <= low[j]
<1> DEFINE Bad == {k \in Nat : k \in i + 1..n /\ ~ (high[i] <= low[k])}
<1>1. SUFFICES ASSUME Bad # {} PROVE FALSE
  BY DEF Bad
<1>2. PICK k \in Bad : \A m \in Bad : k <= m
  BY <1>1, Least
<1>3. k \in i + 1..n /\ ~ (high[i] <= low[k]) /\ k \in Nat
  OBVIOUS
<1>4. CASE k = i + 1
  BY <1>3, <1>4
<1>5. CASE k > i + 1
  <2>1. k - 1 \in Nat /\ k - 1 \in i + 1..n /\ k - 1 \in 1..n - 1 /\ k - 1 \in 1..n
    BY <1>3, <1>5
  <2>2. k - 1 \notin Bad
    BY <1>2, <2>1
  <2>3. high[i] <= low[k - 1]
    BY <2>1, <2>2
  <2>4. low[k - 1] <= high[k - 1] /\ high[k - 1] <= low[k]
    BY <2>1, <1>3
  <2>5. low[k - 1] \in Int /\ high[k - 1] \in Int /\ high[i] \in Int /\ low[k] \in Int
    BY <2>1, <1>3
  <2> QED BY <1>3, <2>3, <2>4, <2>5
<1> QED BY <1>3, <1>4, <1>5

-----------------------------------------------------------------------------
(* Files. *)

LEMMA DumpTypes ==
  ASSUME NEW d \in Dumps
  PROVE  /\ d.avml \in BOOLEAN /\ d.last \in Nat /\ d.ranges \in Seq(Ranges)
         /\ Len(d.ranges) \in Nat
<1>1. d.avml \in BOOLEAN /\ d.last \in Nat /\ d.ranges \in Seq(Ranges)
  BY DumpAssumption, Zenon
<1> QED BY <1>1, LenProperties

LEMMA RangeTypes ==
  ASSUME NEW d \in Dumps, NEW k \in 1..Len(d.ranges)
  PROVE  d.ranges[k] \in Ranges
  BY DumpTypes, ElementOfSeq

LEMMA RangeFields ==
  ASSUME NEW r \in Ranges
  PROVE  /\ r.at \in Nat /\ r.good \in BOOLEAN /\ r.start \in Nat /\ r.end \in Nat
         /\ r.frames \in Seq(Frames) /\ Len(r.frames) \in Nat
<1>1. /\ r.at \in Nat /\ r.good \in BOOLEAN /\ r.start \in Nat /\ r.end \in Nat
      /\ r.frames \in Seq(Frames)
  BY DEF Ranges
<1> QED BY <1>1, LenProperties

LEMMA FrameFields ==
  ASSUME NEW r \in Ranges, NEW j \in 1..Len(r.frames)
  PROVE  LET f == r.frames[j] IN
         /\ f \in Frames /\ f.type \in FrameTypes /\ f.at \in Nat /\ f.size \in Nat
         /\ f.before \in Nat /\ f.out \in Nat
<1>1. r.frames[j] \in Frames
  BY RangeFields, ElementOfSeq
<1> QED BY <1>1 DEF Frames

LEMMA FirstRange ==
  ASSUME NEW d \in Dumps, Len(d.ranges) > 0
  PROVE  d.ranges[1].at = 0
<1>1. d.ranges # <<>>
  BY DumpTypes, EmptySeq
<1> QED BY <1>1, DumpAssumption, Zenon

LEMMA NextIsBehind ==
  ASSUME NEW d \in Dumps, NEW k \in 1..Len(d.ranges) - 1
  PROVE  d.ranges[k + 1].at = Behind(d, d.ranges[k])
  BY DumpAssumption, Zenon

LEMMA StreamsAreGood ==
  ASSUME NEW d \in Dumps, d.avml, NEW k \in 1..Len(d.ranges)
  PROVE  GoodStream(d.ranges[k])
  BY DumpAssumption, Zenon

LEMMA AvmlIsSorted ==
  ASSUME NEW d \in Dumps, d.avml, NEW k \in 1..Len(d.ranges) - 1
  PROVE  d.ranges[k].end < d.ranges[k + 1].start
  BY DumpAssumption, Zenon

\* What a good stream says of its frames, one at a time.
LEMMA StreamEnds ==
  ASSUME NEW r \in Ranges, GoodStream(r)
  PROVE  LET n == Len(r.frames) IN
         /\ n \in 1..n /\ r.frames[1].at = 0 /\ r.frames[1].before = 0
         /\ HasData(r.frames[n])
         /\ r.end = r.start + r.frames[n].before + r.frames[n].out - 1
         /\ StreamLength(r) = r.frames[n].at + FrameHeader + r.frames[n].size
<1>1. Len(r.frames) \in Nat
  BY RangeFields
<1> QED BY <1>1 DEF GoodStream, StreamLength

LEMMA FollowingFrame ==
  ASSUME NEW r \in Ranges, GoodStream(r), NEW j \in 1..Len(r.frames) - 1
  PROVE  /\ r.frames[j + 1].at = r.frames[j].at + FrameHeader + r.frames[j].size
         /\ r.frames[j + 1].before = r.frames[j].before + r.frames[j].out
  BY Zenon DEF GoodStream

LEMMA GoodFrame ==
  ASSUME NEW r \in Ranges, GoodStream(r), NEW j \in 1..Len(r.frames)
  PROVE  LET f == r.frames[j] IN
         /\ HasData(f) => f.size > CrcLength /\ f.out > 0
         /\ ~HasData(f) => f.out = 0
         /\ f.type = "plain" => f.out = f.size - CrcLength
  BY Zenon DEF GoodStream

\* Frames are in the order of their places in the stream and of what they decode to.
LEMMA FramesInOrder ==
  ASSUME NEW r \in Ranges, GoodStream(r),
         NEW i \in 1..Len(r.frames), NEW j \in 1..Len(r.frames), i < j
  PROVE  /\ r.frames[i].at + FrameHeader + r.frames[i].size <= r.frames[j].at
         /\ r.frames[i].before + r.frames[i].out <= r.frames[j].before
<1> DEFINE n == Len(r.frames)
           At == [k \in 1..n |-> r.frames[k].at]
           To == [k \in 1..n |-> r.frames[k].at + FrameHeader + r.frames[k].size]
           Out == [k \in 1..n |-> r.frames[k].before]
           Upto == [k \in 1..n |-> r.frames[k].before + r.frames[k].out]
<1>1. n \in Nat
  BY RangeFields
<1>2. \A k \in 1..n : /\ r.frames[k].at \in Nat /\ r.frames[k].size \in Nat
                      /\ r.frames[k].before \in Nat /\ r.frames[k].out \in Nat
  BY FrameFields
<1>3. \A k \in 1..n - 1 :
        /\ r.frames[k + 1].at = r.frames[k].at + FrameHeader + r.frames[k].size
        /\ r.frames[k + 1].before = r.frames[k].before + r.frames[k].out
  BY FollowingFrame
<1>4. To[i] <= At[j]
  <2>1. \A k \in 1..n : At[k] \in Int /\ To[k] \in Int /\ At[k] <= To[k]
    <3>1. TAKE k \in 1..n
    <3> DEFINE x == r.frames[k].at
               y == r.frames[k].size
    <3>2. x \in Nat /\ y \in Nat /\ At[k] = x /\ To[k] = x + FrameHeader + y
      BY <1>2
    <3> HIDE DEF x, y, At, To
    <3> QED BY <3>2 DEF FrameHeader
  <2>2. \A k \in 1..n - 1 : To[k] <= At[k + 1]
    BY <1>1, <1>2, <1>3 DEF FrameHeader
  <2> HIDE DEF n, At, To
  <2> QED BY <1>1, <2>1, <2>2, Ordered DEF n
<1>5. Upto[i] <= Out[j]
  <2>1. \A k \in 1..n : Out[k] \in Int /\ Upto[k] \in Int /\ Out[k] <= Upto[k]
    BY <1>2
  <2>2. \A k \in 1..n - 1 : Upto[k] <= Out[k + 1]
    BY <1>1, <1>2, <1>3
  <2> HIDE DEF n, Out, Upto
  <2> QED BY <1>1, <2>1, <2>2, Ordered DEF n
<1> QED BY <1>4, <1>5

\* The sums that follow, for a frame before the last one.
LEMMA Sums ==
  ASSUME NEW a \in Nat, NEW b \in Nat, NEW c \in Nat, NEW e \in Nat, NEW t,
         t = c + FrameHeader + e, a + FrameHeader + b <= c, e > CrcLength
  PROVE  t \in Nat /\ a + FrameHeader + b <= t /\ a + FrameHeader < t
  BY DEF FrameHeader, CrcLength

LEMMA Addresses ==
  ASSUME NEW a \in Nat, NEW b \in Nat, NEW c \in Nat, NEW e \in Nat, NEW m \in Nat, NEW t,
         t = m + c + e - 1, a + b <= c, e > 0
  PROVE  m + a + b <= t + 1 /\ m <= t /\ m + a + b <= t
  OBVIOUS

\* So a stream reaches behind each of its frames, and decodes to no more than the
\* range; only the last frame ends both.
LEMMA FrameInStream ==
  ASSUME NEW r \in Ranges, GoodStream(r), NEW j \in 1..Len(r.frames)
  PROVE  LET f == r.frames[j] IN
         /\ StreamLength(r) \in Nat
         /\ f.at + FrameHeader + f.size <= StreamLength(r)
         /\ f.at + FrameHeader < StreamLength(r)
         /\ r.start + f.before + f.out <= r.end + 1
         /\ j < Len(r.frames) => r.start + f.before + f.out <= r.end
         /\ r.start <= r.end
<1> DEFINE n == Len(r.frames)
           g == r.frames[n]
           f == r.frames[j]
<1>1. /\ n \in 1..n /\ HasData(g) /\ r.end = r.start + g.before + g.out - 1
      /\ StreamLength(r) = g.at + FrameHeader + g.size
  BY StreamEnds
<1>2. /\ g.at \in Nat /\ g.size \in Nat /\ g.before \in Nat /\ g.out \in Nat
      /\ f.at \in Nat /\ f.size \in Nat /\ f.before \in Nat /\ f.out \in Nat
      /\ r.start \in Nat /\ r.end \in Nat /\ n \in Nat
  BY <1>1, FrameFields, RangeFields
<1>3. g.size > CrcLength /\ g.out > 0
  BY <1>1, GoodFrame
<1>4. j < n => /\ f.at + FrameHeader + f.size <= g.at
               /\ f.before + f.out <= g.before
  BY <1>1, FramesInOrder
<1>5. j = n => f = g
  OBVIOUS
<1>6. j <= n
  BY <1>2
<1>7. r.end = r.start + g.before + g.out - 1 /\ StreamLength(r) = g.at + FrameHeader + g.size
  BY <1>1
<1>8. CASE j = n
  <2>1. f = g
    BY <1>8
  <2> HIDE DEF f, g
  <2>2. /\ StreamLength(r) \in Nat
        /\ f.at + FrameHeader + f.size <= StreamLength(r) /\ f.at + FrameHeader < StreamLength(r)
    <3> DEFINE x == g.at
               y == g.size
               z == StreamLength(r)
    <3>1. x \in Nat /\ y \in Nat /\ y > CrcLength /\ z = x + FrameHeader + y
      BY <1>2, <1>3, <1>7
    <3> HIDE DEF x, y, z
    <3>2. z \in Nat /\ x + FrameHeader + y <= z /\ x + FrameHeader < z
      BY ONLY <3>1 DEF FrameHeader, CrcLength
    <3> QED BY <2>1, <3>2 DEF x, y, z
  <2>3. r.start + f.before + f.out <= r.end + 1 /\ r.start <= r.end
    BY <1>2, <1>3, <1>7, <2>1
  <2>4. ~ (j < n)
    BY <1>2, <1>8
  <2> QED BY <2>2, <2>3, <2>4 DEF f
<1>9. CASE j < n
  <2>1. f.at + FrameHeader + f.size <= g.at /\ f.before + f.out <= g.before
    BY <1>4, <1>9
  <2> HIDE DEF f, g, n
  <2>2. /\ StreamLength(r) \in Nat
        /\ f.at + FrameHeader + f.size <= StreamLength(r) /\ f.at + FrameHeader < StreamLength(r)
    <3>1. \A t : t = g.at + FrameHeader + g.size =>
                   t \in Nat /\ f.at + FrameHeader + f.size <= t /\ f.at + FrameHeader < t
      BY <1>2, <1>3, <2>1, Sums, Zenon
    <3> QED BY <1>7, <3>1, Zenon
  <2>3. /\ r.start + f.before + f.out <= r.end + 1 /\ r.start <= r.end
        /\ r.start + f.before + f.out <= r.end
    BY <1>2, <1>3, <1>7, <2>1, Addresses, Zenon
  <2> QED BY <2>2, <2>3 DEF f, n
<1> QED BY <1>2, <1>6, <1>8, <1>9

-----------------------------------------------------------------------------
(* Where ranges are, and what is left of a file behind them.                *)

\* Where the loader is when it has loaded n ranges, and whether it stops there.
Place(d, n) == IF n = 0 THEN 0 ELSE Behind(d, d.ranges[n])
AtEnd(d, n) == IF d.avml THEN Place(d, n) + 4 >= d.last ELSE Place(d, n) >= d.last
Passed(d, n) == \A k \in 1..n : Reached(d, k) /\ RangeLoads(d, k)

LEMMA StreamIsLong ==
  ASSUME NEW d \in Dumps, d.avml, NEW k \in 1..Len(d.ranges)
  PROVE  StreamLength(d.ranges[k]) \in Nat /\ StreamLength(d.ranges[k]) > 4
<1> DEFINE r == d.ranges[k]
<1>1. r \in Ranges /\ GoodStream(r)
  BY RangeTypes, StreamsAreGood
<1> HIDE DEF r
<1>2. Len(r.frames) \in 1..Len(r.frames)
  BY <1>1, StreamEnds
<1>3. /\ r.frames[Len(r.frames)].at \in Nat
      /\ StreamLength(r) \in Nat
      /\ r.frames[Len(r.frames)].at + FrameHeader < StreamLength(r)
  BY <1>1, <1>2, FrameInStream, FrameFields
<1>4. StreamLength(r) \in Nat /\ StreamLength(r) > 4
  BY <1>3 DEF FrameHeader
<1> QED BY <1>4 DEF r

LEMMA BehindIsBehind ==
  ASSUME NEW d \in Dumps, NEW k \in 1..Len(d.ranges)
  PROVE  /\ d.ranges[k].at \in Nat /\ Behind(d, d.ranges[k]) \in Nat
         /\ d.ranges[k].at + HeaderSize <= Behind(d, d.ranges[k])
<1> DEFINE r == d.ranges[k]
<1>1. /\ r.at \in Nat /\ r.start \in Nat /\ r.end \in Nat /\ d.avml \in BOOLEAN
      /\ d.avml => StreamLength(r) \in Nat
  BY RangeTypes, RangeFields, DumpTypes, StreamIsLong
<1> HIDE DEF r
<1>2. CASE d.avml
  <2>1. Behind(d, r) = r.at + HeaderSize + (StreamLength(r) + Trailer)
    BY <1>2 DEF Behind
  <2>2. Behind(d, r) \in Nat /\ r.at + HeaderSize <= Behind(d, r)
    <3> DEFINE x == r.at
               y == StreamLength(r)
               z == Behind(d, r)
    <3>1. x \in Nat /\ y \in Nat /\ z = x + HeaderSize + (y + Trailer)
      BY <1>1, <1>2, <2>1
    <3> HIDE DEF x, y, z
    <3>2. z \in Nat /\ x + HeaderSize <= z
      BY ONLY <3>1 DEF HeaderSize, Trailer
    <3> QED BY <3>2 DEF x, z
  <2> QED BY <1>1, <2>2 DEF r
<1>3. CASE ~d.avml
  <2>1. Behind(d, r) = r.at + HeaderSize + (IF r.start <= r.end THEN r.end - r.start + 1 ELSE 0)
    BY <1>3 DEF Behind
  <2>2. Behind(d, r) \in Nat /\ r.at + HeaderSize <= Behind(d, r)
    BY <1>1, <2>1 DEF HeaderSize
  <2> QED BY <1>1, <2>2 DEF r
<1> QED BY <1>1, <1>2, <1>3

LEMMA PlaceIsNext ==
  ASSUME NEW d \in Dumps, NEW n \in 0..Len(d.ranges)
  PROVE  Place(d, n) \in Nat /\ (n < Len(d.ranges) => d.ranges[n + 1].at = Place(d, n))
<1>1. Len(d.ranges) \in Nat
  BY DumpTypes
<1>2. CASE n = 0
  BY <1>1, <1>2, FirstRange DEF Place
<1>3. CASE n # 0
  <2>1. n \in 1..Len(d.ranges) /\ (n < Len(d.ranges) => n \in 1..Len(d.ranges) - 1)
    BY <1>1, <1>3
  <2>2. Place(d, n) = Behind(d, d.ranges[n])
    BY <1>3 DEF Place
  <2> QED BY <2>1, <2>2, BehindIsBehind, NextIsBehind
<1> QED BY <1>2, <1>3

LEMMA RangesInOrder ==
  ASSUME NEW d \in Dumps, NEW i \in 1..Len(d.ranges), NEW j \in 1..Len(d.ranges), i < j
  PROVE  Behind(d, d.ranges[i]) <= d.ranges[j].at
<1> DEFINE n == Len(d.ranges)
           At == [k \in 1..n |-> d.ranges[k].at]
           To == [k \in 1..n |-> Behind(d, d.ranges[k])]
<1>1. n \in Nat
  BY DumpTypes
<1>2. \A k \in 1..n : At[k] \in Int /\ To[k] \in Int /\ At[k] <= To[k]
  BY BehindIsBehind DEF HeaderSize
<1>3. \A k \in 1..n - 1 : To[k] <= At[k + 1]
  <2>1. TAKE k \in 1..n - 1
  <2>2. k \in 1..n /\ k + 1 \in 1..n
    BY <1>1
  <2>3. d.ranges[k + 1].at = Behind(d, d.ranges[k]) /\ Behind(d, d.ranges[k]) \in Nat
    BY <2>2, BehindIsBehind, NextIsBehind
  <2>4. To[k] = Behind(d, d.ranges[k]) /\ At[k + 1] = d.ranges[k + 1].at
    BY <2>2
  <2> HIDE DEF n, At, To
  <2> QED BY <2>3, <2>4
<1>4. To[i] <= At[j]
  <2> HIDE DEF n, At, To
  <2> QED BY <1>1, <1>2, <1>3, Ordered DEF n
<1> QED BY <1>4

\* What follows n ranges is behind them.
LEMMA BehindThePlace ==
  ASSUME NEW d \in Dumps, NEW n \in 0..Len(d.ranges)
  PROVE  /\ \A k \in n + 1..Len(d.ranges) : Place(d, n) <= d.ranges[k].at
         /\ Place(d, n) <= Described(d) /\ Described(d) \in Nat
         /\ n = Len(d.ranges) => Described(d) = Place(d, n)
<1>1. Len(d.ranges) \in Nat /\ (d.ranges = <<>> <=> Len(d.ranges) = 0)
  BY DumpTypes, EmptySeq
<1>2. \A k \in 1..Len(d.ranges) : d.ranges[k].at \in Nat
  BY BehindIsBehind
<1>3. Place(d, n) \in Nat
  BY PlaceIsNext
<1>4. \A k \in n + 1..Len(d.ranges) : Place(d, n) <= d.ranges[k].at
  <2>1. TAKE k \in n + 1..Len(d.ranges)
  <2>2. CASE n = 0
    BY <1>1, <1>2, <2>2 DEF Place
  <2>3. CASE n # 0
    BY <1>1, <2>3, RangesInOrder DEF Place
  <2> QED BY <2>2, <2>3
<1>5. CASE Len(d.ranges) = 0
  <2>1. d.ranges = <<>> /\ n = 0
    BY <1>1, <1>5
  <2>2. Described(d) = 0 /\ Place(d, n) = 0
    BY <2>1 DEF Described, Place
  <2> QED BY <1>4, <2>2
<1>6. CASE Len(d.ranges) # 0
  <2> DEFINE last == Len(d.ranges)
  <2>1. last \in 1..last /\ Described(d) = Behind(d, d.ranges[last])
    BY <1>1, <1>6 DEF Described
  <2>2. Described(d) \in Nat /\ d.ranges[last].at + HeaderSize <= Described(d)
    BY <2>1, BehindIsBehind
  <2>3. CASE n = last
    BY <1>4, <1>6, <2>1, <2>2, <2>3 DEF Place
  <2>4. CASE n # last
    <3>1. Place(d, n) <= d.ranges[last].at
      BY <1>1, <1>4, <2>1, <2>4
    <3>2. d.ranges[last].at \in Nat
      BY <1>2, <2>1
    <3> QED BY <1>3, <1>4, <2>2, <2>4, <3>1, <3>2 DEF HeaderSize
  <2> QED BY <2>3, <2>4
<1> QED BY <1>5, <1>6

LEMMA NextIsReached ==
  ASSUME NEW d \in Dumps, NEW n \in 0..Len(d.ranges), n < Len(d.ranges)
  PROVE  Reached(d, n + 1) <=> ~AtEnd(d, n)
<1>1. d.ranges[n + 1].at = Place(d, n) /\ Place(d, n) \in Nat /\ d.last \in Nat
  BY PlaceIsNext, DumpTypes
<1> QED BY <1>1 DEF Reached, AtEnd

\* A dump is loaded when its ranges are passed up to where the loader stops.
LEMMA LoadsToTheEnd ==
  ASSUME NEW d \in Dumps, NEW n \in 0..Len(d.ranges), Passed(d, n), AtEnd(d, n),
         d.avml \/ d.last > 0
  PROVE  /\ \A k \in 1..Len(d.ranges) : Reached(d, k) <=> k \in 1..n
         /\ Loadable(d)
<1>1. Len(d.ranges) \in Nat /\ d.last \in Nat /\ Place(d, n) \in Nat
  BY DumpTypes, PlaceIsNext
<1>2. \A k \in 1..Len(d.ranges) : Reached(d, k) <=> k \in 1..n
  <2>1. TAKE k \in 1..Len(d.ranges)
  <2>2. CASE k \in 1..n
    BY <2>2 DEF Passed
  <2>3. CASE k \notin 1..n
    <3>1. Place(d, n) <= d.ranges[k].at /\ d.ranges[k].at \in Nat
      BY <1>1, <2>3, BehindThePlace, BehindIsBehind
    <3>2. ~Reached(d, k)
      BY <1>1, <3>1 DEF Reached, AtEnd
    <3> QED BY <2>3, <3>2
  <2> QED BY <2>2, <2>3
<1>3. \A k \in 1..Len(d.ranges) : Reached(d, k) => RangeLoads(d, k)
  BY <1>2, Zenon DEF Passed
<1>4. Place(d, n) <= Described(d) /\ Described(d) \in Nat
  BY BehindThePlace
<1>5. IF d.avml THEN Described(d) + 4 >= d.last ELSE d.last > 0 /\ Described(d) >= d.last
  BY <1>1, <1>4 DEF AtEnd
<1> QED BY <1>2, <1>3, <1>5, Zenon DEF Loadable

\* It is not when the loader has not stopped and there is no range, or a bad one.
LEMMA NoFurther ==
  ASSUME NEW d \in Dumps, NEW n \in 0..Len(d.ranges), ~AtEnd(d, n),
         n < Len(d.ranges) => ~RangeLoads(d, n + 1)
  PROVE  ~Loadable(d)
<1>1. Len(d.ranges) \in Nat /\ d.last \in Nat /\ Place(d, n) \in Nat
  BY DumpTypes, PlaceIsNext
<1>2. CASE n < Len(d.ranges)
  <2>1. n + 1 \in 1..Len(d.ranges) /\ Reached(d, n + 1)
    BY <1>1, <1>2, NextIsReached
  <2> QED BY <1>2, <2>1, Zenon DEF Loadable
<1>3. CASE n = Len(d.ranges)
  <2>1. Described(d) = Place(d, n)
    BY <1>3, BehindThePlace
  <2> QED BY <1>1, <2>1 DEF Loadable, AtEnd
<1> QED BY <1>1, <1>2, <1>3

-----------------------------------------------------------------------------
(* Tables of segments.                                                      *)

SegmentRecords == [at : Nat, mapped : Nat, size : Nat, msize : Nat]
Elements(list) == {list[i] : i \in 1..Len(list)}

\* Each holds an address, they share one at most, and are in the order of the file.
Sorted(list) ==
  /\ \A i \in 1..Len(list) : list[i].size > 0
  /\ \A i, j \in 1..Len(list) :
       i < j => Stop(list[i]) <= list[j].at + 1 /\ list[i].mapped < list[j].mapped

\* All of it is before an address and a place in the file.
UpTo(list, address, place) ==
  \A i \in 1..Len(list) : Stop(list[i]) <= address /\ list[i].mapped < place

\* What a segment says of itself.
Says(s, a, m, n, t) ==
  /\ s \in SegmentRecords /\ s.at = a /\ s.mapped = m /\ s.size = n /\ s.msize = t
  /\ Stop(s) = a + n

LEMMA SegmentFacts ==
  ASSUME NEW a \in Nat, NEW m \in Nat, NEW n \in Nat, NEW t \in Nat
  PROVE  Says(Segment(a, m, n, t), a, m, n, t)
  BY DEF Segment, SegmentRecords, Stop, Says

LEMMA SegmentFields ==
  ASSUME NEW s \in SegmentRecords
  PROVE  /\ s.at \in Nat /\ s.mapped \in Nat /\ s.size \in Nat /\ s.msize \in Nat
         /\ Stop(s) \in Nat /\ Stop(s) = s.at + s.size
  BY DEF SegmentRecords, Stop

LEMMA SegmentIn ==
  ASSUME NEW list \in Seq(SegmentRecords), NEW i \in 1..Len(list)
  PROVE  list[i] \in SegmentRecords
  BY ElementOfSeq

LEMMA TableLength ==
  ASSUME NEW list \in Seq(SegmentRecords)
  PROVE  Len(list) \in Nat
  BY LenProperties

\* A table in order is in the order of the addresses.
LEMMA SortedByAddress ==
  ASSUME NEW list \in Seq(SegmentRecords), Sorted(list),
         NEW i \in 1..Len(list), NEW j \in 1..Len(list), i < j
  PROVE  list[i].at <= list[j].at /\ Stop(list[i]) <= list[j].at + 1
         /\ list[i].mapped < list[j].mapped
<1>1. Stop(list[i]) <= list[j].at + 1 /\ list[i].mapped < list[j].mapped /\ list[i].size > 0
  BY Zenon DEF Sorted
<1>2. list[i] \in SegmentRecords /\ list[j] \in SegmentRecords
  BY SegmentIn
<1> DEFINE s == list[i]
           f == list[j]
<1>3. /\ s.at \in Nat /\ s.size \in Nat /\ Stop(s) = s.at + s.size /\ f.at \in Nat
  BY <1>2, SegmentFields
<1>4. Stop(s) <= f.at + 1 /\ s.size > 0
  BY <1>1
<1>5. s.at <= f.at
  <2> HIDE DEF s, f
  <2> QED BY <1>3, <1>4
<1> QED BY <1>1, <1>5

LEMMA AppendedTable ==
  ASSUME NEW list \in Seq(SegmentRecords), NEW s \in SegmentRecords, NEW new, new = Append(list, s)
  PROVE  /\ new \in Seq(SegmentRecords) /\ Len(new) = Len(list) + 1 /\ new # <<>>
         /\ \A i \in 1..Len(list) : new[i] = list[i]
         /\ new[Len(list) + 1] = s
         /\ Elements(new) = Elements(list) \cup {s}
<1>1. /\ new \in Seq(SegmentRecords) /\ Len(new) = Len(list) + 1 /\ new # <<>>
      /\ \A i \in 1..Len(list) : new[i] = list[i]
      /\ new[Len(list) + 1] = s
  BY AppendProperties
<1>2. Len(list) \in Nat
  BY TableLength
<1>3. 1..Len(new) = 1..Len(list) \cup {Len(list) + 1}
  BY <1>1, <1>2
<1>4. Elements(new) = Elements(list) \cup {s}
  <2>1. \A f : f \in Elements(new) <=> f \in Elements(list) \/ f = s
    BY <1>1, <1>3 DEF Elements
  <2> QED BY <2>1
<1> QED BY <1>1, <1>4

\* What is in a table that took one more segment.
LEMMA AppendedElements ==
  ASSUME NEW list \in Seq(SegmentRecords), NEW s \in SegmentRecords, NEW new, new = Append(list, s)
  PROVE  new \in Seq(SegmentRecords) /\ Elements(new) = Elements(list) \cup {s}
  BY AppendedTable, Zenon

\* A segment behind the others is added in order.
LEMMA AppendedInOrder ==
  ASSUME NEW list \in Seq(SegmentRecords), NEW s \in SegmentRecords, NEW new, new = Append(list, s),
         NEW address \in Nat, NEW place \in Nat, Sorted(list), UpTo(list, address, place),
         s.size > 0, address <= s.at + 1, place <= s.mapped
  PROVE  Sorted(new)
<1>1. /\ Len(new) = Len(list) + 1 /\ Len(list) \in Nat
      /\ \A i \in 1..Len(list) : new[i] = list[i]
      /\ new[Len(list) + 1] = s
  BY AppendedTable, TableLength
<1>2. /\ \A i \in 1..Len(list) : list[i] \in SegmentRecords
      /\ \A i \in 1..Len(list) : Stop(list[i]) \in Nat /\ list[i].mapped \in Nat
      /\ s.at \in Nat /\ s.mapped \in Nat
  BY SegmentIn, SegmentFields
<1>3. \A i \in 1..Len(list) : Stop(list[i]) <= address /\ list[i].mapped < place
  BY Zenon DEF UpTo
<1>4. \A i \in 1..Len(list) : Stop(list[i]) <= s.at + 1 /\ list[i].mapped < s.mapped
  <2>1. TAKE i \in 1..Len(list)
  <2> DEFINE m == Stop(list[i])
             t == list[i].mapped
  <2>2. m \in Nat /\ t \in Nat /\ m <= address /\ t < place
    BY <1>2, <1>3
  <2> HIDE DEF m, t
  <2>3. m <= s.at + 1 /\ t < s.mapped
    BY <1>2, <2>2
  <2> QED BY <2>3 DEF m, t
<1>5. /\ \A i \in 1..Len(list) : list[i].size > 0
      /\ \A i, j \in 1..Len(list) :
           i < j => Stop(list[i]) <= list[j].at + 1 /\ list[i].mapped < list[j].mapped
  BY Zenon DEF Sorted
<1>6. \A i \in 1..Len(new) : new[i].size > 0
  BY <1>1, <1>5
<1>7. ASSUME NEW i \in 1..Len(new), NEW j \in 1..Len(new), i < j
      PROVE  Stop(new[i]) <= new[j].at + 1 /\ new[i].mapped < new[j].mapped
  <2>1. i \in 1..Len(list) /\ new[i] = list[i]
    BY <1>1, <1>7
  <2>2. CASE j \in 1..Len(list)
    <3>1. new[j] = list[j]
      BY <1>1, <2>2
    <3> QED BY <1>5, <1>7, <2>1, <2>2, <3>1, Zenon
  <2>3. CASE j \notin 1..Len(list)
    <3>1. j = Len(list) + 1 /\ new[j] = s
      BY <1>1, <2>3
    <3> QED BY <1>4, <2>1, <3>1, Zenon
  <2> QED BY <2>2, <2>3
<1> QED BY <1>6, <1>7, Zenon DEF Sorted

LEMMA AppendedUpTo ==
  ASSUME NEW list \in Seq(SegmentRecords), NEW s \in SegmentRecords, NEW new, new = Append(list, s),
         NEW address \in Nat, NEW place \in Nat, UpTo(list, address, place),
         NEW a \in Nat, NEW p \in Nat, address <= a, Stop(s) <= a, place <= p, s.mapped < p
  PROVE  UpTo(new, a, p)
<1>1. /\ Len(new) = Len(list) + 1 /\ Len(list) \in Nat
      /\ \A i \in 1..Len(list) : new[i] = list[i]
      /\ new[Len(list) + 1] = s
  BY AppendedTable, TableLength
<1>2. ASSUME NEW i \in 1..Len(new) PROVE Stop(new[i]) <= a /\ new[i].mapped < p
  <2>1. CASE i \in 1..Len(list)
    <3> DEFINE f == list[i]
    <3>1. new[i] = f /\ f \in SegmentRecords
      BY <1>1, <2>1, SegmentIn
    <3>2. Stop(f) <= address /\ f.mapped < place
      BY <2>1, Zenon DEF UpTo
    <3>3. Stop(f) \in Nat /\ f.mapped \in Nat
      BY <3>1, SegmentFields
    <3> HIDE DEF f
    <3>4. Stop(f) <= a /\ f.mapped < p
      BY <3>2, <3>3
    <3> QED BY <3>1, <3>4
  <2>2. CASE i \notin 1..Len(list)
    BY <1>1, <1>2, <2>2
  <2> QED BY <2>1, <2>2
<1> QED BY <1>2, Zenon DEF UpTo

LEMMA UpToMore ==
  ASSUME NEW list \in Seq(SegmentRecords), NEW address \in Nat, NEW place \in Nat,
         UpTo(list, address, place),
         NEW a \in Nat, NEW p \in Nat, address <= a, place <= p
  PROVE  UpTo(list, a, p)
<1>1. ASSUME NEW i \in 1..Len(list) PROVE Stop(list[i]) <= a /\ list[i].mapped < p
  <2> DEFINE f == list[i]
  <2>1. Stop(f) <= address /\ f.mapped < place
    BY Zenon DEF UpTo
  <2>2. Stop(f) \in Nat /\ f.mapped \in Nat
    BY SegmentIn, SegmentFields
  <2> HIDE DEF f
  <2>3. Stop(f) <= a /\ f.mapped < p
    BY <2>1, <2>2
  <2> QED BY <2>3 DEF f
<1> QED BY <1>1, Zenon DEF UpTo

LEMMA EmptyTable ==
  ASSUME NEW a, NEW p
  PROVE  /\ <<>> \in Seq(SegmentRecords) /\ Len(<<>>) = 0 /\ Elements(<<>>) = {}
         /\ Sorted(<<>>) /\ UpTo(<<>>, a, p)
<1>1. <<>> \in Seq(SegmentRecords) /\ Len(<<>>) = 0
  BY EmptySeq
<1>2. 1..Len(<<>>) = {}
  BY <1>1
<1> QED BY <1>1, <1>2, Zenon DEF Elements, Sorted, UpTo

-----------------------------------------------------------------------------
(* What a range has stored.                                                 *)

LEMMA FramePlace ==
  ASSUME NEW a \in Nat, NEW b \in Nat
  PROVE  a + HeaderSize + b + FrameHeader + CrcLength \in Nat
  BY DEF HeaderSize, FrameHeader, CrcLength

LEMMA FrameFits ==
  ASSUME NEW a \in Nat, NEW b \in Nat, NEW c \in Nat, NEW n \in Nat, NEW t \in Nat,
         b + FrameHeader + c <= n, n <= t - (a + HeaderSize)
  PROVE  a + HeaderSize + b + FrameHeader + CrcLength + (c - CrcLength) <= t
  BY DEF HeaderSize, FrameHeader, CrcLength

\* A frame of data, and where the bytes it decodes to come from.
LEMMA FrameSegmentFacts ==
  ASSUME NEW r \in Ranges, GoodStream(r), NEW j \in 1..Len(r.frames), HasData(r.frames[j])
  PROVE  LET f == r.frames[j]
             s == FrameSegment(r, f) IN
         /\ s \in SegmentRecords /\ s.size > 0 /\ s.msize > 0
         /\ s.at = r.start + f.before /\ s.size = f.out
         /\ s.mapped = r.at + HeaderSize + f.at + FrameHeader + CrcLength
         /\ s.msize = f.size - CrcLength
<1> DEFINE f == r.frames[j]
           a == r.start + f.before
           m == r.at + HeaderSize + f.at + FrameHeader + CrcLength
           t == f.size - CrcLength
<1>1. /\ r.at \in Nat /\ r.start \in Nat /\ f.at \in Nat /\ f.size \in Nat
      /\ f.before \in Nat /\ f.out \in Nat
  BY RangeFields, FrameFields
<1>2. f.size > CrcLength /\ f.out > 0
  BY GoodFrame
<1> HIDE DEF f
<1>3. a \in Nat /\ m \in Nat
  <2>1. a \in Nat
    BY <1>1
  <2>2. m \in Nat
    BY <1>1, FramePlace, Zenon
  <2> QED BY <2>1, <2>2
<1>4. t \in Nat /\ t > 0
  BY <1>1, <1>2 DEF CrcLength
<1>5. FrameSegment(r, f) = Segment(a, m, f.out, t)
  BY DEF FrameSegment
<1> HIDE DEF a, m, t
<1>6. Says(FrameSegment(r, f), a, m, f.out, t)
  BY <1>1, <1>3, <1>4, <1>5, SegmentFacts, Zenon
<1>7. /\ FrameSegment(r, f) \in SegmentRecords
      /\ FrameSegment(r, f).size > 0 /\ FrameSegment(r, f).msize > 0
      /\ FrameSegment(r, f).at = a /\ FrameSegment(r, f).size = f.out
      /\ FrameSegment(r, f).mapped = m /\ FrameSegment(r, f).msize = t
  BY <1>2, <1>4, <1>6 DEF Says
<1> QED BY <1>7 DEF f, a, m, t

LEMMA LimeSegmentFacts ==
  ASSUME NEW r \in Ranges, r.start <= r.end
  PROVE  LET n == r.end - r.start + 1
             s == Segment(r.start, r.at + HeaderSize, n, n) IN
         /\ s \in SegmentRecords /\ s.size > 0 /\ s.at = r.start /\ s.size = n
         /\ s.mapped = r.at + HeaderSize /\ s.msize = n /\ Stop(s) = r.end + 1
<1> DEFINE n == r.end - r.start + 1
           m == r.at + HeaderSize
<1>1. /\ n \in Nat /\ n > 0 /\ m \in Nat /\ r.start \in Nat /\ r.end \in Nat
      /\ r.start + n = r.end + 1
  BY RangeFields DEF HeaderSize
<1> HIDE DEF n, m
<1>2. Says(Segment(r.start, m, n, n), r.start, m, n, n)
  BY <1>1, SegmentFacts, Zenon
<1>3. /\ Stop(Segment(r.start, m, n, n)) = r.end + 1 /\ Segment(r.start, m, n, n).size > 0
      /\ Segment(r.start, m, n, n) \in SegmentRecords /\ Segment(r.start, m, n, n).at = r.start
      /\ Segment(r.start, m, n, n).mapped = m /\ Segment(r.start, m, n, n).size = n
      /\ Segment(r.start, m, n, n).msize = n
  BY <1>1, <1>2 DEF Says
<1> QED BY <1>3 DEF n, m

LEMMA LesserFacts ==
  ASSUME NEW a \in Int, NEW b \in Int
  PROVE  Lesser(a, b) \in Int /\ Lesser(a, b) <= a /\ Lesser(a, b) <= b /\ Lesser(a, b) \in {a, b}
  BY DEF Lesser

\* What is stored for a range that loads: a compressed frame is in the file, a piece of a
\* LiME range may be cut off.
StoredWell(d, s) ==
  /\ s \in SegmentRecords /\ s.size > 0
  /\ d.avml => s.msize > 0 /\ s.mapped + s.msize <= d.last
  /\ ~d.avml => s.mapped <= d.last + 1

LEMMA StoredIsWell ==
  ASSUME NEW d \in Dumps, NEW k \in 1..Len(d.ranges), RangeLoads(d, k),
         NEW s \in Stored(d, d.ranges[k])
  PROVE  StoredWell(d, s)
<1> DEFINE r == d.ranges[k]
<1>1. /\ r \in Ranges /\ d.last \in Nat /\ d.avml \in BOOLEAN
      /\ r.at \in Nat /\ r.start \in Nat /\ r.end \in Nat
  BY RangeTypes, RangeFields, DumpTypes
<1>2. CASE d.avml
  <2>1. PICK j \in 1..Len(r.frames) : HasData(r.frames[j]) /\ s = FrameSegment(r, r.frames[j])
    BY <1>2, Zenon DEF Stored
  <2>2. GoodStream(r)
    BY <1>2, StreamsAreGood
  <2>3. StreamLength(r) <= Lesser(r.end - r.start, d.last - (r.at + HeaderSize))
    BY <1>2, Zenon DEF RangeLoads
  <2> DEFINE f == r.frames[j]
  <2>4. /\ s \in SegmentRecords /\ s.size > 0 /\ s.msize > 0
        /\ s.mapped = r.at + HeaderSize + f.at + FrameHeader + CrcLength
        /\ s.msize = f.size - CrcLength
    BY <1>1, <2>1, <2>2, FrameSegmentFacts
  <2>5. StreamLength(r) \in Nat /\ f.at + FrameHeader + f.size <= StreamLength(r)
        /\ f.at \in Nat /\ f.size \in Nat
    BY <1>1, <2>1, <2>2, FrameInStream, FrameFields
  <2> HIDE DEF f, r
  <2>6. StreamLength(r) <= d.last - (r.at + HeaderSize)
    <3> DEFINE a == r.end - r.start
               b == d.last - (r.at + HeaderSize)
    <3>1. a \in Int /\ b \in Int
      BY <1>1 DEF HeaderSize
    <3>2. StreamLength(r) <= Lesser(a, b)
      BY <2>3
    <3> HIDE DEF a, b
    <3>3. Lesser(a, b) \in Int /\ Lesser(a, b) <= b
      BY <3>1, LesserFacts, Zenon
    <3>4. StreamLength(r) <= b
      BY <2>5, <3>1, <3>2, <3>3
    <3> QED BY <3>4 DEF b
  <2>7. r.at + HeaderSize + f.at + FrameHeader + CrcLength + (f.size - CrcLength) <= d.last
    BY <1>1, <2>5, <2>6, FrameFits, Zenon
  <2>8. s.mapped + s.msize <= d.last
    BY <2>4, <2>7, Zenon
  <2> QED BY <1>2, <2>4, <2>8 DEF StoredWell
<1>3. CASE ~d.avml
  <2>1. s = Segment(r.start, r.at + HeaderSize, r.end - r.start + 1, r.end - r.start + 1)
    BY <1>3, Zenon DEF Stored
  <2>2. r.start <= r.end /\ r.at + HeaderSize - 1 <= d.last
    BY <1>3, Zenon DEF RangeLoads
  <2>3. s \in SegmentRecords /\ s.size > 0 /\ s.mapped = r.at + HeaderSize
    BY <1>1, <2>1, <2>2, LimeSegmentFacts
  <2> HIDE DEF r
  <2>4. s.mapped <= d.last + 1
    BY <1>1, <2>2, <2>3 DEF HeaderSize
  <2> QED BY <1>3, <2>3, <2>4 DEF StoredWell
<1> QED BY <1>1, <1>2, <1>3

-----------------------------------------------------------------------------
(* A table that is complete, and what is found in it.                       *)

\* All that is stored for the ranges of a file that loads, in order.
TableOf(d, list) ==
  /\ d \in Dumps /\ list \in Seq(SegmentRecords) /\ Sorted(list)
  /\ Elements(list) =
       UNION {Stored(d, d.ranges[k]) : k \in {k \in 1..Len(d.ranges) : Reached(d, k)}}
  /\ \A s \in Elements(list) : StoredWell(d, s)

LEMMA HoldingIsInTable ==
  ASSUME NEW d, NEW list, TableOf(d, list), NEW a
  PROVE  Holding(d, a) = {s \in Elements(list) : s.at <= a /\ a < Stop(s)}
  BY Zenon DEF TableOf, Holding

LEMMA ElementInTable ==
  ASSUME NEW d, NEW list, TableOf(d, list), NEW i \in 1..Len(list)
  PROVE  /\ list[i] \in Elements(list) /\ list[i] \in SegmentRecords /\ StoredWell(d, list[i])
         /\ list[i].at \in Nat /\ list[i].mapped \in Nat /\ list[i].size \in Nat
         /\ list[i].msize \in Nat /\ Stop(list[i]) \in Nat
         /\ Stop(list[i]) = list[i].at + list[i].size /\ list[i].size > 0
<1>1. list[i] \in Elements(list)
  BY Zenon DEF Elements
<1>2. StoredWell(d, list[i])
  BY <1>1, Zenon DEF TableOf
<1>3. list[i] \in SegmentRecords /\ list[i].size > 0
  BY <1>2, Zenon DEF StoredWell
<1> QED BY <1>1, <1>2, <1>3, SegmentFields, Zenon

\* What precedes a place in the table comes first.
LEMMA PrecedesIsMonotone ==
  ASSUME TableOf(dump, segments), NEW place \in Nat,
         NEW i \in 1..Len(segments), NEW j \in 1..Len(segments), i < j,
         Precedes(segments[j], place)
  PROVE  Precedes(segments[i], place)
<1> DEFINE s == segments[i]
           f == segments[j]
<1>1. s.at <= f.at /\ s.mapped < f.mapped
  BY SortedByAddress, Zenon DEF TableOf
<1>2. s.at \in Nat /\ s.mapped \in Nat /\ f.at \in Nat /\ f.mapped \in Nat
  BY ElementInTable, Zenon
<1>3. dump.last \in Nat
  BY DumpTypes DEF TableOf
<1>4. f.at < place \/ (f.at = place /\ f.mapped < dump.last)
  BY DEF Precedes
<1> HIDE DEF s, f
<1>5. s.at < place \/ (s.at = place /\ s.mapped < dump.last)
  BY <1>1, <1>2, <1>3, <1>4
<1> QED BY <1>5 DEF Precedes, s

LEMMA RightmostFacts ==
  ASSUME TableOf(dump, segments), NEW place \in Nat
  PROVE  /\ Rightmost(place) \in 0..Len(segments)
         /\ \A k \in 1..Len(segments) : Precedes(segments[k], place) <=> k <= Rightmost(place)
<1> DEFINE After == {k \in 1..Len(segments) : ~Precedes(segments[k], place)}
           Splits(i) == \A k \in 1..Len(segments) : Precedes(segments[k], place) <=> k <= i
<1>1. Len(segments) \in Nat
  BY TableLength DEF TableOf
<1>2. \E i \in 0..Len(segments) : Splits(i)
  <2>1. CASE After = {}
    <3>1. Splits(Len(segments))
      BY <1>1, <2>1
    <3> QED BY <1>1, <3>1
  <2>2. CASE After # {}
    <3>1. After \in SUBSET Nat
      BY <1>1
    <3>2. PICK m \in After : \A y \in After : m <= y
      BY <2>2, <3>1, Least
    <3>3. m \in 1..Len(segments) /\ ~Precedes(segments[m], place)
      OBVIOUS
    <3>4. \A k \in 1..Len(segments) : k < m => Precedes(segments[k], place)
      BY <1>1, <3>2, <3>3
    <3>5. \A k \in 1..Len(segments) : m < k => ~Precedes(segments[k], place)
      BY <3>3, PrecedesIsMonotone
    <3>6. Splits(m - 1)
      <4>1. TAKE k \in 1..Len(segments)
      <4>2. CASE k < m
        BY <1>1, <3>3, <3>4, <4>2
      <4>3. CASE k = m
        BY <1>1, <3>3, <4>3
      <4>4. CASE m < k
        BY <1>1, <3>3, <3>5, <4>4
      <4> QED BY <1>1, <3>3, <4>2, <4>3, <4>4
    <3>7. m - 1 \in 0..Len(segments)
      BY <1>1, <3>3
    <3> HIDE DEF Splits
    <3> QED BY <3>6, <3>7, Zenon
  <2> QED BY <2>1, <2>2
<1>3. Rightmost(place) = CHOOSE i \in 0..Len(segments) : Splits(i)
  BY DEF Rightmost
<1> HIDE DEF Splits
<1>4. Rightmost(place) \in 0..Len(segments) /\ Splits(Rightmost(place))
  BY <1>2, <1>3
<1> QED BY <1>4 DEF Splits

\* Where no segment contains the place, there is nothing up to the one behind it.
LEMMA Hole ==
  ASSUME TableOf(dump, segments), NEW place \in Nat, ~Contained(place), NEW a \in Nat, place <= a,
         Rightmost(place) < Len(segments) => a < segments[Rightmost(place) + 1].at
  PROVE  Holding(dump, a) = {}
<1> DEFINE i == Rightmost(place)
<1>1. /\ i \in 0..Len(segments) /\ Len(segments) \in Nat
      /\ \A k \in 1..Len(segments) : Precedes(segments[k], place) <=> k <= i
  BY RightmostFacts, TableLength DEF TableOf
<1>2. i > 0 => ~(place < Stop(segments[i]))
  BY DEF Contained
<1>3. i < Len(segments) => a < segments[i + 1].at
  OBVIOUS
<1>4. Sorted(segments) /\ segments \in Seq(SegmentRecords)
  BY DEF TableOf
<1> HIDE DEF i
<1>5. ASSUME NEW k \in 1..Len(segments) PROVE ~(segments[k].at <= a /\ a < Stop(segments[k]))
  <2> DEFINE s == segments[k]
  <2>1. s.at \in Nat /\ s.size \in Nat /\ Stop(s) \in Nat /\ Stop(s) = s.at + s.size
    BY ElementInTable, Zenon
  <2>2. CASE k > i
    <3> DEFINE f == segments[i + 1]
    <3>1. i + 1 \in 1..Len(segments) /\ i < Len(segments)
      BY <1>1, <2>2
    <3>2. f.at \in Nat /\ a < f.at
      BY <1>3, <3>1, ElementInTable, Zenon
    <3>3. f.at <= s.at
      <4>1. CASE k = i + 1
        BY <2>1, <4>1
      <4>2. CASE k # i + 1
        <5>1. i + 1 < k
          BY <1>1, <2>2, <4>2
        <5> QED BY <1>4, <3>1, <5>1, SortedByAddress
      <4> QED BY <4>1, <4>2
    <3> HIDE DEF s, f
    <3>4. ~(s.at <= a)
      BY <2>1, <3>2, <3>3
    <3> QED BY <3>4 DEF s
  <2>3. CASE k = i
    <3>1. ~(place < Stop(s)) /\ i > 0
      BY <1>1, <1>2, <2>3
    <3> HIDE DEF s
    <3>2. ~(a < Stop(s))
      BY <2>1, <3>1
    <3> QED BY <3>2 DEF s
  <2>4. CASE k < i
    <3> DEFINE f == segments[i]
    <3>1. i \in 1..Len(segments) /\ i > 0
      BY <1>1, <2>4
    <3>2. f.at \in Nat /\ f.size \in Nat /\ Stop(f) = f.at + f.size /\ f.size > 0
      BY <3>1, ElementInTable, Zenon
    <3>3. Stop(s) <= f.at + 1
      BY <1>4, <2>4, <3>1, SortedByAddress
    <3>4. ~(place < Stop(f))
      BY <1>2, <3>1
    <3> HIDE DEF s, f
    <3>5. ~(a < Stop(s))
      BY <2>1, <3>2, <3>3, <3>4
    <3> QED BY <3>5 DEF s
  <2> QED BY <1>1, <2>2, <2>3, <2>4
<1>6. \A s \in Elements(segments) : ~(s.at <= a /\ a < Stop(s))
  BY <1>5, Zenon DEF Elements
<1>7. Holding(dump, a) = {s \in Elements(segments) : s.at <= a /\ a < Stop(s)}
  BY HoldingIsInTable
<1> QED BY <1>6, <1>7, Zenon

\* A segment that contains a place holds what is from there up to its end.
LEMMA ContainedIsHeld ==
  ASSUME TableOf(dump, segments), NEW i \in 1..Len(segments), NEW a \in Nat,
         segments[i].at <= a, a < Stop(segments[i])
  PROVE  segments[i] \in Holding(dump, a)
<1>1. segments[i] \in Elements(segments)
  BY ElementInTable, Zenon
<1> QED BY <1>1, HoldingIsInTable

LEMMA ContainedFacts ==
  ASSUME TableOf(dump, segments), NEW place \in Nat, Contained(place)
  PROVE  LET i == Rightmost(place) IN
         i \in 1..Len(segments) /\ segments[i].at <= place /\ place < Stop(segments[i])
<1> DEFINE i == Rightmost(place)
<1>1. i \in 0..Len(segments) /\ i > 0 /\ place < Stop(segments[i]) /\ Len(segments) \in Nat
  BY RightmostFacts, TableLength DEF Contained, TableOf
<1>2. i \in 1..Len(segments)
  BY <1>1
<1>3. i <= i
  BY <1>2
<1>4. Precedes(segments[i], place)
  BY <1>2, <1>3, RightmostFacts
<1>5. segments[i].at \in Nat
  BY <1>2, ElementInTable, Zenon
<1>6. segments[i].at < place \/ segments[i].at = place
  BY <1>4 DEF Precedes
<1>7. segments[i].at <= place
  <2> DEFINE m == segments[i].at
  <2> HIDE DEF m
  <2>1. m \in Nat /\ (m < place \/ m = place)
    BY <1>5, <1>6 DEF m
  <2>2. m <= place
    BY <2>1
  <2> QED BY <2>2 DEF m
<1> QED BY <1>1, <1>2, <1>7

-----------------------------------------------------------------------------
(* What is read.                                                            *)

ByteRecords == [from : Int, index : Int]

\* Each byte of a list is the one for its address, from the first of a request on.
RightTo(d, q, list) ==
  \A k \in 1..Len(list) :
    LET a == q.at + k - 1 IN
    \/ list[k] = Zero /\ q.pad /\ Holding(d, a) = {}
    \/ \E s \in Holding(d, a) : OnFile(d, s, a) /\ list[k] = ByteOf(d, s, a)

LEMMA ListOf ==
  ASSUME NEW S, NEW n \in Nat, NEW f \in [1..n -> S]
  PROVE  f \in Seq(S) /\ Len(f) = n
<1>1. f \in Seq(S)
  BY SeqDef
<1>2. DOMAIN f = 1..n /\ DOMAIN f = 1..Len(f) /\ Len(f) \in Nat
  BY <1>1, LenProperties
<1> QED BY <1>1, <1>2

LEMMA ZerosFacts ==
  ASSUME NEW n \in Nat
  PROVE  /\ Zeros(n) \in Seq(ByteRecords) /\ Len(Zeros(n)) = n
         /\ \A k \in 1..n : Zeros(n)[k] = Zero
<1>1. Zeros(n) \in [1..n -> ByteRecords]
  BY DEF Zeros, Zero, ByteRecords
<1>2. \A k \in 1..n : Zeros(n)[k] = Zero
  BY DEF Zeros
<1> QED BY <1>1, <1>2, ListOf

LEMMA BytesFacts ==
  ASSUME NEW s \in SegmentRecords, NEW place \in Nat, NEW n \in Nat, dump \in Dumps
  PROVE  /\ Bytes(s, place, n) \in Seq(ByteRecords) /\ Len(Bytes(s, place, n)) = n
         /\ \A k \in 1..n : Bytes(s, place, n)[k] = ByteOf(dump, s, place + k - 1)
<1>1. s.at \in Nat /\ s.mapped \in Nat /\ dump.avml \in BOOLEAN
  BY SegmentFields, DumpTypes
<1>2. CASE dump.avml
  <2>1. Bytes(s, place, n) = [k \in 1..n |-> [from |-> s.mapped, index |-> place - s.at + k - 1]]
    BY <1>2, Zenon DEF Bytes
  <2>2. Bytes(s, place, n) \in [1..n -> ByteRecords]
    BY <1>1, <2>1 DEF ByteRecords
  <2>3. \A k \in 1..n : place - s.at + k - 1 = (place + k - 1) - s.at
    BY <1>1
  <2>4. \A k \in 1..n : Bytes(s, place, n)[k] = ByteOf(dump, s, place + k - 1)
    <3>1. TAKE k \in 1..n
    <3>2. Bytes(s, place, n)[k] = [from |-> s.mapped, index |-> place - s.at + k - 1]
      BY <2>1
    <3>3. ByteOf(dump, s, place + k - 1) = [from |-> s.mapped, index |-> (place + k - 1) - s.at]
      BY <1>2 DEF ByteOf
    <3> QED BY <2>3, <3>2, <3>3, Zenon
  <2> QED BY <2>2, <2>4, ListOf
<1>3. CASE ~dump.avml
  <2>1. Bytes(s, place, n) = [k \in 1..n |-> [from |-> MappedAt(s, place) + k - 1, index |-> 0]]
    BY <1>3, Zenon DEF Bytes
  <2>2. MappedAt(s, place) = s.mapped + place - s.at
    BY <1>3 DEF MappedAt
  <2>3. Bytes(s, place, n) \in [1..n -> ByteRecords]
    BY <1>1, <2>1, <2>2 DEF ByteRecords
  <2>4. \A k \in 1..n : MappedAt(s, place) + k - 1 = s.mapped + (place + k - 1) - s.at
    BY <1>1, <2>2
  <2>5. \A k \in 1..n : Bytes(s, place, n)[k] = ByteOf(dump, s, place + k - 1)
    BY <1>3, <2>1, <2>4 DEF ByteOf
  <2> QED BY <2>3, <2>5, ListOf
<1> QED BY <1>1, <1>2, <1>3

\* A list gets longer.
LEMMA Joined ==
  ASSUME NEW list \in Seq(ByteRecords), NEW more \in Seq(ByteRecords), NEW new, new = list \o more,
         NEW d, NEW q, q.at \in Nat, RightTo(d, q, list),
         \A k \in 1..Len(more) :
           LET a == q.at + Len(list) + k - 1 IN
           \/ more[k] = Zero /\ q.pad /\ Holding(d, a) = {}
           \/ \E s \in Holding(d, a) : OnFile(d, s, a) /\ more[k] = ByteOf(d, s, a)
  PROVE  new \in Seq(ByteRecords) /\ Len(new) = Len(list) + Len(more) /\ RightTo(d, q, new)
<1> DEFINE Right(e, a) ==
      \/ e = Zero /\ q.pad /\ Holding(d, a) = {}
      \/ \E s \in Holding(d, a) : OnFile(d, s, a) /\ e = ByteOf(d, s, a)
<1>1. /\ new \in Seq(ByteRecords) /\ Len(new) = Len(list) + Len(more)
      /\ \A i \in 1..Len(list) + Len(more) :
           new[i] = IF i <= Len(list) THEN list[i] ELSE more[i - Len(list)]
  BY ConcatProperties
<1>2. Len(list) \in Nat /\ Len(more) \in Nat
  BY LenProperties
<1>3. \A k \in 1..Len(list) : Right(list[k], q.at + k - 1)
  BY Zenon DEF RightTo
<1>4. \A k \in 1..Len(more) : Right(more[k], q.at + Len(list) + k - 1)
  BY Zenon
<1> HIDE DEF Right
<1>5. ASSUME NEW k \in 1..Len(new) PROVE Right(new[k], q.at + k - 1)
  <2>1. CASE k <= Len(list)
    <3>1. k \in 1..Len(list) /\ new[k] = list[k]
      BY <1>1, <1>2, <2>1
    <3> QED BY <1>3, <3>1, Zenon
  <2>2. CASE ~(k <= Len(list))
    <3>1. k - Len(list) \in 1..Len(more) /\ new[k] = more[k - Len(list)]
      BY <1>1, <1>2, <2>2
    <3>2. q.at + Len(list) + (k - Len(list)) - 1 = q.at + k - 1
      BY <1>2
    <3> QED BY <1>4, <3>1, <3>2
  <2> QED BY <2>1, <2>2
<1> QED BY <1>1, <1>5, Zenon DEF RightTo, Right

-----------------------------------------------------------------------------
(* The read.                                                                *)

LEMMA RequestTypes ==
  ASSUME NEW q \in Requests
  PROVE  /\ q.at \in Nat /\ q.length \in Nat /\ q.length > 0 /\ q.pad \in BOOLEAN
         /\ q.at + q.length \in Nat
<1>1. q.at \in Nat /\ q.length \in Nat \ {0} /\ q.pad \in BOOLEAN
  BY RequestAssumption, Zenon
<1> QED BY <1>1

\* Why a read raised.
ReasonTo(d, q, list) ==
  LET next == q.at + Len(list) IN
  /\ next < q.at + q.length
  /\ \/ \E a \in next..(q.at + q.length) - 1 : \E s \in Holding(d, a) : ~OnFile(d, s, a)
     \/ ~q.pad /\ Holding(d, next) = {}
     \/ ~q.pad /\ \E s \in Holding(d, next) : s.at = next /\ s.mapped = d.last

\* What a read has got so far, and how it ended.
ReadState(d, q, list, place, state) ==
  /\ q \in Requests /\ list \in Seq(ByteRecords) /\ RightTo(d, q, list)
  /\ state \in {"mapping", "returned", "raised"}
  /\ state = "mapping" => place = q.at + Len(list) /\ place < q.at + q.length
  /\ state = "returned" => Len(list) = q.length
  /\ state = "raised" => ReasonTo(d, q, list)
ReadIsRight == ReadState(dump, request, recovered, current, phase)

LEMMA MappingFacts ==
  ASSUME ReadIsRight, phase = "mapping"
  PROVE  /\ request \in Requests /\ recovered \in Seq(ByteRecords)
         /\ RightTo(dump, request, recovered) /\ Len(recovered) \in Nat
         /\ request.at \in Nat /\ request.length \in Nat /\ request.pad \in BOOLEAN
         /\ current \in Nat /\ Until \in Nat /\ Until = request.at + request.length
         /\ current = request.at + Len(recovered) /\ current < Until
<1>1. /\ request \in Requests /\ recovered \in Seq(ByteRecords)
      /\ RightTo(dump, request, recovered)
      /\ current = request.at + Len(recovered) /\ current < Until
      /\ Until = request.at + request.length
  BY DEF ReadIsRight, ReadState, Until
<1>2. Len(recovered) \in Nat
  BY <1>1, LenProperties
<1>3. request.at \in Nat /\ request.length \in Nat /\ request.pad \in BOOLEAN
  BY <1>1, RequestTypes
<1>4. current \in Nat /\ Until \in Nat
  BY <1>1, <1>2, <1>3
<1> QED BY <1>1, <1>2, <1>3, <1>4

LEMMA PieceLength ==
  ASSUME NEW a \in Nat, NEW b \in Nat, NEW place \in Nat, place < a, place <= b
  PROVE  LET n == Lesser(a - place, b - place) IN
         /\ n \in Nat /\ place + n <= a /\ place + n <= b
         /\ place < b => n > 0
         /\ place + n - 1 = place + (n - 1)
  BY DEF Lesser

LEMMA Gap ==
  ASSUME NEW a \in Nat, NEW b \in Nat, a <= b
  PROVE  b - a \in Nat /\ a + (b - a) = b
  OBVIOUS

LEMMA IndexOf ==
  ASSUME NEW a \in Nat, NEW n \in Nat, NEW c, c = a + n, NEW k \in Nat \ {0}
  PROVE  a + n + k - 1 = c + (k - 1) /\ a + n + k - 1 = c + k - 1
  OBVIOUS

LEMMA EndOf ==
  ASSUME NEW a \in Nat, NEW n \in Nat, NEW k \in Nat
  PROVE  a + (n + k) = (a + n) + k
  OBVIOUS

LEMMA InGap ==
  ASSUME NEW a \in Nat, NEW n \in Nat, NEW b \in Nat, a + n = b, NEW k \in 1..n
  PROVE  a + (k - 1) \in Nat /\ a <= a + (k - 1) /\ a + (k - 1) < b /\ b > a
  OBVIOUS

\* Nothing is held from where the read is up to a place, and it pads; a segment holds,
\* and the file has, the n bytes from a place on.
Padded(place) ==
  /\ current <= place /\ (place > current => request.pad)
  /\ \A a \in Nat : current <= a /\ a < place => Holding(dump, a) = {}
HeldFrom(s, place, n) ==
  /\ s.at <= place /\ place + n <= Stop(s)
  /\ \A k \in 1..n : OnFile(dump, s, place + k - 1)
Extended(s, place, n) == recovered \o Zeros(place - current) \o Bytes(s, place, n)
ReadSoFar(list, place) ==
  /\ list \in Seq(ByteRecords) /\ RightTo(dump, request, list)
  /\ request.at + Len(list) = place

\* Zeros and the bytes of a segment are added to what was read.
LEMMA PieceIsRight ==
  ASSUME TableOf(dump, segments), ReadIsRight, phase = "mapping",
         NEW m \in 1..Len(segments), NEW place \in Nat, NEW n \in Nat,
         Padded(place), HeldFrom(segments[m], place, n)
  PROVE  ReadSoFar(Extended(segments[m], place, n), place + n)
<1> DEFINE s == segments[m]
           gap == place - current
           padded == recovered \o Zeros(gap)
           bytes == Bytes(s, place, n)
           new == padded \o bytes
<1>0. /\ current <= place /\ (place > current => request.pad)
      /\ \A a \in Nat : current <= a /\ a < place => Holding(dump, a) = {}
      /\ s.at <= place /\ place + n <= Stop(s)
      /\ \A k \in 1..n : OnFile(dump, s, place + k - 1)
  BY Zenon DEF Padded, HeldFrom
<1>1. /\ recovered \in Seq(ByteRecords) /\ RightTo(dump, request, recovered)
      /\ Len(recovered) \in Nat /\ request.at \in Nat /\ current \in Nat
      /\ current = request.at + Len(recovered)
  BY MappingFacts, Zenon
<1>2. gap \in Nat /\ current + gap = place
  BY <1>0, <1>1, Gap, Zenon
<1>3. /\ Zeros(gap) \in Seq(ByteRecords) /\ Len(Zeros(gap)) = gap
      /\ \A k \in 1..gap : Zeros(gap)[k] = Zero
  BY <1>2, ZerosFacts
<1>4. \A k \in 1..Len(Zeros(gap)) :
        LET a == request.at + Len(recovered) + k - 1 IN
        \/ Zeros(gap)[k] = Zero /\ request.pad /\ Holding(dump, a) = {}
        \/ \E e \in Holding(dump, a) : OnFile(dump, e, a) /\ Zeros(gap)[k] = ByteOf(dump, e, a)
  <2>1. TAKE k \in 1..Len(Zeros(gap))
  <2>2. Zeros(gap)[k] = Zero /\ k \in 1..gap
    BY <1>3
  <2>3. request.at + Len(recovered) + k - 1 = current + (k - 1)
    <3>1. k \in Nat \ {0}
      BY <1>2, <2>2
    <3> QED BY <1>1, <3>1, IndexOf, Zenon
  <2>4. /\ current + (k - 1) \in Nat /\ current <= current + (k - 1) /\ current + (k - 1) < place
        /\ place > current
    BY <1>1, <1>2, <2>2, InGap, Zenon
  <2>5. Holding(dump, current + (k - 1)) = {} /\ request.pad
    BY <1>0, <2>4
  <2> QED BY <2>2, <2>3, <2>5
<1>5. /\ padded \in Seq(ByteRecords) /\ Len(padded) = Len(recovered) + gap
      /\ RightTo(dump, request, padded)
  <2>1. /\ padded \in Seq(ByteRecords) /\ Len(padded) = Len(recovered) + Len(Zeros(gap))
        /\ RightTo(dump, request, padded)
    <3> DEFINE zeros == Zeros(gap)
    <3>1. zeros \in Seq(ByteRecords) /\ padded = recovered \o zeros
      BY <1>3
    <3>2. \A k \in 1..Len(zeros) :
            LET a == request.at + Len(recovered) + k - 1 IN
            \/ zeros[k] = Zero /\ request.pad /\ Holding(dump, a) = {}
            \/ \E e \in Holding(dump, a) : OnFile(dump, e, a) /\ zeros[k] = ByteOf(dump, e, a)
      BY <1>4
    <3> HIDE DEF zeros, padded
    <3>3. /\ padded \in Seq(ByteRecords) /\ Len(padded) = Len(recovered) + Len(zeros)
          /\ RightTo(dump, request, padded)
      BY <1>1, <3>1, <3>2, Joined
    <3> QED BY <3>3 DEF zeros
  <2> QED BY <1>3, <2>1
<1>6. s \in SegmentRecords /\ s.at \in Nat /\ Stop(s) \in Nat
  BY ElementInTable, Zenon
<1>7. /\ bytes \in Seq(ByteRecords) /\ Len(bytes) = n
      /\ \A k \in 1..n : bytes[k] = ByteOf(dump, s, place + k - 1)
  BY <1>6, BytesFacts DEF TableOf
<1>8. request.at + Len(padded) = place
  <2>1. request.at \in Nat /\ Len(recovered) \in Nat /\ gap \in Nat
    BY <1>1, <1>2
  <2>2. Len(padded) = Len(recovered) + gap /\ request.at + Len(recovered) = current
    BY <1>1, <1>5
  <2> HIDE DEF gap, padded
  <2>3. request.at + (Len(recovered) + gap) = (request.at + Len(recovered)) + gap
    BY <2>1, EndOf
  <2>4. current + gap = place
    BY <1>2
  <2> QED BY <2>2, <2>3, <2>4, Zenon
<1>9. \A k \in 1..Len(bytes) :
        LET a == request.at + Len(padded) + k - 1 IN
        \/ bytes[k] = Zero /\ request.pad /\ Holding(dump, a) = {}
        \/ \E e \in Holding(dump, a) : OnFile(dump, e, a) /\ bytes[k] = ByteOf(dump, e, a)
  <2>1. TAKE k \in 1..Len(bytes)
  <2>2. k \in 1..n /\ bytes[k] = ByteOf(dump, s, place + k - 1)
    BY <1>7
  <2>3. request.at + Len(padded) + k - 1 = place + k - 1
    <3>1. k \in Nat \ {0} /\ Len(padded) \in Nat
      <4>1. k \in Nat \ {0}
        BY <2>2
      <4>2. Len(padded) \in Nat
        BY <1>5, LenProperties, Zenon
      <4> QED BY <4>1, <4>2
    <3>2. place = request.at + Len(padded)
      BY <1>8
    <3> HIDE DEF padded
    <3> QED BY <1>1, <3>1, <3>2, IndexOf, Zenon
  <2>4. place + k - 1 \in Nat /\ s.at <= place + k - 1 /\ place + k - 1 < Stop(s)
    BY <1>0, <1>6, <2>2
  <2>5. s \in Holding(dump, place + k - 1)
    BY <2>4, ContainedIsHeld
  <2>6. OnFile(dump, s, place + k - 1)
    BY <1>0, <2>2
  <2> QED BY <2>2, <2>3, <2>5, <2>6
<1>10. Extended(s, place, n) = new
  BY DEF Extended
<1> HIDE DEF padded, bytes
<1>11. /\ new \in Seq(ByteRecords) /\ Len(new) = Len(padded) + Len(bytes)
       /\ RightTo(dump, request, new)
  BY <1>1, <1>5, <1>7, <1>9, Joined
<1>12. request.at + Len(new) = place + n
  <2>1. Len(padded) \in Nat /\ place = request.at + Len(padded) /\ Len(bytes) = n
    BY <1>1, <1>2, <1>5, <1>7, <1>8
  <2>2. request.at + (Len(padded) + n) = (request.at + Len(padded)) + n
    <3>1. request.at \in Nat /\ Len(padded) \in Nat /\ n \in Nat
      BY <1>1, <2>1
    <3> QED BY <3>1, EndOf
  <2> QED BY <1>11, <2>1, <2>2
<1> HIDE DEF new
<1> QED BY <1>10, <1>11, <1>12 DEF ReadSoFar

\* A piece of a segment is taken, or ends the read because the file does not hold it.
LEMMA TakeIsRight ==
  ASSUME TableOf(dump, segments), ReadIsRight, phase = "mapping",
         NEW m \in 1..Len(segments), NEW place \in Nat,
         segments[m].at <= place, place < Stop(segments[m]), place <= Until, Padded(place),
         Take(segments[m], place)
  PROVE  ReadState(dump, request, recovered', current', phase')
<1> DEFINE s == segments[m]
           n == Lesser(Stop(s) - place, Until - place)
           msize == IF dump.avml THEN s.msize ELSE n
<1>1. /\ request \in Requests /\ recovered \in Seq(ByteRecords)
      /\ RightTo(dump, request, recovered) /\ Len(recovered) \in Nat
      /\ request.at \in Nat /\ request.length \in Nat /\ request.pad \in BOOLEAN
      /\ current \in Nat /\ Until \in Nat /\ Until = request.at + request.length
      /\ current = request.at + Len(recovered) /\ current < Until
  BY MappingFacts, Zenon
<1>2. /\ StoredWell(dump, s) /\ s.at \in Nat /\ s.mapped \in Nat /\ s.msize \in Nat
      /\ Stop(s) \in Nat
  BY ElementInTable, Zenon
<1>3. dump.last \in Nat /\ dump.avml \in BOOLEAN
  BY DumpTypes DEF TableOf
<1>4. /\ n \in Nat /\ place + n <= Stop(s) /\ place + n <= Until
      /\ place < Until => n > 0
      /\ place + n - 1 = place + (n - 1)
  <2> DEFINE b == Stop(s)
  <2>1. b \in Nat /\ place < b
    BY <1>2
  <2> HIDE DEF b
  <2>2. /\ Lesser(b - place, Until - place) \in Nat
        /\ place + Lesser(b - place, Until - place) <= b
        /\ place + Lesser(b - place, Until - place) <= Until
        /\ place < Until => Lesser(b - place, Until - place) > 0
        /\ place + Lesser(b - place, Until - place) - 1
             = place + (Lesser(b - place, Until - place) - 1)
    BY <1>1, <2>1, PieceLength
  <2> QED BY <2>2 DEF b
<1>5. \/ /\ msize > 0 => InFile(MappedAt(s, place), msize)
         /\ recovered' = recovered \o Zeros(place - current) \o Bytes(s, place, n)
         /\ current' = place + n
         /\ phase' = IF current' >= Until THEN "returned" ELSE phase
      \/ /\ msize > 0 /\ ~InFile(MappedAt(s, place), msize)
         /\ phase' = "raised" /\ recovered' = recovered /\ current' = current
  BY DEF Take
<1> HIDE DEF n
<1>6. CASE /\ msize > 0 => InFile(MappedAt(s, place), msize)
           /\ recovered' = recovered \o Zeros(place - current) \o Bytes(s, place, n)
           /\ current' = place + n
           /\ phase' = IF current' >= Until THEN "returned" ELSE phase
  <2>1. \A k \in 1..n : OnFile(dump, s, place + k - 1)
    <3>1. CASE dump.avml
      BY <3>1, Zenon DEF OnFile
    <3>2. CASE ~dump.avml
      <4>1. TAKE k \in 1..n
      <4>2. n > 0 /\ k \in Nat /\ k <= n /\ k >= 1
        BY <1>4
      <4>3. InFile(s.mapped + place - s.at, n)
        BY <1>6, <3>2, <4>2 DEF MappedAt
      <4>4. s.mapped + place - s.at + n - 1 <= dump.last
        BY <4>3 DEF InFile
      <4> DEFINE at == s.at
                 mapped == s.mapped
      <4>5. at \in Nat /\ mapped \in Nat /\ mapped + place - at + n - 1 <= dump.last
        BY <1>2, <4>4
      <4> HIDE DEF at, mapped
      <4>6. mapped + (place + k - 1) - at <= dump.last
        BY <1>3, <1>4, <4>2, <4>5
      <4>7. s.mapped + (place + k - 1) - s.at <= dump.last
        BY <4>6 DEF at, mapped
      <4> QED BY <4>7 DEF OnFile
    <3> QED BY <3>1, <3>2
  <2>2. HeldFrom(s, place, n) /\ n \in Nat
    BY <1>4, <2>1, Zenon DEF HeldFrom
  <2>3. /\ recovered' \in Seq(ByteRecords) /\ RightTo(dump, request, recovered')
        /\ current' = request.at + Len(recovered')
    <3>1. ReadSoFar(Extended(s, place, n), place + n)
      BY <2>2, PieceIsRight, Zenon
    <3>2. recovered' = Extended(s, place, n) /\ current' = place + n
      BY <1>6, Zenon DEF Extended
    <3> QED BY <3>1, <3>2, Zenon DEF ReadSoFar
  <2>4. Len(recovered') \in Nat
    BY <2>3, LenProperties
  <2>5. current' <= Until /\ current' \in Nat
    BY <1>4, <1>6
  <2>6. CASE current' >= Until
    <3>1. phase' = "returned"
      BY <1>6, <2>6
    <3>2. Len(recovered') = request.length
      BY <1>1, <2>3, <2>4, <2>5, <2>6
    <3> QED BY <1>1, <2>3, <3>1, <3>2 DEF ReadState
  <2>7. CASE ~(current' >= Until)
    <3>1. phase' = "mapping"
      BY <1>6, <2>7
    <3>2. current' < request.at + request.length
      BY <1>1, <2>5, <2>7
    <3> QED BY <1>1, <2>3, <3>1, <3>2 DEF ReadState
  <2> QED BY <2>6, <2>7
<1>7. CASE /\ msize > 0 /\ ~InFile(MappedAt(s, place), msize)
           /\ phase' = "raised" /\ recovered' = recovered /\ current' = current
  <2>1. ~dump.avml
    <3>1. SUFFICES ASSUME dump.avml PROVE FALSE
      OBVIOUS
    <3>2. ~InFile(s.mapped, s.msize)
      BY <1>7, <3>1 DEF MappedAt
    <3>3. s.mapped + s.msize <= dump.last
      BY <1>2, <3>1, Zenon DEF StoredWell
    <3>4. 0 <= s.mapped /\ s.mapped + s.msize - 1 <= dump.last
      BY <1>2, <1>3, <3>3
    <3> QED BY <3>2, <3>4 DEF InFile
  <2>2. n > 0 /\ ~InFile(s.mapped + place - s.at, n)
    BY <1>7, <2>1 DEF MappedAt
  <2> DEFINE at == s.at
             mapped == s.mapped
             a == place + n - 1
  <2>3. at \in Nat /\ mapped \in Nat /\ at <= place
        /\ ~(0 <= mapped + place - at /\ mapped + place - at + n - 1 <= dump.last)
    BY <1>2, <2>2 DEF InFile
  <2> HIDE DEF at, mapped
  <2>4. ~(mapped + a - at <= dump.last)
    BY <1>3, <1>4, <2>2, <2>3
  <2>5. /\ a \in Nat /\ at <= a /\ a < Stop(s) /\ current <= a
        /\ a \in current..Until - 1
    <3> DEFINE b == Stop(s)
    <3>1. b \in Nat /\ place + n <= b
      BY <1>2, <1>4
    <3> HIDE DEF b
    <3>2. a \in Nat /\ place <= a /\ a < b /\ a < Until
      <4>1. /\ place \in Nat /\ n \in Nat /\ n > 0 /\ place + n <= b /\ b \in Nat
            /\ place + n <= Until /\ Until \in Nat
        BY <1>1, <1>4, <2>2, <3>1
      <4> QED BY <4>1
    <3> HIDE DEF a
    <3>3. current <= place
      BY DEF Padded
    <3>4. at <= a /\ current <= a /\ a \in current..Until - 1
      BY <1>1, <2>3, <3>2, <3>3
    <3> QED BY <3>2, <3>4 DEF b
  <2> HIDE DEF a
  <2>6. s \in Holding(dump, a)
    BY <2>5, ContainedIsHeld DEF at
  <2>7. ~OnFile(dump, s, a)
    BY <2>1, <2>4 DEF OnFile, at, mapped
  <2>8. ReasonTo(dump, request, recovered)
    <3>1. request.at + Len(recovered) < request.at + request.length
      BY <1>1
    <3>2. a \in request.at + Len(recovered)..(request.at + request.length) - 1
      BY <1>1, <2>5
    <3> QED BY <2>6, <2>7, <3>1, <3>2, Zenon DEF ReasonTo
  <2> QED BY <1>1, <1>7, <2>8 DEF ReadState
<1> QED BY <1>5, <1>6, <1>7

\* The segment behind a place that none contains begins there or later.
LEMMA SegmentBehind ==
  ASSUME TableOf(dump, segments), NEW place \in Nat, Rightmost(place) < Len(segments)
  PROVE  LET i == Rightmost(place) + 1 IN
         /\ i \in 1..Len(segments) /\ segments[i].at \in Nat /\ place <= segments[i].at
         /\ segments[i].at < Stop(segments[i]) /\ ~Precedes(segments[i], place)
<1> DEFINE i == Rightmost(place) + 1
           m == segments[i].at
<1>1. Rightmost(place) \in 0..Len(segments) /\ Len(segments) \in Nat
  BY RightmostFacts, TableLength DEF TableOf
<1>2. i \in 1..Len(segments) /\ ~(i <= Rightmost(place))
  BY <1>1
<1>3. ~Precedes(segments[i], place)
  BY <1>2, RightmostFacts
<1>4. /\ m \in Nat /\ segments[i].size \in Nat /\ segments[i].size > 0
      /\ Stop(segments[i]) = m + segments[i].size
  BY <1>2, ElementInTable
<1>5. ~(m < place)
  BY <1>3 DEF Precedes
<1>6. m < Stop(segments[i])
  <2> DEFINE n == segments[i].size
  <2>1. n \in Nat /\ n > 0 /\ Stop(segments[i]) = m + n
    BY <1>4
  <2> HIDE DEF n, m
  <2> QED BY <1>4, <2>1
<1>7. place <= m
  <2> HIDE DEF m
  <2> QED BY <1>4, <1>5
<1> QED BY <1>2, <1>3, <1>4, <1>6, <1>7

LEMMA ReadSegmentIsRight ==
  ASSUME TableOf(dump, segments), ReadIsRight, ReadSegment
  PROVE  ReadState(dump, request, recovered', current', phase')
<1> DEFINE i == Rightmost(current)
<1>1. /\ phase = "mapping"
      /\ \/ Contained(current) /\ Take(segments[i], current)
         \/ /\ ~Contained(current) /\ request.pad /\ Later(current)
            /\ Take(segments[i + 1], segments[i + 1].at)
  BY DEF ReadSegment
<1>2. current \in Nat /\ Until \in Nat /\ current < Until
  BY <1>1, MappingFacts
<1>3. CASE Contained(current) /\ Take(segments[i], current)
  <2>1. i \in 1..Len(segments) /\ segments[i].at <= current /\ current < Stop(segments[i])
    BY <1>2, <1>3, ContainedFacts
  <2>2. Padded(current)
    <3>1. /\ current <= current /\ ~(current > current) /\ current <= Until
          /\ \A a \in Nat : ~(current <= a /\ a < current)
      BY <1>2
    <3> QED BY <3>1, Zenon DEF Padded
  <2>3. current <= Until
    BY <1>2
  <2> HIDE DEF i
  <2> QED BY <1>1, <1>2, <1>3, <2>1, <2>2, <2>3, TakeIsRight
<1>4. CASE /\ ~Contained(current) /\ request.pad /\ Later(current)
           /\ Take(segments[i + 1], segments[i + 1].at)
  <2> DEFINE j == i + 1
             place == segments[j].at
  <2>1. i < Len(segments) /\ place <= Until
    BY <1>4 DEF Later
  <2>2. /\ j \in 1..Len(segments) /\ place \in Nat /\ current <= place
        /\ place < Stop(segments[j])
    BY <1>2, <2>1, SegmentBehind
  <2>3. \A a \in Nat : current <= a /\ a < place => Holding(dump, a) = {}
    BY <1>2, <1>4, Hole
  <2>4. Padded(place)
    BY <1>4, <2>2, <2>3, Zenon DEF Padded
  <2>5. place <= place
    BY <2>2
  <2>6. Take(segments[j], place)
    BY <1>4
  <2> HIDE DEF j
  <2>7. place \in Nat /\ place < Stop(segments[j]) /\ place <= Until /\ segments[j].at <= place
    BY <2>1, <2>2, <2>5
  <2> HIDE DEF place
  <2> QED BY <1>1, <2>2, <2>4, <2>6, <2>7, TakeIsRight, Zenon
<1> QED BY <1>1, <1>3, <1>4

LEMMA ReadHoleIsRight ==
  ASSUME TableOf(dump, segments), ReadIsRight, ReadHole
  PROVE  ReadState(dump, request, recovered', current', phase')
<1> DEFINE i == Rightmost(current)
<1>1. phase = "mapping" /\ ~Contained(current) /\ current' = current
  BY DEF ReadHole
<1>2. /\ request \in Requests /\ recovered \in Seq(ByteRecords)
      /\ RightTo(dump, request, recovered) /\ Len(recovered) \in Nat
      /\ request.at \in Nat /\ request.length \in Nat /\ request.pad \in BOOLEAN
      /\ current \in Nat /\ Until \in Nat /\ Until = request.at + request.length
      /\ current = request.at + Len(recovered) /\ current < Until
  BY <1>1, MappingFacts, Zenon
<1>3. /\ i \in 0..Len(segments) /\ Len(segments) \in Nat
  BY <1>2, RightmostFacts, TableLength DEF TableOf
<1>4. CASE request.pad /\ ~Later(current) /\ phase' = "returned"
             /\ recovered' = recovered \o Zeros(Until - current)
  <2> DEFINE n == Until - current
             zeros == Zeros(n)
  <2>1. n \in Nat /\ current + n = Until
    BY <1>2, Gap
  <2>2. zeros \in Seq(ByteRecords) /\ Len(zeros) = n /\ \A k \in 1..n : zeros[k] = Zero
    BY <2>1, ZerosFacts
  <2>3. \A a \in Nat : current <= a /\ a < Until => Holding(dump, a) = {}
    <3>1. TAKE a \in Nat
    <3>2. HAVE current <= a /\ a < Until
    <3>3. i < Len(segments) => a < segments[i + 1].at
      <4>1. HAVE i < Len(segments)
      <4>2. ~(segments[i + 1].at <= Until)
        BY <1>4, <4>1 DEF Later
      <4> DEFINE m == segments[i + 1].at
      <4>3. m \in Nat
        BY <1>2, <4>1, SegmentBehind
      <4>4. ~(m <= Until)
        BY <4>2
      <4> HIDE DEF m
      <4>5. a < m
        BY <1>2, <3>2, <4>3, <4>4
      <4> QED BY <4>5 DEF m
    <3> QED BY <1>1, <1>2, <3>2, <3>3, Hole
  <2>4. \A k \in 1..Len(zeros) :
          LET a == request.at + Len(recovered) + k - 1 IN
          \/ zeros[k] = Zero /\ request.pad /\ Holding(dump, a) = {}
          \/ \E s \in Holding(dump, a) : OnFile(dump, s, a) /\ zeros[k] = ByteOf(dump, s, a)
    <3>1. TAKE k \in 1..Len(zeros)
    <3>2. k \in 1..n /\ zeros[k] = Zero /\ k \in Nat \ {0}
      BY <2>1, <2>2
    <3>3. request.at + Len(recovered) + k - 1 = current + (k - 1)
      BY <1>2, <3>2, IndexOf, Zenon
    <3>4. /\ current + (k - 1) \in Nat /\ current <= current + (k - 1)
          /\ current + (k - 1) < Until
      BY <1>2, <2>1, <3>2, InGap, Zenon
    <3>5. Holding(dump, current + (k - 1)) = {}
      BY <2>3, <3>4
    <3> QED BY <1>4, <3>2, <3>3, <3>5
  <2>5. recovered' = recovered \o zeros
    BY <1>4
  <2> DEFINE new == recovered \o zeros
  <2>6. /\ new \in Seq(ByteRecords) /\ Len(new) = Len(recovered) + Len(zeros)
        /\ RightTo(dump, request, new)
    <3> HIDE DEF n, zeros
    <3> QED BY <1>2, <2>2, <2>4, Joined
  <2>7. Len(new) = request.length
    <3>1. Len(new) = Len(recovered) + n
      BY <2>2, <2>6
    <3>2. request.at + Len(recovered) + n = request.at + request.length
      BY <1>2, <2>1
    <3> HIDE DEF n, new
    <3> QED BY <1>2, <2>1, <3>1, <3>2
  <2> HIDE DEF new
  <2> QED BY <1>2, <1>4, <2>5, <2>6, <2>7 DEF ReadState, new
<1>5. CASE ~request.pad /\ phase' = "raised" /\ recovered' = recovered
  <2>1. current = request.at + Len(recovered) /\ current < request.at + request.length
    BY <1>2
  <2>2. \/ Holding(dump, current) = {}
        \/ \E s \in Holding(dump, current) : s.at = current /\ s.mapped = dump.last
        \/ \E s \in Holding(dump, current) : ~OnFile(dump, s, current)
    <3>1. CASE i < Len(segments)
      <4> DEFINE s == segments[i + 1]
      <4>1. /\ i + 1 \in 1..Len(segments) /\ s.at \in Nat /\ current <= s.at
            /\ s.at < Stop(s) /\ ~Precedes(s, current)
        BY <1>2, <3>1, SegmentBehind
      <4>2. CASE current < s.at
        <5>1. current <= current
          BY <1>2
        <5> QED BY <1>1, <1>2, <4>2, <5>1, Hole
      <4>3. CASE s.at = current
        <5>1. s \in Holding(dump, current)
          <6>1. s.at <= current /\ current < Stop(s)
            BY <1>2, <4>1, <4>3
          <6> QED BY <1>2, <4>1, <6>1, ContainedIsHeld
        <5>2. ~(s.mapped < dump.last)
          BY <4>1, <4>3 DEF Precedes
        <5>3. s.mapped \in Nat /\ s.msize \in Nat /\ StoredWell(dump, s)
          BY <4>1, ElementInTable, Zenon
        <5>4. dump.last \in Nat
          BY DumpTypes DEF TableOf
        <5> DEFINE m == s.mapped
                   t == s.msize
        <5>5. ~dump.avml
          <6>1. SUFFICES ASSUME dump.avml PROVE FALSE
            OBVIOUS
          <6>2. t > 0 /\ m + t <= dump.last
            BY <5>3, <6>1 DEF StoredWell
          <6>3. m \in Nat /\ t \in Nat /\ ~(m < dump.last)
            BY <5>2, <5>3
          <6> HIDE DEF m, t
          <6> QED BY <5>4, <6>2, <6>3
        <5>6. CASE m = dump.last
          BY <4>3, <5>1, <5>6
        <5>7. CASE m # dump.last
          <6>1. m \in Nat /\ ~(m < dump.last)
            BY <5>2, <5>3
          <6> DEFINE at == s.at
          <6>2. at \in Nat /\ at = current
            BY <4>1, <4>3
          <6> HIDE DEF m, at
          <6>3. ~(m + current - at <= dump.last)
            BY <5>4, <5>7, <6>1, <6>2
          <6>4. ~OnFile(dump, s, current)
            BY <5>5, <6>3 DEF OnFile, m, at
          <6> QED BY <5>1, <6>4, Zenon
        <5> QED BY <5>6, <5>7
      <4>4. current < s.at \/ s.at = current
        <5> DEFINE m == s.at
        <5>1. m \in Nat /\ current <= m
          BY <4>1
        <5> HIDE DEF m
        <5>2. current < m \/ m = current
          BY <1>2, <5>1
        <5> QED BY <5>2 DEF m
      <4> QED BY <4>2, <4>3, <4>4
    <3>2. CASE ~(i < Len(segments))
      <4>1. current <= current
        BY <1>2
      <4> QED BY <1>1, <1>2, <3>2, <4>1, Hole
    <3> QED BY <3>1, <3>2
  <2>3. current \in current..(request.at + request.length) - 1
    BY <1>2
  <2>4. ReasonTo(dump, request, recovered)
    BY <1>5, <2>1, <2>2, <2>3, Zenon DEF ReasonTo
  <2> QED BY <1>2, <1>5, <2>4 DEF ReadState
<1> QED BY <1>4, <1>5 DEF ReadHole

-----------------------------------------------------------------------------
(* The load.                                                                *)

StoredTo(d, n) == UNION {Stored(d, d.ranges[k]) : k \in 1..n}

\* What follows the addresses of the first n ranges.
Top(d, n) == IF n = 0 THEN 0 ELSE d.ranges[n].end + 1

\* The first n ranges are loaded, and nothing else.
LoadState(d, n, list) ==
  /\ n \in 0..Len(d.ranges) /\ Passed(d, n) /\ list \in Seq(SegmentRecords)
  /\ Sorted(list) /\ UpTo(list, Top(d, n), Place(d, n) + HeaderSize)
  /\ Elements(list) = StoredTo(d, n)

LEMMA NothingIsLoaded ==
  ASSUME NEW d \in Dumps
  PROVE  LoadState(d, 0, <<>>) /\ Place(d, 0) = 0
<1>1. 1..0 = {} /\ 0 \in 0..Len(d.ranges)
  BY DumpTypes
<1>2. Passed(d, 0) /\ StoredTo(d, 0) = {} /\ Place(d, 0) = 0
  BY <1>1 DEF Passed, StoredTo, Place
<1>3. /\ <<>> \in Seq(SegmentRecords) /\ Elements(<<>>) = {} /\ Sorted(<<>>)
      /\ UpTo(<<>>, Top(d, 0), Place(d, 0) + HeaderSize)
  BY EmptyTable
<1> QED BY <1>1, <1>2, <1>3 DEF LoadState

LEMMA OneMoreStored ==
  ASSUME NEW d, NEW n \in Nat
  PROVE  StoredTo(d, n + 1) = StoredTo(d, n) \cup Stored(d, d.ranges[n + 1])
<1>1. 1..n + 1 = 1..n \cup {n + 1}
  OBVIOUS
<1>2. \A s : s \in StoredTo(d, n + 1) <=> s \in StoredTo(d, n) \/ s \in Stored(d, d.ranges[n + 1])
  BY <1>1, Zenon DEF StoredTo
<1> QED BY <1>2, Zenon

LEMMA OneMorePassed ==
  ASSUME NEW d, NEW n \in Nat, Passed(d, n), Reached(d, n + 1), RangeLoads(d, n + 1)
  PROVE  Passed(d, n + 1)
<1>1. 1..n + 1 = 1..n \cup {n + 1}
  OBVIOUS
<1> QED BY <1>1, Zenon DEF Passed

LEMMA TopFacts ==
  ASSUME NEW d \in Dumps, NEW n \in 0..Len(d.ranges)
  PROVE  Top(d, n) \in Nat
<1>1. Len(d.ranges) \in Nat
  BY DumpTypes
<1>2. CASE n = 0
  BY <1>2 DEF Top
<1>3. CASE n # 0
  <2>1. n \in 1..Len(d.ranges)
    BY <1>1, <1>3
  <2>2. d.ranges[n].end \in Nat
    BY <2>1, RangeTypes, RangeFields
  <2> QED BY <1>3, <2>2 DEF Top
<1> QED BY <1>2, <1>3

\* A load that has come to the end of the file is complete.
LEMMA LoadIsComplete ==
  ASSUME NEW d \in Dumps, NEW n, NEW list, LoadState(d, n, list), AtEnd(d, n),
         d.avml \/ d.last > 0
  PROVE  Loadable(d) /\ TableOf(d, list)
<1>1. n \in 0..Len(d.ranges) /\ Passed(d, n) /\ Elements(list) = StoredTo(d, n)
      /\ list \in Seq(SegmentRecords) /\ Sorted(list) /\ Len(d.ranges) \in Nat
  BY DumpTypes DEF LoadState
<1>2. (\A k \in 1..Len(d.ranges) : Reached(d, k) <=> k \in 1..n) /\ Loadable(d)
  BY <1>1, LoadsToTheEnd, Zenon
<1>3. {k \in 1..Len(d.ranges) : Reached(d, k)} = 1..n
  <2>1. \A k \in 1..n : k \in 1..Len(d.ranges)
    BY <1>1
  <2> QED BY <1>2, <2>1, Zenon
<1>4. Elements(list) =
        UNION {Stored(d, d.ranges[k]) : k \in {k \in 1..Len(d.ranges) : Reached(d, k)}}
  BY <1>1, <1>3, Zenon DEF StoredTo
<1>5. \A s \in Elements(list) : StoredWell(d, s)
  <2>1. TAKE s \in Elements(list)
  <2>2. PICK k \in 1..n : s \in Stored(d, d.ranges[k])
    BY <1>1, Zenon DEF StoredTo
  <2>3. k \in 1..Len(d.ranges)
    BY <1>1
  <2>4. RangeLoads(d, k)
    BY <1>1, Zenon DEF Passed
  <2> QED BY <2>2, <2>3, <2>4, StoredIsWell, Zenon
<1> QED BY <1>1, <1>2, <1>4, <1>5, Zenon DEF TableOf

\* A LiME dump has a segment, and an address, once it has a range.
LEMMA LimeHasSegments ==
  ASSUME NEW d \in Dumps, ~d.avml, NEW n, NEW list, LoadState(d, n, list)
  PROVE  /\ list = <<>> => n = 0
         /\ list # <<>> => n \in Nat \ {0} /\ d.last > 0
<1>1. /\ n \in 0..Len(d.ranges) /\ Len(d.ranges) \in Nat /\ Passed(d, n)
      /\ Elements(list) = StoredTo(d, n) /\ list \in Seq(SegmentRecords)
  BY DumpTypes DEF LoadState
<1>2. list = <<>> => n = 0
  <2>1. SUFFICES ASSUME list = <<>>, n # 0 PROVE FALSE
    OBVIOUS
  <2>2. 1 \in 1..n
    BY <1>1, <2>1
  <2>3. Stored(d, d.ranges[1]) # {}
    BY DEF Stored
  <2>4. StoredTo(d, n) # {}
    BY <2>2, <2>3, Zenon DEF StoredTo
  <2>5. Elements(<<>>) = {}
    BY EmptyTable
  <2> QED BY <1>1, <2>1, <2>4, <2>5, Zenon
<1>3. ASSUME list # <<>> PROVE n # 0
  <2>1. Len(list) \in Nat \ {0}
    BY <1>1, <1>3, EmptySeq
  <2>2. list[1] \in Elements(list)
    BY <2>1 DEF Elements
  <2>3. 1..0 = {}
    OBVIOUS
  <2>4. StoredTo(d, 0) = {}
    BY <2>3, Zenon DEF StoredTo
  <2> QED BY <1>1, <2>2, <2>4, Zenon
<1>4. ASSUME n # 0 PROVE d.last > 0
  <2>1. 1 \in 1..n /\ Len(d.ranges) > 0
    BY <1>1, <1>4
  <2>2. Reached(d, 1) /\ d.ranges[1].at = 0
    BY <1>1, <2>1, FirstRange DEF Passed
  <2>3. 0 < d.last /\ d.last \in Nat
    BY <2>2, DumpTypes DEF Reached
  <2> QED BY <2>3
<1> QED BY <1>1, <1>2, <1>3, <1>4

\* The header that the loader reads is that of the next range.
LEMMA HeaderFacts ==
  ASSUME dump \in Dumps, loaded \in 0..Len(dump.ranges), offset = Place(dump, loaded), HeaderHere
  PROVE  /\ loaded + 1 \in 1..Len(dump.ranges) /\ loaded < Len(dump.ranges) /\ loaded \in Nat
         /\ NextRange = dump.ranges[loaded + 1] /\ NextRange \in Ranges
         /\ NextRange.at = offset /\ NextRange.good /\ offset + HeaderSize - 1 <= dump.last
         /\ offset \in Nat /\ dump.last \in Nat
         /\ NextRange.start \in Nat /\ NextRange.end \in Nat
<1>1. /\ loaded < Len(dump.ranges) /\ NextRange.at = offset /\ NextRange.good
      /\ offset + HeaderSize - 1 <= dump.last
  BY DEF HeaderHere, InFile
<1>2. Len(dump.ranges) \in Nat /\ dump.last \in Nat /\ offset \in Nat
  BY DumpTypes, PlaceIsNext
<1>3. loaded + 1 \in 1..Len(dump.ranges) /\ loaded \in Nat
  BY <1>1, <1>2
<1>4. NextRange = dump.ranges[loaded + 1]
  BY DEF NextRange
<1>5. NextRange \in Ranges
  BY <1>3, <1>4, RangeTypes
<1> QED BY <1>1, <1>2, <1>3, <1>4, <1>5, RangeFields, Zenon

LEMMA NoHeader ==
  ASSUME dump \in Dumps, loaded \in 0..Len(dump.ranges), offset = Place(dump, loaded), ~HeaderHere,
         loaded < Len(dump.ranges)
  PROVE  ~RangeLoads(dump, loaded + 1)
<1>1. NextRange.at = offset /\ offset \in Nat /\ dump.last \in Nat
  BY PlaceIsNext, DumpTypes DEF NextRange
<1>2. ~(0 <= offset /\ offset + HeaderSize - 1 <= dump.last) \/ ~NextRange.good
  BY <1>1 DEF HeaderHere, InFile
<1>3. 0 <= offset
  BY <1>1
<1> QED BY <1>1, <1>2, <1>3, Zenon DEF RangeLoads, NextRange

\* What it is for a range to load, in the one format and in the other.
LEMMA LimeLoads ==
  ASSUME NEW d, NEW k, ~d.avml
  PROVE  RangeLoads(d, k) <=>
           /\ d.ranges[k].good /\ d.ranges[k].at + HeaderSize - 1 <= d.last
           /\ d.ranges[k].start <= d.ranges[k].end
           /\ k > 1 => d.ranges[k - 1].end <= d.ranges[k].start
  BY DEF RangeLoads

LEMMA AvmlLoads ==
  ASSUME NEW d, NEW k, d.avml, NEW r, r = d.ranges[k]
  PROVE  RangeLoads(d, k) <=>
           /\ r.good /\ r.at + HeaderSize - 1 <= d.last
           /\ \A j \in 1..Len(r.frames) : r.frames[j].type # "unskippable"
           /\ StreamLength(r) <= Lesser(r.end - r.start, d.last - (r.at + HeaderSize))
  BY DEF RangeLoads

LastOf(d, n) == IF n = 0 THEN 0 ELSE d.ranges[n].end

LimeState(d, n, list, at, last) ==
  /\ ~d.avml /\ LoadState(d, n, list) /\ at = Place(d, n) /\ last = LastOf(d, n)

LEMMA HeaderSums ==
  ASSUME NEW a \in Nat, NEW n \in Nat
  PROVE  /\ a + HeaderSize + n \in Nat /\ a + HeaderSize \in Nat
         /\ a + HeaderSize <= a + HeaderSize + n + HeaderSize
         /\ a + HeaderSize < a + HeaderSize + n + HeaderSize
  BY DEF HeaderSize

\* A range of a LiME dump is taken.
LEMMA OneMoreRange ==
  ASSUME dump \in Dumps, LimeState(dump, loaded, segments, offset, maxaddr), offset < dump.last,
         HeaderHere, ~BadRange(NextRange, maxaddr),
         NEW n, n = NextRange.end - NextRange.start + 1,
         NEW list, list = Append(segments, Segment(NextRange.start, offset + HeaderSize, n, n))
  PROVE  LimeState(dump, loaded + 1, list, offset + HeaderSize + n, NextRange.end)
<1> DEFINE r == dump.ranges[loaded + 1]
           s == Segment(r.start, offset + HeaderSize, n, n)
           m == Top(dump, loaded)
           p == offset + HeaderSize
<1>1. /\ ~dump.avml /\ loaded \in 0..Len(dump.ranges) /\ Passed(dump, loaded)
      /\ segments \in Seq(SegmentRecords) /\ Sorted(segments)
      /\ UpTo(segments, m, p) /\ Elements(segments) = StoredTo(dump, loaded)
      /\ offset = Place(dump, loaded) /\ maxaddr = LastOf(dump, loaded)
  BY Zenon DEF LimeState, LoadState
<1>2. /\ loaded + 1 \in 1..Len(dump.ranges) /\ loaded < Len(dump.ranges) /\ loaded \in Nat
      /\ NextRange = r /\ r \in Ranges /\ r.at = offset /\ r.good
      /\ offset + HeaderSize - 1 <= dump.last
      /\ offset \in Nat /\ dump.last \in Nat /\ r.start \in Nat /\ r.end \in Nat
  BY <1>1, HeaderFacts, Zenon
<1>3. ~(r.start < maxaddr) /\ ~(r.end < r.start)
  BY <1>2 DEF BadRange
<1>4. r.start <= r.end
  <2> DEFINE a == r.start
             b == r.end
  <2>1. a \in Nat /\ b \in Nat /\ ~(b < a)
    BY <1>2, <1>3
  <2> HIDE DEF a, b
  <2>2. a <= b
    BY <2>1
  <2> QED BY <2>2 DEF a, b
<1>5. /\ s \in SegmentRecords /\ s.size > 0 /\ s.at = r.start /\ s.mapped = p
      /\ Stop(s) = r.end + 1
  BY <1>2, <1>4, LimeSegmentFacts
<1>6. list = Append(segments, s)
  BY <1>2
<1>7. n \in Nat /\ offset + HeaderSize + n \in Nat /\ p \in Nat
      /\ p <= offset + HeaderSize + n + HeaderSize /\ p < offset + HeaderSize + n + HeaderSize
  <2> DEFINE a == r.start
             b == r.end
  <2>1. a \in Nat /\ b \in Nat /\ a <= b /\ n = b - a + 1
    BY <1>2, <1>4
  <2> HIDE DEF a, b
  <2>2. n \in Nat
    BY <2>1
  <2>3. offset \in Nat
    BY <1>2
  <2>4. /\ offset + HeaderSize + n \in Nat /\ offset + HeaderSize \in Nat
        /\ offset + HeaderSize <= offset + HeaderSize + n + HeaderSize
        /\ offset + HeaderSize < offset + HeaderSize + n + HeaderSize
    BY <2>2, <2>3, HeaderSums, Zenon
  <2> QED BY <2>2, <2>4
<1>8. m \in Nat /\ m <= r.start + 1 /\ m <= r.end + 1
  <2> DEFINE a == r.start
             b == r.end
  <2>1. a \in Nat /\ b \in Nat /\ a <= b
    BY <1>2, <1>4
  <2>2. m \in Nat
    BY <1>1, TopFacts
  <2>3. CASE loaded = 0
    <3>1. m = 0
      BY <2>3 DEF Top
    <3> HIDE DEF a, b
    <3>2. m \in Nat /\ m <= a + 1 /\ m <= b + 1
      BY <2>1, <3>1
    <3> QED BY <3>2 DEF a, b
  <2>4. CASE loaded # 0
    <3>1. m = maxaddr + 1
      BY <1>1, <2>4 DEF Top, LastOf
    <3>2. maxaddr \in Nat
      <4>1. loaded \in 1..Len(dump.ranges)
        BY <1>2, <2>4
      <4> QED BY <1>1, <2>4, <4>1, RangeTypes, RangeFields DEF LastOf
    <3>3. ~(a < maxaddr)
      BY <1>3
    <3> HIDE DEF a, b, m
    <3>4. m <= a + 1 /\ m <= b + 1
      BY <2>1, <3>1, <3>2, <3>3
    <3> QED BY <2>2, <3>4 DEF a, b
  <2> QED BY <2>3, <2>4
<1>9. RangeLoads(dump, loaded + 1) /\ Reached(dump, loaded + 1)
  <2>1. loaded + 1 > 1 => dump.ranges[(loaded + 1) - 1].end <= r.start
    <3>1. HAVE loaded + 1 > 1
    <3>2. loaded # 0 /\ (loaded + 1) - 1 = loaded /\ loaded \in 1..Len(dump.ranges)
      BY <1>2, <3>1
    <3>3. maxaddr = dump.ranges[loaded].end /\ dump.ranges[loaded].end \in Nat
      BY <1>1, <3>2, RangeTypes, RangeFields DEF LastOf
    <3> DEFINE a == r.start
               b == dump.ranges[loaded].end
    <3>4. a \in Nat /\ b \in Nat /\ ~(a < b)
      BY <1>2, <1>3, <3>3
    <3> HIDE DEF a, b
    <3>5. b <= a
      BY <3>4
    <3> QED BY <3>2, <3>5 DEF a, b
  <2>2. r.at + HeaderSize - 1 <= dump.last /\ r.at < dump.last
    BY <1>2
  <2>3. RangeLoads(dump, loaded + 1)
    <3>1. /\ ~dump.avml /\ r.good /\ r.at + HeaderSize - 1 <= dump.last /\ r.start <= r.end
          /\ loaded + 1 > 1 => dump.ranges[(loaded + 1) - 1].end <= r.start
      BY <1>1, <1>2, <1>4, <2>1, <2>2
    <3> QED BY <3>1, LimeLoads
  <2>4. Reached(dump, loaded + 1)
    BY <1>1, <2>2 DEF Reached
  <2> QED BY <2>3, <2>4
<1>10. /\ loaded + 1 # 0 /\ Top(dump, loaded + 1) = r.end + 1
       /\ LastOf(dump, loaded + 1) = r.end
       /\ Place(dump, loaded + 1) = offset + HeaderSize + n
  <2>1. loaded + 1 # 0
    BY <1>2
  <2>2. Behind(dump, r) = r.at + HeaderSize + (r.end - r.start + 1)
    BY <1>1, <1>4 DEF Behind
  <2>3. Behind(dump, r) = offset + HeaderSize + n
    BY <1>2, <2>2
  <2> HIDE DEF r
  <2> QED BY <2>1, <2>3 DEF Top, LastOf, Place, r
<1> HIDE DEF s, m, p
<1>11. Sorted(list) /\ list \in Seq(SegmentRecords) /\ Elements(list) = Elements(segments) \cup {s}
  <2>1. m <= s.at + 1 /\ p <= s.mapped
    BY <1>5, <1>7, <1>8
  <2>2. Sorted(list)
    <3>1. /\ segments \in Seq(SegmentRecords) /\ Sorted(segments) /\ UpTo(segments, m, p)
          /\ m \in Nat /\ p \in Nat /\ s \in SegmentRecords /\ s.size > 0
      BY <1>1, <1>5, <1>7, <1>8, Zenon
    <3>2. Sorted(Append(segments, s))
      BY <2>1, <3>1, AppendedInOrder, Zenon
    <3> QED BY <1>6, <3>2
  <2>3. segments \in Seq(SegmentRecords) /\ s \in SegmentRecords
    BY <1>1, <1>5, Zenon
  <2>4. list \in Seq(SegmentRecords) /\ Elements(list) = Elements(segments) \cup {s}
    BY ONLY <1>6, <2>3, AppendedElements
  <2> QED BY <2>2, <2>4, Zenon
<1>12. UpTo(list, r.end + 1, offset + HeaderSize + n + HeaderSize)
  <2> DEFINE a == r.end + 1
             q == offset + HeaderSize + n + HeaderSize
  <2>1. a \in Nat /\ m <= a /\ Stop(s) <= a
    <3>1. a \in Nat /\ Stop(s) = a
      <4>1. r.end \in Nat
        BY <1>2
      <4> QED BY <1>5, <4>1
    <3> HIDE DEF a
    <3>2. Stop(s) <= a
      BY <3>1
    <3> QED BY <1>8, <3>1, <3>2 DEF a
  <2>2. q \in Nat /\ p <= q /\ s.mapped < q
    BY <1>5, <1>7 DEF HeaderSize
  <2> HIDE DEF a, q
  <2>3. UpTo(list, a, q)
    BY <1>1, <1>5, <1>6, <1>7, <1>8, <2>1, <2>2, AppendedUpTo, Zenon
  <2> QED BY <2>3 DEF a, q
<1>13. Elements(list) = StoredTo(dump, loaded + 1)
  <2>1. Stored(dump, r) = {s}
    BY <1>1, <1>2 DEF Stored, s
  <2>2. StoredTo(dump, loaded + 1) = StoredTo(dump, loaded) \cup Stored(dump, r)
    BY <1>2, OneMoreStored, Zenon
  <2> QED BY <1>1, <1>11, <2>1, <2>2, Zenon
<1>14. Passed(dump, loaded + 1)
  BY <1>1, <1>2, <1>9, OneMorePassed, Zenon
<1>15. loaded + 1 \in 0..Len(dump.ranges)
  BY <1>2
<1> QED BY <1>1, <1>2, <1>10, <1>11, <1>12, <1>13, <1>14, <1>15, Zenon DEF LimeState, LoadState

\* A header or a range is not right.
LEMMA LimeIsRefused ==
  ASSUME dump \in Dumps, LimeState(dump, loaded, segments, offset, maxaddr), offset < dump.last,
         ~HeaderHere \/ BadRange(NextRange, maxaddr)
  PROVE  ~Loadable(dump)
<1>1. /\ ~dump.avml /\ loaded \in 0..Len(dump.ranges) /\ offset = Place(dump, loaded)
      /\ maxaddr = LastOf(dump, loaded) /\ Len(dump.ranges) \in Nat
  BY DumpTypes DEF LimeState, LoadState
<1>2. ~AtEnd(dump, loaded)
  <2>1. offset \in Nat /\ dump.last \in Nat
    BY <1>1, PlaceIsNext, DumpTypes
  <2> QED BY <1>1, <2>1 DEF AtEnd
<1>3. loaded < Len(dump.ranges) => ~RangeLoads(dump, loaded + 1)
  <2>1. HAVE loaded < Len(dump.ranges)
  <2>2. CASE ~HeaderHere
    BY <1>1, <2>1, <2>2, NoHeader
  <2>3. CASE BadRange(NextRange, maxaddr)
    <3> DEFINE a == NextRange.start
               b == NextRange.end
    <3>1. loaded + 1 \in 1..Len(dump.ranges)
      BY <1>1, <2>1
    <3>2. a \in Nat /\ b \in Nat
      BY <3>1, RangeTypes, RangeFields DEF NextRange
    <3>3. a < maxaddr \/ b < a
      BY <2>3 DEF BadRange
    <3>4. CASE b < a
      <4> HIDE DEF a, b
      <4>1. ~(a <= b)
        BY <3>2, <3>4
      <4> QED BY <1>1, <4>1, Zenon DEF RangeLoads, NextRange, a, b
    <3>5. CASE a < maxaddr
      <4>1. loaded # 0
        <5> HIDE DEF a, b
        <5> QED BY <1>1, <3>2, <3>5 DEF LastOf
      <4>2. loaded \in 1..Len(dump.ranges) /\ loaded + 1 > 1 /\ (loaded + 1) - 1 = loaded
        BY <1>1, <4>1
      <4>3. maxaddr = dump.ranges[loaded].end /\ maxaddr \in Nat
        BY <1>1, <4>1, <4>2, RangeTypes, RangeFields DEF LastOf
      <4> HIDE DEF a, b
      <4>4. ~(maxaddr <= a)
        BY <3>2, <3>5, <4>3
      <4>5. ~(dump.ranges[(loaded + 1) - 1].end <= dump.ranges[loaded + 1].start)
        BY <4>2, <4>3, <4>4 DEF a, NextRange
      <4>6. ~(loaded + 1 > 1 => dump.ranges[(loaded + 1) - 1].end <= dump.ranges[loaded + 1].start)
        BY <4>2, <4>5
      <4> QED BY <1>1, <4>6, LimeLoads
    <3> QED BY <3>3, <3>4, <3>5
  <2> QED BY <2>2, <2>3
<1> QED BY <1>1, <1>2, <1>3, NoFurther, Zenon

-----------------------------------------------------------------------------
(* The frames of a range.                                                   *)

AvmlState(d, n, list, at) == d.avml /\ LoadState(d, n, list) /\ at = Place(d, n)

\* How much of the file is given to the frames of the range after n.
Room(d, n) ==
  Lesser(d.ranges[n + 1].end - d.ranges[n + 1].start, d.last - (Place(d, n) + HeaderSize))

\* k frames are read, that end at a place in the stream and have decoded to "out" bytes.
InStream(r, k, at, out) ==
  /\ k \in 0..Len(r.frames)
  /\ at = IF k = 0 THEN 0 ELSE r.frames[k].at + FrameHeader + r.frames[k].size
  /\ out = IF k = 0 THEN 0 ELSE r.frames[k].before + r.frames[k].out
  /\ \A j \in 1..k : r.frames[j].type # "unskippable"

FramesTo(r, k) == {FrameSegment(r, r.frames[j]) : j \in {j \in 1..k : HasData(r.frames[j])}}

\* The frames of the range after n are read; behind the end of the data they are given,
\* nothing will end the loop.
FramesRead(d, n, list, at, k, out) ==
  LET r == d.ranges[n + 1] IN
  /\ InStream(r, k, at, out) /\ list \in Seq(SegmentRecords) /\ Sorted(list)
  /\ UpTo(list, r.start + out, Place(d, n) + HeaderSize + at + FrameHeader + CrcLength)
  /\ Elements(list) = StoredTo(d, n) \cup FramesTo(r, k)
Open(d, n) ==
  /\ d \in Dumps /\ d.avml /\ n \in Nat /\ n + 1 \in 1..Len(d.ranges)
  /\ Passed(d, n) /\ ~AtEnd(d, n) /\ Room(d, n) > 0
  /\ d.ranges[n + 1].good /\ Place(d, n) + HeaderSize - 1 <= d.last
StreamState(d, n, list, at, k, out) ==
  /\ Open(d, n) /\ at \in Nat
  /\ at <= Room(d, n) => FramesRead(d, n, list, at, k, out)
  /\ at > Room(d, n) => out <= d.ranges[n + 1].end - d.ranges[n + 1].start /\ ~Loadable(d)

LEMMA OpenFacts ==
  ASSUME NEW d, NEW n, Open(d, n), NEW r, r = d.ranges[n + 1]
  PROVE  /\ r \in Ranges /\ GoodStream(r) /\ r.at = Place(d, n) /\ r.at \in Nat
         /\ r.start \in Nat /\ r.end \in Nat /\ Room(d, n) \in Int /\ Len(r.frames) \in Nat
         /\ StreamLength(r) \in Nat /\ r.start <= r.end
         /\ n \in 0..Len(d.ranges) /\ n < Len(d.ranges) /\ d.last \in Nat
<1>1. /\ d \in Dumps /\ d.avml /\ n \in Nat /\ n + 1 \in 1..Len(d.ranges)
  BY DEF Open
<1>2. Len(d.ranges) \in Nat /\ d.last \in Nat
  BY <1>1, DumpTypes
<1>3. n \in 0..Len(d.ranges) /\ n < Len(d.ranges)
  BY <1>1, <1>2
<1>4. r \in Ranges /\ GoodStream(r)
  BY <1>1, RangeTypes, StreamsAreGood, Zenon
<1>5. r.at = Place(d, n) /\ Place(d, n) \in Nat
  BY <1>1, <1>3, PlaceIsNext
<1>6. r.start \in Nat /\ r.end \in Nat /\ r.at \in Nat /\ Len(r.frames) \in Nat
  BY <1>4, RangeFields, Zenon
<1>7. Room(d, n) \in Int
  <2>1. Room(d, n) = Lesser(r.end - r.start, d.last - (Place(d, n) + HeaderSize))
    BY DEF Room
  <2>2. r.end - r.start \in Int /\ d.last - (Place(d, n) + HeaderSize) \in Int
    BY <1>2, <1>5, <1>6 DEF HeaderSize
  <2> QED BY <2>1, <2>2, LesserFacts
<1>8. StreamLength(r) \in Nat /\ r.start <= r.end
  <2>1. Len(r.frames) \in 1..Len(r.frames)
    BY <1>4, StreamEnds
  <2> QED BY <1>4, <2>1, FrameInStream
<1> QED BY <1>2, <1>3, <1>4, <1>5, <1>6, <1>7, <1>8

\* A range that loads is one whose stream fits.
LEMMA OpenLoads ==
  ASSUME NEW d, NEW n, Open(d, n), NEW r, r = d.ranges[n + 1]
  PROVE  RangeLoads(d, n + 1) <=>
           /\ \A j \in 1..Len(r.frames) : r.frames[j].type # "unskippable"
           /\ StreamLength(r) <= Room(d, n)
<1>1. d.avml /\ r.good /\ Place(d, n) + HeaderSize - 1 <= d.last
  BY DEF Open
<1>2. r.at = Place(d, n)
  BY OpenFacts
<1>3. Room(d, n) = Lesser(r.end - r.start, d.last - (r.at + HeaderSize))
  BY <1>2 DEF Room
<1>4. RangeLoads(d, n + 1) <=>
        /\ r.good /\ r.at + HeaderSize - 1 <= d.last
        /\ \A j \in 1..Len(r.frames) : r.frames[j].type # "unskippable"
        /\ StreamLength(r) <= Lesser(r.end - r.start, d.last - (r.at + HeaderSize))
  BY <1>1, AvmlLoads, Zenon
<1> QED BY <1>1, <1>2, <1>3, <1>4, Zenon

LEMMA OpenIsRefused ==
  ASSUME NEW d, NEW n, Open(d, n), ~RangeLoads(d, n + 1)
  PROVE  ~Loadable(d)
<1>1. d \in Dumps /\ ~AtEnd(d, n) /\ n \in 0..Len(d.ranges)
  BY OpenFacts DEF Open
<1> QED BY <1>1, NoFurther, Zenon

LEMMA StreamTooLong ==
  ASSUME NEW d, NEW n, Open(d, n), NEW r, r = d.ranges[n + 1], Room(d, n) < StreamLength(r)
  PROVE  ~Loadable(d)
<1>1. Room(d, n) \in Int /\ StreamLength(r) \in Nat
  BY OpenFacts
<1>2. ~(StreamLength(r) <= Room(d, n))
  BY <1>1
<1> QED BY <1>2, OpenLoads, OpenIsRefused, Zenon

\* The frame that is read next is where the ones before it end.
LEMMA NextFrame ==
  ASSUME NEW r \in Ranges, GoodStream(r), NEW k, NEW at, NEW out, InStream(r, k, at, out),
         k < Len(r.frames)
  PROVE  /\ k \in Nat /\ k + 1 \in 1..Len(r.frames) /\ at \in Nat /\ out \in Nat
         /\ r.frames[k + 1].at = at /\ r.frames[k + 1].before = out
<1>1. Len(r.frames) \in Nat /\ k \in 0..Len(r.frames)
  BY RangeFields DEF InStream
<1>2. k \in Nat /\ k + 1 \in 1..Len(r.frames)
  BY <1>1
<1>3. CASE k = 0
  <2>1. at = 0 /\ out = 0
    BY <1>3 DEF InStream
  <2>2. r.frames[1].at = 0 /\ r.frames[1].before = 0
    BY StreamEnds
  <2> QED BY <1>2, <1>3, <2>1, <2>2
<1>4. CASE k # 0
  <2>1. k \in 1..Len(r.frames) - 1
    BY <1>1, <1>4
  <2>2. /\ at = r.frames[k].at + FrameHeader + r.frames[k].size
        /\ out = r.frames[k].before + r.frames[k].out
    BY <1>4 DEF InStream
  <2>3. r.frames[k + 1].at = at /\ r.frames[k + 1].before = out
    BY <2>1, <2>2, FollowingFrame
  <2>4. r.frames[k + 1].at \in Nat /\ r.frames[k + 1].before \in Nat
    BY <1>2, FrameFields
  <2> QED BY <1>2, <2>3, <2>4
<1> QED BY <1>3, <1>4

\* All of them are read when, and only when, more is decoded than expected.
LEMMA AllFrames ==
  ASSUME NEW r \in Ranges, GoodStream(r), NEW k, NEW at, NEW out, InStream(r, k, at, out)
  PROVE  /\ k = Len(r.frames) => at = StreamLength(r) /\ out = r.end - r.start + 1
         /\ k < Len(r.frames) => out <= r.end - r.start
<1>1. Len(r.frames) \in Nat /\ k \in 0..Len(r.frames) /\ r.start \in Nat /\ r.end \in Nat
  BY RangeFields DEF InStream
<1>2. ASSUME k = Len(r.frames) PROVE at = StreamLength(r) /\ out = r.end - r.start + 1
  <2> DEFINE g == r.frames[k]
  <2>1. /\ k \in 1..Len(r.frames) /\ r.end = r.start + g.before + g.out - 1
        /\ StreamLength(r) = g.at + FrameHeader + g.size
    BY <1>2, StreamEnds
  <2>2. k # 0 /\ g.before \in Nat /\ g.out \in Nat
    BY <2>1, FrameFields
  <2>3. at = g.at + FrameHeader + g.size /\ out = g.before + g.out
    BY <2>2 DEF InStream
  <2>4. out = r.end - r.start + 1
    <3> DEFINE b == g.before
               c == g.out
               a == r.start
               t == r.end
    <3>1. b \in Nat /\ c \in Nat /\ a \in Nat /\ t = a + b + c - 1 /\ out = b + c
      BY <1>1, <2>1, <2>2, <2>3
    <3> HIDE DEF a, b, c, t
    <3>2. out = t - a + 1
      BY <3>1
    <3> QED BY <3>2 DEF a, t
  <2> QED BY <2>1, <2>3, <2>4
<1>3. ASSUME k < Len(r.frames) PROVE out <= r.end - r.start
  <2> DEFINE f == r.frames[k + 1]
  <2>1. k + 1 \in 1..Len(r.frames) /\ f.before = out /\ out \in Nat
    BY <1>3, NextFrame
  <2>2. f.out \in Nat /\ r.start + f.before + f.out <= r.end + 1
    BY <2>1, FrameFields, FrameInStream
  <2>3. CASE f.out > 0
    <3> DEFINE c == f.out
               b == r.start
               t == r.end
    <3>1. c \in Nat /\ c > 0 /\ b + out + c <= t + 1 /\ b \in Nat /\ t \in Nat
      BY <1>1, <2>1, <2>2, <2>3
    <3> HIDE DEF b, c, t
    <3>2. out <= t - b
      BY <2>1, <3>1
    <3> QED BY <3>2 DEF t, b
  <2>4. CASE ~(f.out > 0)
    <3>1. k + 1 # Len(r.frames)
      <4>1. SUFFICES ASSUME k + 1 = Len(r.frames) PROVE FALSE
        OBVIOUS
      <4>2. HasData(f)
        BY <4>1, StreamEnds
      <4> QED BY <2>1, <2>4, <4>2, GoodFrame
    <3>2. k + 1 < Len(r.frames)
      BY <1>1, <1>3, <3>1
    <3>3. r.start + f.before + f.out <= r.end
      BY <2>1, <3>2, FrameInStream
    <3> DEFINE c == f.out
               b == r.start
               t == r.end
    <3>4. c \in Nat /\ b + out + c <= t /\ b \in Nat /\ t \in Nat
      BY <1>1, <2>1, <2>2, <3>3
    <3> HIDE DEF b, c, t
    <3>5. out <= t - b
      BY <2>1, <3>4
    <3> QED BY <3>5 DEF t, b
  <2> QED BY <2>3, <2>4
<1> QED BY <1>2, <1>3

LEMMA AddressSums ==
  ASSUME NEW a \in Nat, NEW b \in Nat, NEW c \in Nat
  PROVE  /\ a + b \in Nat /\ a + (b + c) \in Nat /\ a + b <= a + (b + c)
         /\ a + b <= (a + b) + 1 /\ (a + b) + c = a + (b + c)
  OBVIOUS

LEMMA PlaceSums ==
  ASSUME NEW a \in Nat, NEW b \in Nat, NEW c \in Nat
  PROVE  /\ a + HeaderSize + b + FrameHeader + CrcLength \in Nat
         /\ a + HeaderSize + (b + FrameHeader + c) + FrameHeader + CrcLength \in Nat
         /\ a + HeaderSize + b + FrameHeader + CrcLength
              < a + HeaderSize + (b + FrameHeader + c) + FrameHeader + CrcLength
         /\ a + HeaderSize + b + FrameHeader + CrcLength
              <= a + HeaderSize + (b + FrameHeader + c) + FrameHeader + CrcLength
         /\ a + HeaderSize + b + FrameHeader + CrcLength
              <= a + HeaderSize + b + FrameHeader + CrcLength
  BY DEF HeaderSize, FrameHeader, CrcLength

\* One more frame, and what it has stored.
LEMMA OneMoreFrame ==
  ASSUME NEW r \in Ranges, GoodStream(r), NEW k, NEW at, NEW out, InStream(r, k, at, out),
         k < Len(r.frames), NEW f, f = r.frames[k + 1], f.type # "unskippable"
  PROVE  /\ InStream(r, k + 1, at + FrameHeader + f.size, out + f.out)
         /\ HasData(f) => FramesTo(r, k + 1) = FramesTo(r, k) \cup {FrameSegment(r, f)}
         /\ ~HasData(f) => FramesTo(r, k + 1) = FramesTo(r, k)
<1>1. /\ k \in Nat /\ k + 1 \in 1..Len(r.frames) /\ f.at = at /\ f.before = out
      /\ Len(r.frames) \in Nat
  BY NextFrame, RangeFields
<1>2. 1..k + 1 = 1..k \cup {k + 1} /\ k + 1 # 0 /\ k + 1 \in 0..Len(r.frames)
  BY <1>1
<1>3. \A j \in 1..k : r.frames[j].type # "unskippable"
  BY Zenon DEF InStream
<1>4. InStream(r, k + 1, at + FrameHeader + f.size, out + f.out)
  <2>1. \A j \in 1..k + 1 : r.frames[j].type # "unskippable"
    BY <1>2, <1>3
  <2> QED BY <1>1, <1>2, <2>1 DEF InStream
<1>5. /\ HasData(f) => FramesTo(r, k + 1) = FramesTo(r, k) \cup {FrameSegment(r, f)}
      /\ ~HasData(f) => FramesTo(r, k + 1) = FramesTo(r, k)
  <2>1. CASE HasData(f)
    <3>1. \A s : s \in FramesTo(r, k + 1) <=> s \in FramesTo(r, k) \/ s = FrameSegment(r, f)
      BY <1>2, <2>1 DEF FramesTo
    <3> QED BY <2>1, <3>1
  <2>2. CASE ~HasData(f)
    <3>1. \A s : s \in FramesTo(r, k + 1) <=> s \in FramesTo(r, k)
      BY <1>2, <2>2 DEF FramesTo
    <3> QED BY <2>2, <3>1
  <2> QED BY <2>1, <2>2
<1> QED BY <1>4, <1>5

\* A range is opened.
LEMMA RangeIsOpened ==
  ASSUME NEW d \in Dumps, NEW n, NEW list, AvmlState(d, n, list, Place(d, n)), ~AtEnd(d, n),
         n + 1 \in 1..Len(d.ranges), d.ranges[n + 1].good,
         Place(d, n) + HeaderSize - 1 <= d.last, Room(d, n) > 0
  PROVE  StreamState(d, n, list, 0, 0, 0)
<1> DEFINE r == d.ranges[n + 1]
<1>1. /\ d.avml /\ n \in 0..Len(d.ranges) /\ Passed(d, n) /\ list \in Seq(SegmentRecords)
      /\ Sorted(list) /\ UpTo(list, Top(d, n), Place(d, n) + HeaderSize)
      /\ Elements(list) = StoredTo(d, n) /\ Len(d.ranges) \in Nat
  BY DumpTypes DEF AvmlState, LoadState
<1>2. n \in Nat
  BY <1>1
<1>3. Open(d, n)
  BY <1>1, <1>2, Zenon DEF Open
<1>4. /\ r \in Ranges /\ r.start \in Nat /\ r.end \in Nat /\ Room(d, n) \in Int
      /\ Len(r.frames) \in Nat /\ Place(d, n) \in Nat
  BY <1>3, OpenFacts
<1>5. InStream(r, 0, 0, 0)
  <2>1. 0 \in 0..Len(r.frames) /\ 1..0 = {}
    BY <1>4
  <2> QED BY <2>1 DEF InStream
<1>6. FramesTo(r, 0) = {}
  <2>1. 1..0 = {}
    OBVIOUS
  <2> QED BY <2>1, Zenon DEF FramesTo
<1>7. Top(d, n) \in Nat /\ Top(d, n) <= r.start + 0
  <2>1. CASE n = 0
    BY <1>4, <2>1 DEF Top
  <2>2. CASE n # 0
    <3>1. n \in 1..Len(d.ranges) - 1 /\ n \in 1..Len(d.ranges)
      BY <1>1, <1>2, <2>2
    <3>2. d.ranges[n].end < r.start /\ d.ranges[n].end \in Nat
      BY <1>1, <3>1, AvmlIsSorted, RangeTypes, RangeFields
    <3>3. Top(d, n) = d.ranges[n].end + 1
      BY <2>2 DEF Top
    <3> DEFINE a == d.ranges[n].end
               b == r.start
    <3>4. a \in Nat /\ b \in Nat /\ a < b /\ Top(d, n) = a + 1
      BY <1>4, <3>2, <3>3
    <3> HIDE DEF a, b
    <3>5. Top(d, n) \in Nat /\ Top(d, n) <= b + 0
      BY <3>4
    <3> QED BY <3>5 DEF b
  <2> QED BY <2>1, <2>2
<1>8. UpTo(list, r.start + 0, Place(d, n) + HeaderSize + 0 + FrameHeader + CrcLength)
  <2> DEFINE p == Place(d, n) + HeaderSize
             q == Place(d, n) + HeaderSize + 0 + FrameHeader + CrcLength
             a == r.start + 0
  <2>1. p \in Nat /\ q \in Nat /\ p <= q /\ a \in Nat
    <3> DEFINE x == Place(d, n)
               y == r.start
    <3>1. x \in Nat /\ y \in Nat
      BY <1>4
    <3> HIDE DEF x, y
    <3>2. /\ x + HeaderSize \in Nat /\ x + HeaderSize + 0 + FrameHeader + CrcLength \in Nat
          /\ x + HeaderSize <= x + HeaderSize + 0 + FrameHeader + CrcLength /\ y + 0 \in Nat
      BY <3>1 DEF HeaderSize, FrameHeader, CrcLength
    <3> QED BY <3>2 DEF x, y
  <2> HIDE DEF p, q, a
  <2>2. Top(d, n) <= a
    BY <1>7 DEF a
  <2>3. UpTo(list, Top(d, n), p)
    BY <1>1 DEF p
  <2>4. UpTo(list, a, q)
    BY <1>1, <1>7, <2>1, <2>2, <2>3, UpToMore, Zenon
  <2> QED BY <2>4 DEF a, q
<1> HIDE DEF r
<1>9. FramesRead(d, n, list, 0, 0, 0)
  BY <1>1, <1>5, <1>6, <1>8, Zenon DEF FramesRead, r
<1>10. 0 \in Nat /\ ~(0 > Room(d, n))
  BY <1>3, <1>4 DEF Open
<1> QED BY <1>3, <1>9, <1>10, Zenon DEF StreamState

\* One more frame of data.
LEMMA DataIsStored ==
  ASSUME NEW d, NEW n, NEW list, NEW at, NEW k, NEW out, Open(d, n),
         FramesRead(d, n, list, at, k, out), NEW r, r = d.ranges[n + 1], k < Len(r.frames),
         NEW f, f = r.frames[k + 1], HasData(f),
         NEW new, new = Append(list, FrameSegment(r, f))
  PROVE  FramesRead(d, n, new, at + FrameHeader + f.size, k + 1, out + f.out)
<1> DEFINE s == FrameSegment(r, f)
           p == Place(d, n) + HeaderSize + at + FrameHeader + CrcLength
           q == Place(d, n) + HeaderSize + (at + FrameHeader + f.size) + FrameHeader + CrcLength
           a == r.start + out
           b == r.start + (out + f.out)
<1>1. /\ InStream(r, k, at, out) /\ list \in Seq(SegmentRecords) /\ Sorted(list)
      /\ UpTo(list, a, p) /\ Elements(list) = StoredTo(d, n) \cup FramesTo(r, k)
  BY Zenon DEF FramesRead
<1>2. r \in Ranges /\ GoodStream(r) /\ r.at = Place(d, n) /\ r.at \in Nat /\ r.start \in Nat
  BY OpenFacts, Zenon
<1>3. k + 1 \in 1..Len(r.frames) /\ at \in Nat /\ out \in Nat /\ f.at = at /\ f.before = out
  <2>1. InStream(r, k, at, out) /\ r \in Ranges /\ GoodStream(r)
    BY <1>1, <1>2
  <2> QED BY <2>1, NextFrame
<1>4. f.size \in Nat /\ f.out \in Nat
  BY <1>2, <1>3, FrameFields
<1>5. /\ s \in SegmentRecords /\ s.size > 0 /\ s.at = r.start + f.before /\ s.size = f.out
      /\ s.mapped = r.at + HeaderSize + f.at + FrameHeader + CrcLength
  BY <1>2, <1>3, FrameSegmentFacts, Zenon
<1>6. s.at = a /\ s.mapped = p
  BY <1>2, <1>3, <1>5, Zenon
<1>7. /\ a \in Nat /\ b \in Nat /\ a <= b /\ a <= a + 1 /\ a + f.out = b
  <2>1. r.start \in Nat /\ out \in Nat /\ f.out \in Nat
    BY <1>2, <1>3, <1>4
  <2>2. a \in Nat /\ b \in Nat /\ a <= b
    BY <2>1, AddressSums, Zenon
  <2>3. a + f.out = b
    <3> DEFINE x == r.start
               y == f.out
    <3>1. x \in Nat /\ out \in Nat /\ y \in Nat
      BY <2>1
    <3> HIDE DEF x, y
    <3>2. (x + out) + y = x + (out + y)
      BY <3>1
    <3> QED BY <3>2 DEF x, y
  <2> HIDE DEF a, b
  <2> QED BY <2>2, <2>3
<1>8. p \in Nat /\ q \in Nat /\ p <= q /\ p < q /\ p <= p
  <2> DEFINE x == Place(d, n)
             y == f.size
  <2>1. x \in Nat /\ at \in Nat /\ y \in Nat
    BY <1>2, <1>3, <1>4
  <2> HIDE DEF x, y
  <2>2. /\ x + HeaderSize + at + FrameHeader + CrcLength \in Nat
        /\ x + HeaderSize + (at + FrameHeader + y) + FrameHeader + CrcLength \in Nat
        /\ x + HeaderSize + at + FrameHeader + CrcLength
             < x + HeaderSize + (at + FrameHeader + y) + FrameHeader + CrcLength
        /\ x + HeaderSize + at + FrameHeader + CrcLength
             <= x + HeaderSize + (at + FrameHeader + y) + FrameHeader + CrcLength
        /\ x + HeaderSize + at + FrameHeader + CrcLength
             <= x + HeaderSize + at + FrameHeader + CrcLength
    BY <2>1, PlaceSums
  <2> QED BY <2>2 DEF x, y
<1>9. Stop(s) = b
  BY <1>5, <1>6, <1>7 DEF Stop
<1> HIDE DEF s, p, q, a, b
<1>10. b <= b
  BY <1>7
<1>11. new = Append(list, s)
  BY DEF s
<1>12. Sorted(new)
  <2>1. a <= s.at + 1 /\ p <= s.mapped
    BY <1>6, <1>7, <1>8, Zenon
  <2> QED BY <1>1, <1>5, <1>7, <1>8, <1>11, <2>1, AppendedInOrder, Zenon
<1>13. UpTo(new, b, q)
  <2>1. Stop(s) <= b /\ s.mapped < q
    BY <1>6, <1>8, <1>9, <1>10, Zenon
  <2> QED BY <1>1, <1>5, <1>7, <1>8, <1>11, <2>1, AppendedUpTo, Zenon
<1>14. new \in Seq(SegmentRecords) /\ Elements(new) = Elements(list) \cup {s}
  BY <1>1, <1>5, <1>11, AppendedElements, Zenon
<1>15. f.type # "unskippable"
  BY DEF HasData
<1>16. /\ InStream(r, k + 1, at + FrameHeader + f.size, out + f.out)
       /\ FramesTo(r, k + 1) = FramesTo(r, k) \cup {s}
  <2>1. InStream(r, k, at, out) /\ r \in Ranges /\ GoodStream(r)
    BY <1>1, <1>2, Zenon
  <2>2. /\ InStream(r, k + 1, at + FrameHeader + f.size, out + f.out)
        /\ HasData(f) => FramesTo(r, k + 1) = FramesTo(r, k) \cup {FrameSegment(r, f)}
    BY <2>1, <1>15, OneMoreFrame
  <2> QED BY <2>2 DEF s
<1>17. Elements(new) = StoredTo(d, n) \cup FramesTo(r, k + 1)
  BY <1>1, <1>14, <1>16, Zenon
<1> QED BY <1>12, <1>13, <1>14, <1>16, <1>17, Zenon DEF FramesRead, b, q

\* One more frame of something else.
LEMMA NothingIsStored ==
  ASSUME NEW d, NEW n, NEW list, NEW at, NEW k, NEW out, Open(d, n),
         FramesRead(d, n, list, at, k, out), NEW r, r = d.ranges[n + 1], k < Len(r.frames),
         NEW f, f = r.frames[k + 1], ~HasData(f), f.type # "unskippable"
  PROVE  FramesRead(d, n, list, at + FrameHeader + f.size, k + 1, out + f.out)
<1> DEFINE p == Place(d, n) + HeaderSize + at + FrameHeader + CrcLength
           q == Place(d, n) + HeaderSize + (at + FrameHeader + f.size) + FrameHeader + CrcLength
           a == r.start + out
           b == r.start + (out + f.out)
<1>1. /\ InStream(r, k, at, out) /\ list \in Seq(SegmentRecords) /\ Sorted(list)
      /\ UpTo(list, a, p) /\ Elements(list) = StoredTo(d, n) \cup FramesTo(r, k)
  BY Zenon DEF FramesRead
<1>2. r \in Ranges /\ GoodStream(r) /\ r.at = Place(d, n) /\ r.at \in Nat /\ r.start \in Nat
  BY OpenFacts, Zenon
<1>3. k + 1 \in 1..Len(r.frames) /\ at \in Nat /\ out \in Nat
  BY <1>1, <1>2, NextFrame, Zenon
<1>4. f.size \in Nat /\ f.out \in Nat
  BY <1>2, <1>3, FrameFields
<1>5. a \in Nat /\ b \in Nat /\ a <= b
  <2>1. r.start \in Nat /\ out \in Nat /\ f.out \in Nat
    BY <1>2, <1>3, <1>4
  <2> QED BY <2>1, AddressSums, Zenon
<1>6. p \in Nat /\ q \in Nat /\ p <= q
  <2>1. Place(d, n) \in Nat /\ at \in Nat /\ f.size \in Nat
    BY <1>2, <1>3, <1>4
  <2> QED BY <2>1, PlaceSums, Zenon
<1> HIDE DEF p, q, a, b
<1>7. UpTo(list, b, q)
  BY <1>1, <1>5, <1>6, UpToMore, Zenon
<1>8. /\ InStream(r, k + 1, at + FrameHeader + f.size, out + f.out)
      /\ FramesTo(r, k + 1) = FramesTo(r, k)
  BY <1>1, <1>2, OneMoreFrame, Zenon
<1> QED BY <1>1, <1>7, <1>8, Zenon DEF FramesRead, b, q

-----------------------------------------------------------------------------
(* The loops of the AVML layer.                                             *)

\* The frames that are read are those of the next range.
LEMMA StreamFacts ==
  ASSUME offset = Place(dump, loaded),
         StreamState(dump, loaded, segments, consumed, framed, decoded)
  PROVE  /\ Open(dump, loaded) /\ NextRange = dump.ranges[loaded + 1]
         /\ DataLength = Room(dump, loaded) /\ consumed \in Nat /\ DataLength \in Int
         /\ consumed <= DataLength => FramesRead(dump, loaded, segments, consumed, framed, decoded)
         /\ consumed > DataLength => Wanted /\ ~Loadable(dump)
<1>1. Open(dump, loaded) /\ consumed \in Nat
  BY Zenon DEF StreamState
<1>2. NextRange = dump.ranges[loaded + 1]
  BY DEF NextRange
<1>3. DataLength = Room(dump, loaded)
  BY <1>2 DEF DataLength, Room
<1>4. Room(dump, loaded) \in Int
  BY <1>1, OpenFacts
<1>5. consumed > DataLength => Wanted /\ ~Loadable(dump)
  BY <1>2, <1>3, Zenon DEF StreamState, Wanted
<1> QED BY <1>1, <1>2, <1>3, <1>4, <1>5, Zenon DEF StreamState

LEMMA OpenRangeIsRight ==
  ASSUME dump \in Dumps, AvmlState(dump, loaded, segments, offset), OpenRange
  PROVE  \/ phase' = "frames" /\ StreamState(dump, loaded, segments, consumed', framed', decoded')
         \/ phase' = "error" /\ ~Loadable(dump)
<1>1. /\ dump.avml /\ loaded \in 0..Len(dump.ranges) /\ offset = Place(dump, loaded)
      /\ Len(dump.ranges) \in Nat /\ dump.last \in Nat /\ offset \in Nat
  BY DumpTypes, PlaceIsNext DEF AvmlState, LoadState
<1>2. ~AtEnd(dump, loaded)
  <2>1. offset + 4 < dump.last
    BY DEF OpenRange
  <2> QED BY <1>1, <2>1 DEF AtEnd
<1>3. DataLength = Room(dump, loaded)
  BY <1>1 DEF DataLength, Room, NextRange
<1>4. CASE HeaderHere /\ DataLength > 0 /\ phase' = "frames"
  <2>1. consumed' = 0 /\ framed' = 0 /\ decoded' = 0
    BY <1>4 DEF OpenRange
  <2>2. /\ loaded + 1 \in 1..Len(dump.ranges) /\ dump.ranges[loaded + 1].good
        /\ Place(dump, loaded) + HeaderSize - 1 <= dump.last
    BY <1>1, <1>4, HeaderFacts
  <2>3. StreamState(dump, loaded, segments, 0, 0, 0)
    BY <1>1, <1>2, <1>3, <1>4, <2>2, RangeIsOpened, Zenon
  <2> QED BY <1>4, <2>1, <2>3
<1>5. CASE (~HeaderHere \/ DataLength <= 0) /\ phase' = "error"
  <2>1. ASSUME loaded < Len(dump.ranges) PROVE ~RangeLoads(dump, loaded + 1)
    <3>1. CASE ~HeaderHere
      BY <1>1, <2>1, <3>1, NoHeader
    <3>2. CASE DataLength <= 0
      <4> DEFINE r == dump.ranges[loaded + 1]
      <4>1. loaded + 1 \in 1..Len(dump.ranges)
        BY <1>1, <2>1
      <4>2. r \in Ranges /\ GoodStream(r) /\ r.at = offset
        BY <1>1, <2>1, <4>1, RangeTypes, StreamsAreGood, PlaceIsNext
      <4>3. StreamLength(r) \in Nat /\ StreamLength(r) > 0
        <5>1. StreamLength(r) \in Nat /\ StreamLength(r) > 4
          BY <1>1, <4>1, StreamIsLong
        <5> QED BY <5>1
      <4>4. DataLength = Lesser(r.end - r.start, dump.last - (r.at + HeaderSize))
        BY <4>2 DEF DataLength, NextRange
      <4>5. DataLength \in Int
        <5>1. r.start \in Nat /\ r.end \in Nat
          BY <4>2, RangeFields
        <5>2. r.end - r.start \in Int
          BY <5>1
        <5>3. dump.last - (r.at + HeaderSize) \in Int
          <6> DEFINE l == dump.last
          <6>1. l \in Nat /\ r.at \in Nat /\ r.at = offset /\ offset \in Nat
            BY <1>1, <4>2
          <6> HIDE DEF l
          <6>2. l - (offset + HeaderSize) \in Int
            BY <6>1 DEF HeaderSize
          <6> QED BY <6>1, <6>2 DEF l
        <5> QED BY <4>4, <5>2, <5>3, LesserFacts
      <4>6. ~(StreamLength(r) <= DataLength)
        BY <3>2, <4>3, <4>5
      <4> HIDE DEF r
      <4> QED BY <1>1, <4>4, <4>6, AvmlLoads DEF r
    <3> QED BY <1>5, <3>1, <3>2
  <2> QED BY <1>1, <1>2, <1>5, <2>1, NoFurther, Zenon
<1> QED BY <1>4, <1>5, Zenon DEF OpenRange

\* A plain frame that is cut off gives less than the rest of the range.
LEMMA CutFrameFits ==
  ASSUME NEW c \in Nat, NEW s \in Nat, NEW o \in Nat, NEW b \in Nat, NEW a \in Nat, NEW t \in Nat,
         NEW m \in Int, ~(c + FrameHeader + s <= m), o = s - CrcLength, a + b + o <= t + 1
  PROVE  b + (m - (c + FrameHeader + CrcLength)) <= t - a
<1> DEFINE rest == m - (c + FrameHeader + CrcLength)
<1>1. rest \in Int /\ o \in Int /\ rest <= o - 1
  BY DEF FrameHeader, CrcLength
<1>2. b + (o - 1) <= t - a
  OBVIOUS
<1> HIDE DEF rest
<1>3. b + rest <= t - a
  BY <1>1, <1>2
<1> QED BY <1>3 DEF rest

LEMMA ReadFrameIsRight ==
  ASSUME offset = Place(dump, loaded),
         StreamState(dump, loaded, segments, consumed, framed, decoded), ReadFrame
  PROVE  \/ /\ phase' = "frames"
            /\ StreamState(dump, loaded, segments', consumed', framed', decoded')
         \/ phase' = "error" /\ ~Loadable(dump)
<1> DEFINE r == dump.ranges[loaded + 1]
           f == r.frames[framed + 1]
           whole == consumed + FrameHeader + f.size <= DataLength
           rest == DataLength - (consumed + FrameHeader + CrcLength)
           out == IF whole THEN f.out ELSE IF f.type = "plain" /\ rest > 0 THEN rest ELSE 0
           fails == f.type = "unskippable" \/ (f.type \in {"identifier", "compressed"} /\ ~whole)
           mapped == offset + HeaderSize + consumed + FrameHeader + CrcLength
           s == Segment(r.start + decoded, mapped, out, f.size - CrcLength)
<1>1. /\ Open(dump, loaded) /\ NextRange = r /\ DataLength = Room(dump, loaded)
      /\ consumed \in Nat /\ DataLength \in Int
      /\ consumed <= DataLength => FramesRead(dump, loaded, segments, consumed, framed, decoded)
  BY StreamFacts
<1>2. /\ phase = "frames" /\ Wanted /\ consumed + FrameHeader < DataLength
      /\ framed < Len(r.frames)
      /\ \/ fails /\ phase' = "error"
         \/ /\ ~fails /\ phase' = phase
            /\ segments' = IF HasData(f) THEN Append(segments, s) ELSE segments
            /\ consumed' = consumed + FrameHeader + f.size
            /\ framed' = framed + 1 /\ decoded' = decoded + out
  <2> HIDE DEF r
  <2> QED BY <1>1, Zenon DEF ReadFrame
<1>3. FramesRead(dump, loaded, segments, consumed, framed, decoded)
  <2>1. consumed \in Nat /\ DataLength \in Int /\ consumed + FrameHeader < DataLength
    BY <1>1, <1>2
  <2>2. consumed <= DataLength
    BY ONLY <2>1 DEF FrameHeader
  <2> QED BY <1>1, <2>2, Zenon
<1>4. /\ r \in Ranges /\ GoodStream(r) /\ r.at = offset /\ r.start \in Nat /\ r.end \in Nat
      /\ StreamLength(r) \in Nat
  BY <1>1, OpenFacts
<1>5. InStream(r, framed, consumed, decoded)
  BY <1>3, Zenon DEF FramesRead
<1>6. /\ framed + 1 \in 1..Len(r.frames) /\ decoded \in Nat /\ f.at = consumed /\ f.before = decoded
  BY <1>2, <1>4, <1>5, NextFrame
<1>7. f.size \in Nat /\ f.out \in Nat
  BY <1>4, <1>6, FrameFields
<1>8. /\ f.at + FrameHeader + f.size <= StreamLength(r)
      /\ r.start + f.before + f.out <= r.end + 1
  BY <1>4, <1>6, FrameInStream
<1>9. ASSUME ~whole PROVE ~Loadable(dump)
  <2> DEFINE c == f.size
             t == StreamLength(r)
             m == DataLength
  <2>1. c \in Nat /\ t \in Nat /\ m \in Int /\ consumed + FrameHeader + c <= t
        /\ ~(consumed + FrameHeader + c <= m)
    BY <1>1, <1>4, <1>6, <1>7, <1>8, <1>9
  <2> HIDE DEF c, t, m
  <2>2. m < t
    BY <1>1, <2>1 DEF FrameHeader
  <2>3. Room(dump, loaded) < StreamLength(r)
    BY <1>1, <2>2 DEF m, t
  <2> QED BY <1>1, <2>3, StreamTooLong, Zenon
<1>10. CASE fails /\ phase' = "error"
  <2>1. CASE f.type = "unskippable"
    <3>1. ~RangeLoads(dump, loaded + 1)
      BY <1>1, <1>6, <2>1, OpenLoads, Zenon
    <3> QED BY <1>1, <1>10, <3>1, OpenIsRefused, Zenon
  <2>2. CASE ~whole
    BY <1>9, <1>10, <2>2
  <2> QED BY <1>10, <2>1, <2>2
<1>11. CASE whole /\ ~fails /\ phase' = phase
  <2>1. out = f.out
    BY <1>11
  <2>2. /\ segments' = IF HasData(f) THEN Append(segments, s) ELSE segments
        /\ consumed' = consumed + FrameHeader + f.size
        /\ framed' = framed + 1 /\ decoded' = decoded + f.out
    BY <1>2, <1>11, <2>1
  <2>3. s = FrameSegment(r, f)
    BY <1>4, <1>6, <2>1 DEF FrameSegment
  <2>4. f.type # "unskippable"
    BY <1>11
  <2> HIDE DEF s, out, fails, rest, mapped
  <2>5. FramesRead(dump, loaded, segments', consumed', framed', decoded')
    <3>1. CASE HasData(f)
      <4>1. segments' = Append(segments, FrameSegment(r, f))
        BY <2>2, <2>3, <3>1
      <4> HIDE DEF f, r
      <4>2. FramesRead(dump, loaded, segments', consumed + FrameHeader + f.size, framed + 1,
                       decoded + f.out)
        BY <1>1, <1>2, <1>3, <3>1, <4>1, DataIsStored DEF f, r
      <4> QED BY <2>2, <4>2
    <3>2. CASE ~HasData(f)
      <4>1. segments' = segments
        BY <2>2, <3>2
      <4> HIDE DEF f, r
      <4>2. FramesRead(dump, loaded, segments, consumed + FrameHeader + f.size, framed + 1,
                       decoded + f.out)
        BY <1>1, <1>2, <1>3, <2>4, <3>2, NothingIsStored DEF f, r
      <4> QED BY <2>2, <4>1, <4>2
    <3> QED BY <3>1, <3>2
  <2>6. consumed' \in Nat /\ ~(consumed' > Room(dump, loaded))
    <3> DEFINE c == f.size
    <3>1. c \in Nat /\ consumed' = consumed + FrameHeader + c /\ consumed' <= DataLength
      BY <1>7, <1>11, <2>2
    <3> HIDE DEF c
    <3>2. consumed' \in Nat /\ ~(consumed' > DataLength)
      BY <1>1, <3>1 DEF FrameHeader
    <3> QED BY <1>1, <3>2
  <2>7. StreamState(dump, loaded, segments', consumed', framed', decoded')
    BY <1>1, <2>5, <2>6, Zenon DEF StreamState
  <2> QED BY <1>2, <1>11, <2>7
<1>12. CASE ~whole /\ ~fails /\ phase' = phase
  <2>1. consumed' = consumed + FrameHeader + f.size /\ decoded' = decoded + out
    BY <1>2, <1>12
  <2>2. consumed' \in Nat /\ ~(consumed' <= Room(dump, loaded))
    <3> DEFINE c == f.size
    <3>1. c \in Nat /\ consumed' = consumed + FrameHeader + c /\ ~(consumed' <= DataLength)
      BY <1>7, <1>12, <2>1
    <3> HIDE DEF c
    <3>2. consumed' \in Nat
      BY <1>1, <3>1 DEF FrameHeader
    <3> QED BY <1>1, <3>1, <3>2
  <2>3. decoded' <= r.end - r.start
    <3>1. decoded <= r.end - r.start
      BY <1>1, <1>2 DEF Wanted
    <3>2. CASE f.type = "plain" /\ rest > 0
      <4>1. out = rest
        BY <1>12, <3>2
      <4>2. f.out = f.size - CrcLength
        BY <1>4, <1>6, <3>2, GoodFrame
      <4> DEFINE c == f.size
                 o == f.out
                 a == r.start
                 t == r.end
                 m == DataLength
      <4>3. /\ consumed \in Nat /\ c \in Nat /\ o \in Nat /\ decoded \in Nat /\ a \in Nat
            /\ t \in Nat /\ m \in Int /\ ~(consumed + FrameHeader + c <= m)
            /\ o = c - CrcLength /\ a + decoded + o <= t + 1
        BY <1>1, <1>4, <1>6, <1>7, <1>8, <1>12, <4>2
      <4>4. decoded' = decoded + (m - (consumed + FrameHeader + CrcLength))
        BY <2>1, <4>1
      <4> HIDE DEF c, o, a, t, m
      <4>5. decoded + (m - (consumed + FrameHeader + CrcLength)) <= t - a
        BY <4>3, CutFrameFits, Zenon
      <4> QED BY <4>4, <4>5 DEF a, t
    <3>3. CASE ~(f.type = "plain" /\ rest > 0)
      <4>1. out = 0
        BY <1>12, <3>3
      <4> HIDE DEF out
      <4>2. decoded' = decoded
        BY <1>6, <2>1, <4>1
      <4> QED BY <3>1, <4>2
    <3> QED BY <3>2, <3>3
  <2>4. ~Loadable(dump)
    BY <1>9, <1>12
  <2> HIDE DEF r
  <2>5. StreamState(dump, loaded, segments', consumed', framed', decoded')
    BY <1>1, <2>2, <2>3, <2>4, Zenon DEF StreamState, r
  <2> QED BY <1>2, <1>12, <2>5
<1> QED BY <1>2, <1>10, <1>11, <1>12, Zenon

\* The frames of an AVML range are what is stored of it.
LEMMA AllAreStored ==
  ASSUME NEW d, d.avml, NEW r
  PROVE  Stored(d, r) = FramesTo(r, Len(r.frames))
  BY DEF Stored, FramesTo

LEMMA TrailerSums ==
  ASSUME NEW a \in Nat, NEW c \in Nat
  PROVE  /\ a + HeaderSize + c + FrameHeader + CrcLength \in Nat
         /\ a + HeaderSize + c + Trailer + HeaderSize \in Nat
         /\ a + HeaderSize + c + FrameHeader + CrcLength
              <= a + HeaderSize + c + Trailer + HeaderSize
         /\ a + HeaderSize + (c + Trailer) = a + HeaderSize + c + Trailer
  BY DEF HeaderSize, FrameHeader, CrcLength, Trailer

LEMMA RangeEndsIsRight ==
  ASSUME dump \in Dumps, offset = Place(dump, loaded),
         StreamState(dump, loaded, segments, consumed, framed, decoded), RangeEnds
  PROVE  AvmlState(dump, loaded', segments', offset')
<1> DEFINE r == dump.ranges[loaded + 1]
<1>1. /\ Open(dump, loaded) /\ NextRange = r /\ DataLength = Room(dump, loaded)
      /\ consumed \in Nat /\ DataLength \in Int
      /\ consumed <= DataLength => FramesRead(dump, loaded, segments, consumed, framed, decoded)
      /\ consumed > DataLength => Wanted /\ ~Loadable(dump)
  BY StreamFacts
<1>2. /\ ~Wanted /\ loaded' = loaded + 1 /\ segments' = segments
      /\ offset' = offset + HeaderSize + consumed + Trailer
  BY DEF RangeEnds
<1>3. /\ r \in Ranges /\ GoodStream(r) /\ r.at = offset /\ offset \in Nat
      /\ r.start \in Nat /\ r.end \in Nat /\ StreamLength(r) \in Nat /\ Len(r.frames) \in Nat
      /\ loaded \in 0..Len(dump.ranges) /\ loaded < Len(dump.ranges) /\ r.start <= r.end
  BY <1>1, OpenFacts, Zenon
<1>4. /\ dump.avml /\ loaded \in Nat /\ loaded + 1 \in 1..Len(dump.ranges)
      /\ Passed(dump, loaded) /\ ~AtEnd(dump, loaded)
  BY <1>1 DEF Open
<1>5. /\ InStream(r, framed, consumed, decoded)
      /\ segments \in Seq(SegmentRecords) /\ Sorted(segments)
      /\ UpTo(segments, r.start + decoded, offset + HeaderSize + consumed + FrameHeader + CrcLength)
      /\ Elements(segments) = StoredTo(dump, loaded) \cup FramesTo(r, framed)
      /\ consumed <= DataLength
  <2>1. consumed <= DataLength
    BY <1>1, <1>2
  <2>2. FramesRead(dump, loaded, segments, consumed, framed, decoded)
    BY <1>1, <2>1
  <2> QED BY <2>1, <2>2 DEF FramesRead
<1>6. framed = Len(r.frames)
  <2>1. ~(decoded <= r.end - r.start)
    <3>1. ~(decoded <= NextRange.end - NextRange.start)
      BY <1>2, Zenon DEF Wanted
    <3> QED BY <1>1, <3>1, Zenon
  <2>2. framed \in 0..Len(r.frames)
    BY <1>5 DEF InStream
  <2>3. ~(framed < Len(r.frames))
    BY <1>3, <1>5, <2>1, AllFrames
  <2> QED BY <1>3, <2>2, <2>3
<1>7. consumed = StreamLength(r) /\ decoded = r.end - r.start + 1
  BY <1>3, <1>5, <1>6, AllFrames
<1>8. RangeLoads(dump, loaded + 1) /\ Reached(dump, loaded + 1)
  <2>1. \A j \in 1..Len(r.frames) : r.frames[j].type # "unskippable"
    BY <1>5, <1>6, Zenon DEF InStream
  <2>2. StreamLength(r) <= Room(dump, loaded)
    BY <1>1, <1>5, <1>7
  <2>3. Reached(dump, loaded + 1)
    BY <1>3, <1>4, NextIsReached
  <2> QED BY <1>1, <2>1, <2>2, <2>3, OpenLoads, Zenon
<1>9. Passed(dump, loaded + 1)
  BY <1>4, <1>8, OneMorePassed, Zenon
<1>10. Elements(segments) = StoredTo(dump, loaded + 1)
  <2>1. Stored(dump, r) = FramesTo(r, framed)
    BY <1>4, <1>6, AllAreStored
  <2> QED BY <1>4, <1>5, <2>1, OneMoreStored, Zenon
<1>11. loaded + 1 # 0 /\ loaded + 1 \in 0..Len(dump.ranges)
  BY <1>3, <1>4
<1>12. Place(dump, loaded + 1) = offset'
  <2>1. Behind(dump, r) = r.at + HeaderSize + (StreamLength(r) + Trailer)
    BY <1>4 DEF Behind
  <2>2. Behind(dump, r) = offset + HeaderSize + (consumed + Trailer)
    BY <1>3, <1>7, <2>1
  <2> HIDE DEF r
  <2>3. Behind(dump, r) = offset + HeaderSize + consumed + Trailer
    BY <1>1, <1>3, <2>2, TrailerSums, Zenon
  <2> QED BY <1>2, <1>11, <2>3 DEF Place, r
<1>13. UpTo(segments, Top(dump, loaded + 1), Place(dump, loaded + 1) + HeaderSize)
  <2> DEFINE a == r.start + decoded
             b == r.end + 1
             p == offset + HeaderSize + consumed + FrameHeader + CrcLength
             q == offset + HeaderSize + consumed + Trailer + HeaderSize
  <2>1. a \in Nat /\ b \in Nat /\ a <= b
    <3> DEFINE x == r.start
               y == r.end
    <3>1. x \in Nat /\ y \in Nat /\ x <= y /\ decoded = y - x + 1
      BY <1>3, <1>7
    <3> HIDE DEF x, y
    <3>2. x + decoded \in Nat /\ y + 1 \in Nat /\ x + decoded <= y + 1
      BY <3>1
    <3> QED BY <3>2 DEF x, y
  <2>2. p \in Nat /\ q \in Nat /\ p <= q
    <3>1. offset \in Nat /\ consumed \in Nat
      BY <1>1, <1>3
    <3> QED BY <3>1, TrailerSums, Zenon
  <2>3. Top(dump, loaded + 1) = b
    BY <1>11 DEF Top
  <2>4. Place(dump, loaded + 1) + HeaderSize = q
    BY <1>2, <1>12
  <2> HIDE DEF a, b, p, q
  <2>5. UpTo(segments, a, p)
    BY <1>5 DEF a, p
  <2>6. UpTo(segments, b, q)
    BY <1>5, <2>1, <2>2, <2>5, UpToMore, Zenon
  <2> QED BY <2>3, <2>4, <2>6
<1>14. LoadState(dump, loaded + 1, segments)
  BY <1>5, <1>9, <1>10, <1>11, <1>13 DEF LoadState
<1> QED BY <1>2, <1>4, <1>12, <1>14 DEF AvmlState

\* The loop that never ends.
LEMMA SpinsForAReason ==
  ASSUME dump \in Dumps, offset = Place(dump, loaded),
         StreamState(dump, loaded, segments, consumed, framed, decoded), Spins
  PROVE  ~Loadable(dump)
<1> DEFINE r == dump.ranges[loaded + 1]
           f == r.frames[framed + 1]
<1>1. /\ Open(dump, loaded) /\ NextRange = r /\ DataLength = Room(dump, loaded)
      /\ consumed \in Nat /\ DataLength \in Int
      /\ consumed <= DataLength => FramesRead(dump, loaded, segments, consumed, framed, decoded)
      /\ consumed > DataLength => ~Loadable(dump)
  BY StreamFacts
<1>2. Wanted /\ ~(consumed + FrameHeader < DataLength)
  <2>1. Wanted /\ consumed + FrameHeader >= DataLength
    BY DEF Spins
  <2> QED BY <1>1, <2>1 DEF FrameHeader
<1>3. CASE consumed <= DataLength
  <2>1. InStream(r, framed, consumed, decoded)
    BY <1>1, <1>3 DEF FramesRead
  <2>2. r \in Ranges /\ GoodStream(r) /\ r.start \in Nat /\ r.end \in Nat /\ Len(r.frames) \in Nat
        /\ StreamLength(r) \in Nat
    BY <1>1, OpenFacts
  <2>3. framed < Len(r.frames)
    <3>1. framed \in 0..Len(r.frames)
      BY <2>1 DEF InStream
    <3>2. decoded <= r.end - r.start
      BY <1>1, <1>2 DEF Wanted
    <3>3. framed # Len(r.frames)
      <4>1. SUFFICES ASSUME framed = Len(r.frames) PROVE FALSE
        OBVIOUS
      <4>2. decoded = r.end - r.start + 1
        BY <2>1, <2>2, <4>1, AllFrames
      <4> DEFINE x == r.end - r.start
      <4>3. x \in Int /\ decoded <= x /\ decoded = x + 1
        BY <2>2, <3>2, <4>2
      <4> HIDE DEF x
      <4> QED BY <4>3
    <3> QED BY <2>2, <3>1, <3>3
  <2>4. framed + 1 \in 1..Len(r.frames) /\ f.at = consumed
    BY <2>1, <2>2, <2>3, NextFrame
  <2>5. consumed + FrameHeader < StreamLength(r)
    BY <2>2, <2>4, FrameInStream
  <2>6. DataLength < StreamLength(r)
    BY <1>1, <1>2, <2>2, <2>5 DEF FrameHeader
  <2>7. Room(dump, loaded) < StreamLength(r)
    BY <1>1, <2>6
  <2> QED BY <1>1, <2>7, StreamTooLong, Zenon
<1>4. CASE ~(consumed <= DataLength)
  <2>1. consumed > DataLength
    BY <1>1, <1>4
  <2> QED BY <1>1, <2>1
<1> QED BY <1>3, <1>4

\* The end of the file.
LEMMA AvmlEndsWell ==
  ASSUME dump \in Dumps, AvmlState(dump, loaded, segments, offset), AvmlEnds
  PROVE  Loadable(dump) /\ TableOf(dump, segments)
<1>1. /\ dump.avml /\ LoadState(dump, loaded, segments) /\ offset = Place(dump, loaded)
      /\ offset + 4 >= dump.last
  BY DEF AvmlState, AvmlEnds
<1>2. AtEnd(dump, loaded)
  BY <1>1 DEF AtEnd
<1> QED BY <1>1, <1>2, LoadIsComplete, Zenon

LEMMA LimeEndsWell ==
  ASSUME dump \in Dumps, LimeState(dump, loaded, segments, offset, maxaddr), LimeEnds
  PROVE  \/ phase' = "loaded" /\ Loadable(dump) /\ TableOf(dump, segments)
         \/ phase' = "LimeFormatException" /\ ~Loadable(dump)
<1>1. /\ ~dump.avml /\ LoadState(dump, loaded, segments) /\ offset = Place(dump, loaded)
      /\ offset >= dump.last
      /\ phase' = IF segments = <<>> THEN "LimeFormatException" ELSE "loaded"
  BY DEF LimeState, LimeEnds
<1>2. CASE segments = <<>>
  <2>1. loaded = 0
    BY <1>1, <1>2, LimeHasSegments
  <2>2. ~(dump.last > 0)
    <3>1. offset = 0 /\ dump.last \in Nat
      BY <1>1, <2>1, DumpTypes DEF Place
    <3> QED BY <1>1, <3>1
  <2> QED BY <1>1, <1>2, <2>2 DEF Loadable
<1>3. CASE segments # <<>>
  <2>1. dump.last > 0
    BY <1>1, <1>3, LimeHasSegments
  <2>2. AtEnd(dump, loaded)
    BY <1>1 DEF AtEnd
  <2> QED BY <1>1, <1>3, <2>1, <2>2, LoadIsComplete
<1> QED BY <1>2, <1>3

-----------------------------------------------------------------------------
(* The invariant.                                                           *)

LoadPhases == {"lime", "avml", "frames", "loaded"}
ReadPhases == {"mapping", "returned", "raised"}
RefusedPhases == {"LimeFormatException", "error"}

SegmentsInv ==
  /\ dump \in Dumps /\ phase \in LoadPhases \cup ReadPhases \cup RefusedPhases
  /\ phase = "lime" => LimeState(dump, loaded, segments, offset, maxaddr)
  /\ phase = "avml" => AvmlState(dump, loaded, segments, offset)
  /\ phase = "frames" => /\ offset = Place(dump, loaded)
                         /\ StreamState(dump, loaded, segments, consumed, framed, decoded)
  /\ IsLoaded => Loadable(dump) /\ TableOf(dump, segments)
  /\ phase \in LoadPhases => recovered = <<>>
  /\ phase \in ReadPhases => ReadIsRight
  /\ phase \in RefusedPhases => ~Loadable(dump)

\* The invariant behind a step of the load, and behind one of the read.
LEMMA WhileLoading ==
  ASSUME dump' \in Dumps, recovered' = <<>>,
         \/ phase' = "lime" /\ LimeState(dump', loaded', segments', offset', maxaddr')
         \/ phase' = "avml" /\ AvmlState(dump', loaded', segments', offset')
         \/ /\ phase' = "frames" /\ offset' = Place(dump', loaded')
            /\ StreamState(dump', loaded', segments', consumed', framed', decoded')
         \/ phase' = "loaded" /\ Loadable(dump') /\ TableOf(dump', segments')
         \/ phase' \in RefusedPhases /\ ~Loadable(dump')
  PROVE  SegmentsInv'
  BY DEF SegmentsInv, IsLoaded, LoadPhases, ReadPhases, RefusedPhases

LEMMA WhileReading ==
  ASSUME dump' \in Dumps, phase' \in ReadPhases, Loadable(dump'), TableOf(dump', segments'),
         ReadState(dump', request', recovered', current', phase')
  PROVE  SegmentsInv'
  BY DEF SegmentsInv, ReadIsRight, IsLoaded, LoadPhases, ReadPhases, RefusedPhases

LEMMA SegmentsStart ==
  ASSUME SegmentInit
  PROVE  SegmentsInv
<1>1. /\ dump \in Dumps /\ offset = 0 /\ loaded = 0 /\ maxaddr = 0
      /\ segments = <<>> /\ recovered = <<>>
      /\ phase = IF dump.avml THEN "avml" ELSE "lime"
  BY DEF SegmentInit, LoadStart
<1>2. LoadState(dump, 0, <<>>) /\ Place(dump, 0) = 0 /\ LastOf(dump, 0) = 0
  BY <1>1, NothingIsLoaded DEF LastOf
<1>3. CASE dump.avml
  <2>1. phase = "avml" /\ AvmlState(dump, loaded, segments, offset)
    BY <1>1, <1>2, <1>3 DEF AvmlState
  <2> QED BY <1>1, <2>1 DEF SegmentsInv, IsLoaded, LoadPhases, ReadPhases, RefusedPhases
<1>4. CASE ~dump.avml
  <2>1. phase = "lime" /\ LimeState(dump, loaded, segments, offset, maxaddr)
    BY <1>1, <1>2, <1>4 DEF LimeState
  <2> QED BY <1>1, <2>1 DEF SegmentsInv, IsLoaded, LoadPhases, ReadPhases, RefusedPhases
<1> QED BY <1>3, <1>4

\* A read begins.
LEMMA BeginReadIsRight ==
  ASSUME dump \in Dumps, recovered = <<>>, BeginRead
  PROVE  ReadState(dump, request', recovered', current', phase')
<1>1. phase' = "mapping" /\ request' \in Requests /\ current' = request'.at /\ recovered' = <<>>
  BY DEF BeginRead
<1>2. request'.at \in Nat /\ request'.length \in Nat /\ request'.length > 0
  BY <1>1, RequestTypes
<1>3. <<>> \in Seq(ByteRecords) /\ Len(<<>>) = 0
  OBVIOUS
<1>4. RightTo(dump, request', <<>>)
  BY <1>3 DEF RightTo
<1>5. request'.at = request'.at + 0 /\ request'.at < request'.at + request'.length
  BY <1>2
<1> QED BY <1>1, <1>3, <1>4, <1>5 DEF ReadState

LEMMA SegmentsStep ==
  ASSUME SegmentsInv, [SegmentNext]_segmentVars
  PROVE  SegmentsInv'
<1>1. /\ dump \in Dumps
      /\ phase = "lime" => LimeState(dump, loaded, segments, offset, maxaddr)
      /\ phase = "avml" => AvmlState(dump, loaded, segments, offset)
      /\ phase = "frames" => /\ offset = Place(dump, loaded)
                             /\ StreamState(dump, loaded, segments, consumed, framed, decoded)
      /\ IsLoaded => Loadable(dump) /\ TableOf(dump, segments)
      /\ phase \in LoadPhases => recovered = <<>>
      /\ phase \in ReadPhases => ReadIsRight
  BY Zenon DEF SegmentsInv
<1>2. ASSUME LoadLime PROVE SegmentsInv'
  <2>1. /\ phase = "lime" /\ offset < dump.last /\ dump' = dump /\ recovered' = recovered
        /\ phase \in LoadPhases
    BY <1>2 DEF LoadLime, readVars, LoadPhases
  <2>2. LimeState(dump, loaded, segments, offset, maxaddr)
    BY <1>1, <2>1
  <2>3. recovered' = <<>>
    BY <1>1, <2>1
  <2>4. CASE HeaderHere /\ ~BadRange(NextRange, maxaddr)
    <3> DEFINE n == NextRange.end - NextRange.start + 1
    <3>1. /\ segments' = Append(segments, Segment(NextRange.start, offset + HeaderSize, n, n))
          /\ offset' = offset + HeaderSize + n /\ maxaddr' = NextRange.end
          /\ loaded' = loaded + 1 /\ phase' = phase
      BY <1>2, <2>4 DEF LoadLime
    <3> HIDE DEF n
    <3>2. LimeState(dump, loaded + 1, segments', offset + HeaderSize + n, NextRange.end)
      BY <1>1, <2>1, <2>2, <2>4, <3>1, OneMoreRange, Zenon DEF n
    <3>3. phase' = "lime" /\ LimeState(dump', loaded', segments', offset', maxaddr')
      BY <2>1, <3>1, <3>2
    <3>4. dump' \in Dumps
      BY <1>1, <2>1
    <3> QED BY <2>3, <3>3, <3>4, WhileLoading
  <2>5. CASE ~HeaderHere \/ BadRange(NextRange, maxaddr)
    <3>1. phase' = "LimeFormatException"
      BY <1>2, <2>5 DEF LoadLime
    <3>2. ~Loadable(dump')
      BY <1>1, <2>1, <2>2, <2>5, LimeIsRefused
    <3>3. phase' \in RefusedPhases /\ dump' \in Dumps
      BY <1>1, <2>1, <3>1 DEF RefusedPhases
    <3> QED BY <2>3, <3>2, <3>3, WhileLoading
  <2> QED BY <2>4, <2>5
<1>3. ASSUME LimeEnds PROVE SegmentsInv'
  <2>1. /\ phase = "lime" /\ dump' = dump /\ recovered' = recovered /\ segments' = segments
        /\ phase \in LoadPhases
    BY <1>3 DEF LimeEnds, readVars, loadVars, LoadPhases
  <2>2. \/ phase' = "loaded" /\ Loadable(dump) /\ TableOf(dump, segments)
        \/ phase' = "LimeFormatException" /\ ~Loadable(dump)
    BY <1>1, <1>3, <2>1, LimeEndsWell
  <2>3. \/ phase' = "loaded" /\ Loadable(dump') /\ TableOf(dump', segments')
        \/ phase' \in RefusedPhases /\ ~Loadable(dump')
    BY <2>1, <2>2 DEF RefusedPhases
  <2>4. dump' \in Dumps /\ recovered' = <<>>
    BY <1>1, <2>1
  <2> QED BY <2>3, <2>4, WhileLoading
<1>4. ASSUME OpenRange PROVE SegmentsInv'
  <2>1. /\ phase = "avml" /\ dump' = dump /\ recovered' = recovered /\ segments' = segments
        /\ offset' = offset /\ loaded' = loaded /\ phase \in LoadPhases
    BY <1>4 DEF OpenRange, readVars, LoadPhases
  <2>2. /\ AvmlState(dump, loaded, segments, offset) /\ dump' \in Dumps /\ recovered' = <<>>
        /\ offset = Place(dump, loaded)
    BY <1>1, <2>1 DEF AvmlState
  <2>3. \/ /\ phase' = "frames"
           /\ StreamState(dump, loaded, segments, consumed', framed', decoded')
        \/ phase' = "error" /\ ~Loadable(dump)
    BY <1>1, <1>4, <2>2, OpenRangeIsRight
  <2>4. \/ /\ phase' = "frames" /\ offset' = Place(dump', loaded')
           /\ StreamState(dump', loaded', segments', consumed', framed', decoded')
        \/ phase' \in RefusedPhases /\ ~Loadable(dump')
    BY <2>1, <2>2, <2>3 DEF RefusedPhases
  <2> QED BY <2>2, <2>4, WhileLoading
<1>5. ASSUME ReadFrame PROVE SegmentsInv'
  <2>1. /\ phase = "frames" /\ dump' = dump /\ recovered' = recovered
        /\ offset' = offset /\ loaded' = loaded /\ phase \in LoadPhases
    BY <1>5 DEF ReadFrame, readVars, LoadPhases
  <2>2. /\ offset = Place(dump, loaded) /\ dump' \in Dumps /\ recovered' = <<>>
        /\ StreamState(dump, loaded, segments, consumed, framed, decoded)
    BY <1>1, <2>1
  <2>3. \/ /\ phase' = "frames"
           /\ StreamState(dump, loaded, segments', consumed', framed', decoded')
        \/ phase' = "error" /\ ~Loadable(dump)
    BY <1>5, <2>2, ReadFrameIsRight
  <2>4. \/ /\ phase' = "frames" /\ offset' = Place(dump', loaded')
           /\ StreamState(dump', loaded', segments', consumed', framed', decoded')
        \/ phase' \in RefusedPhases /\ ~Loadable(dump')
    BY <2>1, <2>2, <2>3 DEF RefusedPhases
  <2> QED BY <2>2, <2>4, WhileLoading
<1>6. ASSUME RangeEnds PROVE SegmentsInv'
  <2>1. /\ phase = "frames" /\ phase' = "avml" /\ dump' = dump /\ recovered' = recovered
        /\ phase \in LoadPhases
    BY <1>6 DEF RangeEnds, readVars, LoadPhases
  <2>2. AvmlState(dump, loaded', segments', offset')
    BY <1>1, <1>6, <2>1, RangeEndsIsRight
  <2>3. AvmlState(dump', loaded', segments', offset') /\ dump' \in Dumps /\ recovered' = <<>>
    BY <1>1, <2>1, <2>2
  <2> QED BY <2>1, <2>3, WhileLoading
<1>7. ASSUME AvmlEnds PROVE SegmentsInv'
  <2>1. /\ phase = "avml" /\ phase' = "loaded" /\ dump' = dump /\ recovered' = recovered
        /\ segments' = segments /\ phase \in LoadPhases
    BY <1>7 DEF AvmlEnds, readVars, loadVars, LoadPhases
  <2>2. Loadable(dump) /\ TableOf(dump, segments)
    BY <1>1, <1>7, <2>1, AvmlEndsWell
  <2>3. /\ Loadable(dump') /\ TableOf(dump', segments') /\ dump' \in Dumps
        /\ recovered' = <<>>
    BY <1>1, <2>1, <2>2
  <2> QED BY <2>1, <2>3, WhileLoading
<1>8. ASSUME BeginRead PROVE SegmentsInv'
  <2>1. /\ phase = "loaded" /\ phase' = "mapping" /\ dump' = dump /\ segments' = segments
        /\ phase \in LoadPhases /\ IsLoaded
    BY <1>8 DEF BeginRead, loadVars, LoadPhases, IsLoaded
  <2>2. Loadable(dump') /\ TableOf(dump', segments') /\ dump' \in Dumps
    BY <1>1, <2>1
  <2>3. ReadState(dump, request', recovered', current', phase')
    BY <1>1, <1>8, <2>1, BeginReadIsRight
  <2>4. ReadState(dump', request', recovered', current', phase') /\ phase' \in ReadPhases
    BY <2>1, <2>3 DEF ReadPhases
  <2> QED BY <2>2, <2>4, WhileReading
<1>9. ASSUME ReadSegment \/ ReadHole PROVE SegmentsInv'
  <2>1. /\ phase = "mapping" /\ dump' = dump /\ request' = request /\ segments' = segments
        /\ phase \in ReadPhases /\ IsLoaded
    BY <1>9 DEF ReadSegment, ReadHole, loadVars, ReadPhases, IsLoaded
  <2>2. /\ Loadable(dump) /\ TableOf(dump, segments) /\ dump' \in Dumps /\ ReadIsRight
        /\ Loadable(dump') /\ TableOf(dump', segments')
    BY <1>1, <2>1
  <2>3. ReadState(dump, request, recovered', current', phase')
    BY <1>1, <1>9, <2>1, <2>2, ReadSegmentIsRight, ReadHoleIsRight
  <2>4. phase' \in ReadPhases
    BY <2>3 DEF ReadState, ReadPhases
  <2>5. ReadState(dump', request', recovered', current', phase')
    BY <2>1, <2>3
  <2> QED BY <2>2, <2>4, <2>5, WhileReading
<1>10. ASSUME UNCHANGED segmentVars PROVE SegmentsInv'
  <2>1. /\ dump' = dump /\ phase' = phase /\ offset' = offset /\ loaded' = loaded
        /\ maxaddr' = maxaddr /\ consumed' = consumed /\ framed' = framed /\ decoded' = decoded
        /\ segments' = segments /\ request' = request /\ current' = current
        /\ recovered' = recovered
    BY <1>10 DEF segmentVars, loadVars, readVars
  <2>2. IsLoaded' <=> IsLoaded
    BY <2>1 DEF IsLoaded
  <2>3. ReadIsRight' <=> ReadIsRight
    BY <2>1 DEF ReadIsRight
  <2> QED BY <2>1, <2>2, <2>3 DEF SegmentsInv
<1> QED BY <1>2, <1>3, <1>4, <1>5, <1>6, <1>7, <1>8, <1>9, <1>10 DEF SegmentNext

LEMMA SegmentsInvIsEnough ==
  ASSUME SegmentsInv
  PROVE  SegmentsReadTheFile
<1>1. /\ dump \in Dumps
      /\ phase = "frames" => /\ offset = Place(dump, loaded)
                             /\ StreamState(dump, loaded, segments, consumed, framed, decoded)
      /\ IsLoaded => Loadable(dump)
      /\ phase \in ReadPhases => ReadIsRight
      /\ phase \in RefusedPhases => ~Loadable(dump)
  BY Zenon DEF SegmentsInv
<1>2. LoadsWhatIsSound
  <2>1. Spins => ~Loadable(dump)
    <3>1. HAVE Spins
    <3>2. phase = "frames"
      BY <3>1 DEF Spins
    <3> QED BY <1>1, <3>1, <3>2, SpinsForAReason
  <2> QED BY <1>1, <2>1 DEF LoadsWhatIsSound, RefusedPhases
<1>3. ASSUME phase \in ReadPhases
      PROVE  /\ RecoveredIsRight
             /\ phase = "returned" => Len(recovered) = request.length
             /\ phase = "raised" => RaisedForAReason
  <2>1. /\ RightTo(dump, request, recovered)
        /\ phase = "returned" => Len(recovered) = request.length
        /\ phase = "raised" => ReasonTo(dump, request, recovered)
    BY <1>1, <1>3, Zenon DEF ReadIsRight, ReadState
  <2>2. RecoveredIsRight
    BY <2>1 DEF RecoveredIsRight, RightTo
  <2>3. phase = "raised" => RaisedForAReason
    BY <2>1 DEF RaisedForAReason, CutOff, ReasonTo, Until
  <2> QED BY <2>1, <2>2, <2>3
<1> QED BY <1>2, <1>3 DEF SegmentsReadTheFile, ReadPhases

\* A dump in segments is loaded when its headers are right and its ranges fit, and a
\* read gives the byte the file holds for each address, or raises for one that is not
\* there, with padding only for one that the file was cut off before: for any files and
\* any reads (lime.py:37-89, avml.py:100-209, segmented.py:60-187, linear.py:40-67,
\* physical.py:153-175).
THEOREM SegmentsAlwaysReadTheFile == SegmentSpec => []SegmentsReadTheFile
<1>1. SegmentInit => SegmentsInv
  BY SegmentsStart
<1>2. SegmentsInv /\ [SegmentNext]_segmentVars => SegmentsInv'
  BY SegmentsStep
<1>3. SegmentsInv => SegmentsReadTheFile
  BY SegmentsInvIsEnough
<1> QED BY <1>1, <1>2, <1>3, PTL DEF SegmentSpec

-----------------------------------------------------------------------------
(* The scan of a layer.                                                     *)

USE ChunkAssumption

-----------------------------------------------------------------------------
(* Lists of sections.                                                       *)

\* What Section makes is a section, and its end is where it should be.
LEMMA SectionFacts ==
  ASSUME NEW m \in Nat, NEW n \in Nat
  PROVE  /\ Section(m, n) \in Sections
         /\ Section(m, n).start = m /\ Section(m, n).length = n
         /\ End(Section(m, n)) = m + n
  BY DEF Section, Sections, End

LEMMA EndFacts ==
  ASSUME NEW s \in Sections
  PROVE  /\ s.start \in Nat /\ s.length \in Nat /\ End(s) \in Nat
         /\ s.start <= End(s) /\ End(s) = s.start + s.length
  BY DEF Sections, End

LEMMA ElementIsSection ==
  ASSUME NEW list \in Seq(Sections), NEW i \in 1..Len(list)
  PROVE  list[i] \in Sections
  BY LenProperties

LEMMA LengthFacts ==
  ASSUME NEW S, NEW list \in Seq(S)
  PROVE  Len(list) \in Nat /\ (list # <<>> <=> Len(list) >= 1)
<1>1. Len(list) \in Nat
  BY LenProperties
<1>2. list # <<>> => Len(list) >= 1
  BY <1>1, EmptySeq
<1>3. list = <<>> => Len(list) = 0
  BY EmptySeq, Zenon
<1> QED BY <1>1, <1>2, <1>3

\* How one list of sections differs from another.
SameUpTo(new, list, n) == \A i \in 1..n : new[i] = list[i]
SameBut(new, list, k, e) ==
  /\ new \in Seq(Sections) /\ Len(new) = Len(list)
  /\ \A i \in 1..Len(list) : new[i] = IF i = k THEN e ELSE list[i]
HoldsMore(p, q, s) == \A a \in Int : Holds(p, a) <=> (Holds(q, a) \/ Holds(s, a))
CoversMore(new, list, s) == \A a \in Int : Covers(new, a) <=> (Covers(list, a) \/ Holds(s, a))

\* One section is replaced; one is added.
LEMMA ExceptSection ==
  ASSUME NEW list \in Seq(Sections), NEW k \in 1..Len(list), NEW e \in Sections
  PROVE  SameBut([list EXCEPT ![k] = e], list, k, e)
<1>1. [list EXCEPT ![k] = e] \in Seq(Sections) /\ Len([list EXCEPT ![k] = e]) = Len(list)
  BY ExceptSeq
<1>2. \A i \in 1..Len(list) : [list EXCEPT ![k] = e][i] = IF i = k THEN e ELSE list[i]
  BY ExceptSeq
<1> QED BY <1>1, <1>2, Zenon DEF SameBut

LEMMA SetSection ==
  ASSUME NEW list \in Seq(Sections), NEW k \in 1..Len(list), NEW e \in Sections,
         NEW new, new = [list EXCEPT ![k] = e]
  PROVE  SameBut(new, list, k, e)
  BY ExceptSection, Zenon

LEMMA AppendOne ==
  ASSUME NEW list \in Seq(Sections), NEW s \in Sections
  PROVE  /\ Append(list, s) \in Seq(Sections) /\ Append(list, s) # <<>>
         /\ Len(Append(list, s)) = Len(list) + 1
         /\ \A i \in 1..Len(list) : Append(list, s)[i] = list[i]
         /\ Append(list, s)[Len(list) + 1] = s
  BY AppendProperties

LEMMA AddSection ==
  ASSUME NEW list \in Seq(Sections), NEW s \in Sections, NEW new, new = Append(list, s)
  PROVE  /\ new \in Seq(Sections) /\ new # <<>> /\ Len(new) = Len(list) + 1
         /\ \A i \in 1..Len(list) : new[i] = list[i]
         /\ new[Len(list) + 1] = s
<1>1. new \in Seq(Sections) /\ new # <<>> /\ Len(new) = Len(list) + 1
  BY AppendOne, Zenon
<1>2. ASSUME NEW i \in 1..Len(list)
      PROVE  new[i] = list[i]
  BY AppendOne, Zenon
<1>3. new[Len(list) + 1] = s
  BY AppendOne, Zenon
<1> QED BY <1>1, <1>2, <1>3

LEMMA DropFirst ==
  ASSUME NEW S, NEW list \in Seq(S), list # <<>>, NEW new, new = Tail(list)
  PROVE  /\ new \in Seq(S) /\ Len(new) = Len(list) - 1
         /\ \A i \in 1..Len(new) : new[i] = list[i + 1]
<1>1. /\ Tail(list) \in Seq(S) /\ Len(Tail(list)) = Len(list) - 1
      /\ \A i \in 1..Len(Tail(list)) : Tail(list)[i] = list[i + 1]
  BY HeadTailProperties, Zenon
<1> QED BY <1>1, Zenon

LEMMA DropLast ==
  ASSUME NEW list \in Seq(Sections), list # <<>>,
         NEW new, new = SubSeq(list, 1, Len(list) - 1)
  PROVE  /\ new \in Seq(Sections) /\ Len(new) = Len(list) - 1
         /\ \A i \in 1..Len(new) : new[i] = list[i]
<1> DEFINE n == Len(list) - 1
<1>1. n \in Nat /\ \A i \in 1..n : list[i] \in Sections
  BY LengthFacts, ElementIsSection
<1> HIDE DEF n
<1>2. new = SubSeq(list, 1, n)
  BY DEF n
<1>3. /\ SubSeq(list, 1, n) \in Seq(Sections)
      /\ Len(SubSeq(list, 1, n)) = (IF 1 <= n THEN n - 1 + 1 ELSE 0)
      /\ \A i \in 1..n - 1 + 1 : SubSeq(list, 1, n)[i] = list[1 + i - 1]
  BY <1>1, SubSeqProperties
<1>4. new \in Seq(Sections) /\ Len(new) = n
  BY <1>1, <1>2, <1>3
<1>5. ASSUME NEW i \in 1..n
      PROVE  new[i] = list[i]
  <2>1. i \in 1..n - 1 + 1 /\ 1 + i - 1 = i
    BY <1>1
  <2> QED BY <1>2, <1>3, <2>1, Zenon
<1> QED BY <1>4, <1>5, Zenon DEF n

\* A section behind all the others is appended.
LEMMA AppendSection ==
  ASSUME NEW list \in Seq(Sections), NEW s \in Sections, Separate(list),
         list # <<>> => End(list[Len(list)]) < s.start,
         NEW new, new = Append(list, s)
  PROVE  Separate(new) /\ CoversMore(new, list, s)
<1> DEFINE n == Len(list)
<1>1. /\ new \in Seq(Sections) /\ Len(new) = n + 1 /\ new[n + 1] = s
      /\ \A i \in 1..n : new[i] = list[i]
  BY AddSection
<1>2. n \in Nat /\ (list # <<>> <=> n >= 1)
  BY LengthFacts
<1>3. Separate(new)
  <2> SUFFICES ASSUME NEW i \in 1..Len(new), NEW j \in 1..Len(new), i < j
               PROVE  End(new[i]) < new[j].start
    BY DEF Separate
  <2>1. i \in 1..n /\ new[i] = list[i]
    BY <1>1, <1>2
  <2>2. CASE j \in 1..n
    BY <1>1, <2>1, <2>2 DEF Separate
  <2>3. CASE j = n + 1
    <3>1. n \in 1..n /\ End(list[n]) < s.start
      BY <1>2, <2>1
    <3>2. list[i] \in Sections /\ list[n] \in Sections
      BY <2>1, <3>1, ElementIsSection
    <3>3. i = n \/ End(list[i]) < list[n].start
      BY <2>1, <3>1 DEF Separate
    <3>4. End(list[i]) < s.start
      BY <3>1, <3>2, <3>3, EndFacts
    <3> QED BY <1>1, <2>1, <2>3, <3>4
  <2> QED BY <1>1, <1>2, <2>2, <2>3
<1>4. ASSUME NEW a \in Int
      PROVE  Covers(new, a) <=> (Covers(list, a) \/ Holds(s, a))
  <2>1. Covers(new, a) => (Covers(list, a) \/ Holds(s, a))
    BY <1>1, <1>2 DEF Covers
  <2>2. Covers(list, a) => Covers(new, a)
    BY <1>1, <1>2 DEF Covers
  <2>3. Holds(s, a) => Covers(new, a)
    <3>1. n + 1 \in 1..Len(new)
      BY <1>1, <1>2
    <3> QED BY <1>1, <3>1 DEF Covers
  <2> QED BY <2>1, <2>2, <2>3
<1> QED BY <1>3, <1>4 DEF CoversMore

\* The last section ends elsewhere.
LEMMA StretchLast ==
  ASSUME NEW list \in Seq(Sections), NEW new \in Seq(Sections), list # <<>>,
         Separate(list), Len(new) = Len(list),
         new[Len(list)].start = list[Len(list)].start,
         SameUpTo(new, list, Len(list) - 1)
  PROVE  Separate(new)
<1> DEFINE n == Len(list)
<1>0. n \in 1..n /\ n \in Nat
  BY LengthFacts
<1> SUFFICES ASSUME NEW i \in 1..n, NEW j \in 1..n, i < j
             PROVE  End(new[i]) < new[j].start
  BY DEF Separate
<1>1. new[i] = list[i]
  BY <1>0 DEF SameUpTo
<1>2. new[j].start = list[j].start
  BY <1>0 DEF SameUpTo
<1> QED BY <1>1, <1>2 DEF Separate

\* With what the longer last section holds, the list covers that much more.
LEMMA StretchCovers ==
  ASSUME NEW list \in Seq(Sections), NEW new \in Seq(Sections), NEW s \in Sections,
         list # <<>>, Len(new) = Len(list),
         SameUpTo(new, list, Len(list) - 1),
         HoldsMore(new[Len(list)], list[Len(list)], s)
  PROVE  CoversMore(new, list, s)
<1> DEFINE n == Len(list)
<1>0. n \in 1..n /\ n \in Nat /\ \A i \in 1..n : i = n \/ i \in 1..n - 1
  BY LengthFacts
<1> SUFFICES ASSUME NEW a \in Int
             PROVE  Covers(new, a) <=> (Covers(list, a) \/ Holds(s, a))
  BY DEF CoversMore
<1>1. ASSUME NEW i \in 1..n, Holds(new[i], a)
      PROVE  Covers(list, a) \/ Holds(s, a)
  BY <1>0, <1>1, Zenon DEF Covers, SameUpTo, HoldsMore
<1>2. ASSUME NEW i \in 1..n, Holds(list[i], a)
      PROVE  Covers(new, a)
  BY <1>0, <1>2, Zenon DEF Covers, SameUpTo, HoldsMore
<1>3. Holds(s, a) => Covers(new, a)
  BY <1>0, Zenon DEF Covers, SameUpTo, HoldsMore
<1> QED BY <1>1, <1>2, <1>3, Zenon DEF Covers

\* The first section goes.
LEMMA TailSections ==
  ASSUME NEW list \in Seq(Sections), NEW new \in Seq(Sections), list # <<>>,
         Separate(list), Len(new) = Len(list) - 1,
         \A i \in 1..Len(new) : new[i] = list[i + 1]
  PROVE  /\ Separate(new)
         /\ \A a \in Int : Covers(list, a) <=> (Covers(new, a) \/ Holds(list[1], a))
<1> DEFINE n == Len(list)
<1>0. n \in Nat /\ n >= 1 /\ Len(new) \in Nat
  BY LengthFacts
<1>1. Separate(new)
  <2> SUFFICES ASSUME NEW i \in 1..Len(new), NEW j \in 1..Len(new), i < j
               PROVE  End(new[i]) < new[j].start
    BY DEF Separate
  <2>1. i + 1 \in 1..n /\ j + 1 \in 1..n /\ i + 1 < j + 1
    BY <1>0
  <2> QED BY <2>1, Zenon DEF Separate
<1>2. ASSUME NEW a \in Int, Covers(list, a)
      PROVE  Covers(new, a) \/ Holds(list[1], a)
  <2>1. PICK i \in 1..n : Holds(list[i], a)
    BY <1>2 DEF Covers
  <2>2. CASE i = 1
    BY <2>1, <2>2
  <2>3. CASE i # 1
    <3>1. i - 1 \in 1..Len(new) /\ (i - 1) + 1 = i
      BY <1>0, <2>3
    <3>2. new[i - 1] = list[i]
      BY <3>1
    <3> QED BY <2>1, <3>1, <3>2, Zenon DEF Covers
  <2> QED BY <2>2, <2>3
<1>3. ASSUME NEW a \in Int, NEW i \in 1..Len(new), Holds(new[i], a)
      PROVE  Covers(list, a)
  <2>1. i + 1 \in 1..n
    BY <1>0
  <2> QED BY <1>3, <2>1, Zenon DEF Covers
<1>4. 1 \in 1..n
  BY <1>0
<1> QED BY <1>1, <1>2, <1>3, <1>4, Zenon DEF Covers

\* The first section begins later.
LEMMA CutFirst ==
  ASSUME NEW list \in Seq(Sections), NEW new \in Seq(Sections), list # <<>>,
         Separate(list), Len(new) = Len(list),
         End(new[1]) = End(list[1]), new[1].start >= list[1].start,
         \A i \in 1..Len(list) : i # 1 => new[i] = list[i]
  PROVE  /\ Separate(new)
         /\ \A a \in Int : Covers(new, a) => Covers(list, a)
         /\ \A a \in Int : Covers(list, a) /\ a >= new[1].start => Covers(new, a)
<1> DEFINE n == Len(list)
<1>0. n \in Nat /\ n >= 1 /\ 1 \in 1..n
  BY LengthFacts
<1>1. Separate(new)
  <2> SUFFICES ASSUME NEW i \in 1..n, NEW j \in 1..n, i < j
               PROVE  End(new[i]) < new[j].start
    BY DEF Separate
  <2>1. new[j] = list[j] /\ End(new[i]) = End(list[i])
    BY <1>0
  <2> QED BY <2>1, Zenon DEF Separate
<1>2. list[1] \in Sections /\ new[1] \in Sections
  BY <1>0, ElementIsSection
<1>3. ASSUME NEW a \in Int
      PROVE  /\ Holds(new[1], a) => Holds(list[1], a)
             /\ Holds(list[1], a) /\ a >= new[1].start => Holds(new[1], a)
  BY <1>2, EndFacts DEF Holds
<1>4. ASSUME NEW a \in Int, NEW i \in 1..n, Holds(new[i], a)
      PROVE  Covers(list, a)
  BY <1>0, <1>3, <1>4, Zenon DEF Covers
<1>5. ASSUME NEW a \in Int, a >= new[1].start, NEW i \in 1..n, Holds(list[i], a)
      PROVE  Covers(new, a)
  BY <1>0, <1>3, <1>5, Zenon DEF Covers
<1> QED BY <1>1, <1>4, <1>5, Zenon DEF Covers

\* The last section goes.
LEMMA FrontSections ==
  ASSUME NEW list \in Seq(Sections), NEW new \in Seq(Sections), list # <<>>,
         Separate(list), Len(new) = Len(list) - 1,
         \A i \in 1..Len(new) : new[i] = list[i]
  PROVE  /\ Separate(new)
         /\ \A a \in Int : Covers(list, a) <=> (Covers(new, a) \/ Holds(list[Len(list)], a))
<1> DEFINE n == Len(list)
<1>0. /\ n \in Nat /\ n \in 1..n
      /\ \A i \in 1..Len(new) : i \in 1..n
      /\ \A i \in 1..n : i = n \/ i \in 1..Len(new)
  BY LengthFacts
<1>1. Separate(new)
  BY <1>0, Zenon DEF Separate
<1>2. ASSUME NEW a \in Int, NEW i \in 1..n, Holds(list[i], a)
      PROVE  Covers(new, a) \/ Holds(list[n], a)
  BY <1>0, <1>2, Zenon DEF Covers
<1>3. ASSUME NEW a \in Int, NEW i \in 1..Len(new), Holds(new[i], a)
      PROVE  Covers(list, a)
  BY <1>0, <1>3, Zenon DEF Covers
<1> QED BY <1>0, <1>1, <1>2, <1>3, Zenon DEF Covers

-----------------------------------------------------------------------------
(* The coalescing of sections.                                              *)

Stages == {"merge", "below", "above", "IndexError", "sections", "layer", "blocks", "pack"}

CoalesceTypes ==
  /\ search \in Search /\ stage \in Stages
  /\ taken \in Nat /\ taken <= Len(search.sections)
  /\ reach \in Nat /\ result \in Seq(Sections)

\* The last section of the result ends where the last one taken does, and begins no
\* later.
Merging ==
  stage = "merge" =>
    /\ result = <<>> <=> taken = 0
    /\ result # <<>> => /\ reach = End(Topmost) /\ reach = End(search.sections[taken])
                        /\ Topmost.start <= search.sections[taken].start

\* The clipping runs for ever.
Stuck ==
  /\ stage = "above" /\ Len(result) > 2
  /\ Topmost.start = search.maximum /\ Topmost.length > 0

Parted == Separate(result) \/ Stuck

\* No section begins at the last address of the layer.
NoneAtEnd == Proper => \A i \in 1..Len(result) : result[i].start # search.maximum

Taken(a) == \E j \in 1..taken : Holds(search.sections[j], a)

AddressesKept ==
  Proper =>
    /\ stage # "IndexError"
    /\ stage = "merge" => \A a \in Int : Covers(result, a) <=> Taken(a)
    /\ stage # "merge" =>
         \A a \in Int :
           /\ Covers(result, a) => Covers(search.sections, a)
           /\ Covers(search.sections, a) /\ search.minimum <= a /\ a <= search.maximum
                => Covers(result, a)
    /\ stage \notin {"merge", "below"} =>
         \A i \in 1..Len(result) : result[i].start >= search.minimum

CoalesceInv == CoalesceTypes /\ Merging /\ Parted /\ NoneAtEnd /\ AddressesKept

LEMMA SearchFacts ==
  ASSUME search \in Search
  PROVE  /\ search.sections \in Seq(Sections) /\ Len(search.sections) \in Nat
         /\ search.minimum \in Nat /\ search.maximum \in Nat /\ search.at \in Nat
         /\ search.translated \in BOOLEAN
         /\ \A i \in 1..Len(search.sections) - 1 :
              search.sections[i].start <= search.sections[i + 1].start
<1>1. /\ search.sections \in Seq(Sections)
      /\ search.minimum \in Nat /\ search.maximum \in Nat /\ search.at \in Nat
      /\ search.translated \in BOOLEAN /\ Ascending(search.sections)
  BY SearchAssumption, Zenon
<1>2. Len(search.sections) \in Nat
  BY <1>1, LengthFacts
<1>3. ASSUME NEW i \in 1..Len(search.sections) - 1
      PROVE  search.sections[i].start <= search.sections[i + 1].start
  <2>1. /\ i \in 1..Len(search.sections) /\ i + 1 \in 1..Len(search.sections)
    BY <1>2
  <2> DEFINE a == search.sections[i].start
             b == search.sections[i + 1].start
  <2>2. a \in Nat /\ b \in Nat
    BY <1>1, <2>1, ElementIsSection, EndFacts
  <2>3. a < b \/ a = b
    BY <1>1, Zenon DEF Ascending
  <2> HIDE DEF a, b
  <2>4. a <= b
    BY <2>2, <2>3
  <2> QED BY <2>4 DEF a, b
<1> QED BY <1>1, <1>2, <1>3

LEMMA CoalesceStarts == ScanInit => CoalesceInv
<1> SUFFICES ASSUME ScanInit PROVE CoalesceInv
  OBVIOUS
<1>1. search \in Search /\ stage = "merge" /\ taken = 0 /\ reach = 0 /\ result = <<>>
  BY DEF ScanInit, ScanStart
<1>2. Len(search.sections) \in Nat
  BY <1>1, SearchFacts
<1>3. <<>> \in Seq(Sections) /\ Len(<<>>) = 0
  BY EmptySeq
<1>4. CoalesceTypes
  BY <1>1, <1>2, <1>3 DEF CoalesceTypes, Stages
<1>5. Merging
  BY <1>1 DEF Merging
<1>6. Parted
  BY <1>1, <1>3 DEF Parted, Separate
<1>7. NoneAtEnd
  BY <1>1, <1>3 DEF NoneAtEnd
<1>8. AddressesKept
  BY <1>1, <1>3 DEF AddressesKept, Covers, Taken
<1> QED BY <1>4, <1>5, <1>6, <1>7, <1>8 DEF CoalesceInv

\* A section that starts no earlier, where sections do not lie in each other, ends
\* later than the one before.
LEMMA NextEndsLater ==
  ASSUME search \in Search, NoneInside, taken \in Nat, taken >= 1,
         taken < Len(search.sections)
  PROVE  End(search.sections[taken]) < End(search.sections[taken + 1])
<1>1. taken \in 1..Len(search.sections) /\ taken + 1 \in 1..Len(search.sections)
  BY SearchFacts
<1>2. ~Inside(search.sections[taken + 1], search.sections[taken])
  BY <1>1 DEF NoneInside
<1>3. search.sections[taken].start <= search.sections[taken + 1].start
  BY SearchFacts
<1>4. search.sections[taken] \in Sections /\ search.sections[taken + 1] \in Sections
  BY <1>1, SearchFacts, ElementIsSection
<1> QED BY <1>2, <1>3, <1>4, EndFacts DEF Inside

\* One more section is taken.
LEMMA TakenGrows ==
  ASSUME NEW n \in Nat, NEW list, NEW a
  PROVE  (\E j \in 1..n + 1 : Holds(list[j], a))
           <=> ((\E j \in 1..n : Holds(list[j], a)) \/ Holds(list[n + 1], a))
<1>1. \A j \in 1..n + 1 : j \in 1..n \/ j = n + 1
  OBVIOUS
<1>2. (n + 1 \in 1..n + 1) /\ \A j \in 1..n : j \in 1..n + 1
  OBVIOUS
<1> QED BY <1>1, <1>2, Zenon

LEMMA MergeKeeps == CoalesceInv /\ Merge => CoalesceInv'
<1> SUFFICES ASSUME CoalesceInv, Merge PROVE CoalesceInv'
  OBVIOUS
<1> DEFINE n == Len(result)
<1> PICK s : s = search.sections[taken + 1]
  OBVIOUS
<1> PICK t : t = Topmost
  OBVIOUS
<1>1. /\ stage = "merge" /\ taken < Len(search.sections)
      /\ taken' = taken + 1 /\ reach' = End(s) /\ search' = search /\ stage' = stage
      /\ result' = IF Joins(s) THEN [result EXCEPT ![Len(result)] =
                                       Section(@.start, End(s) - @.start)]
                   ELSE Append(result, s)
  BY DEF Merge
<1>2. /\ search \in Search /\ taken \in Nat /\ reach \in Nat /\ result \in Seq(Sections)
      /\ stage \in Stages
  BY DEF CoalesceInv, CoalesceTypes
<1>3. Len(search.sections) \in Nat /\ taken + 1 \in 1..Len(search.sections)
  BY <1>1, <1>2, SearchFacts
<1>4. s \in Sections
  BY <1>2, <1>3, SearchFacts, ElementIsSection
<1>5. Separate(result)
  BY <1>1 DEF CoalesceInv, Parted, Stuck
<1>6. n \in Nat /\ (result # <<>> <=> n >= 1) /\ (result # <<>> => n \in 1..n)
  BY <1>2, LengthFacts
<1>7. ASSUME result # <<>>
      PROVE  /\ t \in Sections /\ t = result[n] /\ reach = End(t) /\ taken >= 1
             /\ t.start <= s.start
  <2>1. t \in Sections /\ t = result[n]
    BY <1>2, <1>6, <1>7, ElementIsSection DEF Topmost
  <2>2. reach = End(t) /\ t.start <= search.sections[taken].start /\ taken # 0
    BY <1>1, <1>7 DEF CoalesceInv, Merging
  <2>3. taken \in 1..Len(search.sections) - 1 /\ taken >= 1
    BY <1>2, <1>3, <2>2
  <2>4. search.sections[taken].start <= s.start
    BY <1>2, <2>3, SearchFacts
  <2>5. search.sections[taken] \in Sections
    BY <1>2, <1>3, <2>3, SearchFacts, ElementIsSection
  <2> DEFINE a == t.start
             b == search.sections[taken].start
             c == s.start
  <2>6. a \in Nat /\ b \in Nat /\ c \in Nat /\ a <= b /\ b <= c
    BY <1>4, <2>1, <2>2, <2>4, <2>5, EndFacts
  <2> HIDE DEF a, b, c
  <2>7. a <= c
    BY <2>6
  <2> QED BY <2>1, <2>2, <2>3, <2>7 DEF a, c
<1>8. /\ End(s) \in Nat /\ s.start \in Nat /\ s.length \in Nat /\ s.start <= End(s)
      /\ taken + 1 \in Nat /\ taken + 1 # 0 /\ taken + 1 <= Len(search.sections)
  BY <1>2, <1>3, <1>4, EndFacts
<1> HIDE DEF n
<1>9. ASSUME NEW a \in Int
      PROVE  Taken(a)' <=> (Taken(a) \/ Holds(s, a))
  BY <1>1, <1>2, TakenGrows, Zenon DEF Taken
<1>10. CASE Joins(s)
  <2>0. result # <<>> /\ s.start <= reach
    BY <1>10 DEF Joins
  <2> PICK e : e = Section(t.start, End(s) - t.start)
    OBVIOUS
  <2>1. t.start \in Nat /\ End(s) - t.start \in Nat
    BY <1>7, <1>8, <2>0, EndFacts
  <2>2. e \in Sections /\ e.start = t.start /\ e.length = End(s) - t.start
    BY <2>1, SectionFacts
  <2>3. End(e) = End(s)
    BY <1>8, <2>1, <2>2 DEF End
  <2>4. result' = [result EXCEPT ![n] = e]
    BY <1>1, <1>7, <1>10, <2>0, Zenon DEF n
  <2>5. n \in 1..Len(result) /\ Len(result) = n /\ n \in Nat
    BY <1>6, <2>0 DEF n
  <2> PICK new : new = result'
    OBVIOUS
  <2>6. /\ result' \in Seq(Sections) /\ Len(result') = n
        /\ \A i \in 1..n : result'[i] = IF i = n THEN e ELSE result[i]
    <3>1. new = [result EXCEPT ![n] = e]
      BY <2>4, Zenon
    <3>2. SameBut(new, result, n, e)
      BY <1>2, <2>2, <2>5, <3>1, SetSection, Zenon
    <3> QED BY <2>5, <3>2, Zenon DEF SameBut
  <2>7. /\ new \in Seq(Sections) /\ Len(new) = Len(result) /\ new[Len(result)] = e
        /\ SameUpTo(new, result, Len(result) - 1)
    BY <2>5, <2>6 DEF SameUpTo
  <2>8. result' # <<>> /\ Topmost' = e
    BY <2>5, <2>6, <2>7, EmptySeq DEF Topmost
  <2>9. Separate(result)'
    BY <1>2, <1>5, <1>7, <2>0, <2>2, <2>5, <2>7, StretchLast, Zenon DEF Separate
  <2>10. CoalesceTypes'
    BY <1>1, <1>2, <1>8, <2>6 DEF CoalesceTypes
  <2>11. Merging'
    BY <1>1, <1>7, <1>8, <2>0, <2>2, <2>3, <2>8 DEF Merging
  <2>12. NoneAtEnd'
    <3> SUFFICES ASSUME Proper, NEW i \in 1..n
                 PROVE  result'[i].start # search.maximum
      BY <1>1, <2>6 DEF NoneAtEnd, Proper, NoneInside
    <3>1. \A k \in 1..n : result[k].start # search.maximum
      BY <2>5 DEF CoalesceInv, NoneAtEnd
    <3>2. result'[i].start = result[i].start
      BY <1>7, <2>0, <2>2, <2>6
    <3> QED BY <3>1, <3>2
  <2>13. AddressesKept'
    <3> SUFFICES ASSUME Proper
                 PROVE  \A a \in Int : Covers(result, a)' <=> Taken(a)'
      BY <1>1 DEF AddressesKept, Proper, NoneInside
    <3>1. \A a \in Int : Covers(result, a) <=> Taken(a)
      BY <1>1 DEF CoalesceInv, AddressesKept
    <3>2. reach < End(s)
      <4>1. End(search.sections[taken]) < End(s)
        BY <1>1, <1>2, <1>7, <2>0, NextEndsLater DEF Proper
      <4>2. reach = End(search.sections[taken])
        BY <1>1, <2>0 DEF CoalesceInv, Merging
      <4> QED BY <4>1, <4>2
    <3>3. HoldsMore(e, t, s)
      <4> SUFFICES ASSUME NEW a \in Int
                   PROVE  Holds(e, a) <=> (Holds(t, a) \/ Holds(s, a))
        BY DEF HoldsMore
      <4>1. t.start \in Nat /\ reach = End(t) /\ t.start <= s.start
        BY <1>7, <2>0, EndFacts
      <4> DEFINE x == t.start
                 y == s.start
                 m == End(t)
                 z == End(s)
      <4>2. /\ x \in Nat /\ y \in Nat /\ m \in Nat /\ z \in Nat
            /\ x <= y /\ y <= m /\ m < z
        BY <1>2, <1>8, <2>0, <3>2, <4>1
      <4>3. Holds(e, a) <=> x <= a /\ a < z
        BY <2>2, <2>3 DEF Holds
      <4>4. (Holds(t, a) <=> x <= a /\ a < m) /\ (Holds(s, a) <=> y <= a /\ a < z)
        BY DEF Holds
      <4> HIDE DEF x, y, m, z
      <4>5. (x <= a /\ a < z) <=> ((x <= a /\ a < m) \/ (y <= a /\ a < z))
        BY <4>2
      <4> QED BY <4>3, <4>4, <4>5
    <3>4. CoversMore(new, result, s)
      <4>1. HoldsMore(new[Len(result)], result[Len(result)], s)
        BY <1>7, <2>0, <2>5, <2>7, <3>3
      <4> QED BY <1>2, <1>4, <2>0, <2>7, <4>1, StretchCovers, Zenon
    <3> QED BY <1>9, <3>1, <3>4, Zenon DEF CoversMore
  <2> QED BY <2>9, <2>10, <2>11, <2>12, <2>13 DEF CoalesceInv, Parted
<1>11. CASE ~Joins(s)
  <2> PICK new : new = result'
    OBVIOUS
  <2>1. new = Append(result, s)
    BY <1>1, <1>11, Zenon
  <2>2. result # <<>> => reach < s.start
    BY <1>2, <1>8, <1>11 DEF Joins
  <2>3. result # <<>> => End(result[Len(result)]) < s.start
    BY <1>7, <2>2 DEF n
  <2>4. /\ result' \in Seq(Sections) /\ Separate(result)'
        /\ CoversMore(result', result, s)
    <3>1. new \in Seq(Sections)
      BY <1>2, <1>4, <2>1, AddSection, Zenon
    <3>2. Separate(new) /\ CoversMore(new, result, s)
      BY <1>2, <1>4, <1>5, <2>1, <2>3, AppendSection, Zenon
    <3> QED BY <3>1, <3>2, Zenon
  <2>5. /\ result' # <<>> /\ Len(result') = n + 1
        /\ \A i \in 1..n : result'[i] = result[i]
        /\ result'[n + 1] = s
    BY <1>2, <1>4, <2>1, AddSection DEF n
  <2>6. Topmost' = s
    BY <2>5 DEF Topmost
  <2>7. CoalesceTypes'
    BY <1>1, <1>2, <1>8, <2>4 DEF CoalesceTypes
  <2>8. Merging'
    BY <1>1, <1>8, <2>5, <2>6 DEF Merging
  <2>9. NoneAtEnd'
    <3> SUFFICES ASSUME Proper, NEW i \in 1..n + 1
                 PROVE  result'[i].start # search.maximum
      BY <1>1, <2>5 DEF NoneAtEnd, Proper, NoneInside
    <3>1. \A k \in 1..n : result[k].start # search.maximum
      BY DEF CoalesceInv, NoneAtEnd, n
    <3>2. s.start # search.maximum
      BY <1>3 DEF Proper
    <3>3. i \in 1..n \/ i = n + 1
      BY <1>6 DEF n
    <3> QED BY <2>5, <3>1, <3>2, <3>3
  <2>10. AddressesKept'
    <3> SUFFICES ASSUME Proper
                 PROVE  \A a \in Int : Covers(result, a)' <=> Taken(a)'
      BY <1>1 DEF AddressesKept, Proper, NoneInside
    <3>1. \A a \in Int : Covers(result, a) <=> Taken(a)
      BY <1>1 DEF CoalesceInv, AddressesKept
    <3> QED BY <1>9, <2>4, <3>1, Zenon DEF CoversMore
  <2> QED BY <2>4, <2>7, <2>8, <2>9, <2>10 DEF CoalesceInv, Parted
<1> QED BY <1>10, <1>11

\* The first section goes, or begins at the minimum.
LEMMA ClipBelowKeeps == CoalesceInv /\ ClipBelow => CoalesceInv'
<1> SUFFICES ASSUME CoalesceInv, ClipBelow PROVE CoalesceInv'
  OBVIOUS
<1> DEFINE n == Len(result)
<1> PICK s : s = result[1]
  OBVIOUS
<1> PICK new : new = result'
  OBVIOUS
<1>1. /\ stage = "below" /\ result # <<>> /\ s.start < search.minimum
      /\ search' = search /\ stage' = stage /\ taken' = taken /\ reach' = reach
  BY DEF ClipBelow, Early, coalesceVars
<1>0. new = IF End(s) < search.minimum THEN Tail(result)
            ELSE [result EXCEPT ![1] = Section(search.minimum, End(@) - search.minimum)]
  BY DEF ClipBelow
<1>2. /\ search \in Search /\ taken \in Nat /\ reach \in Nat /\ result \in Seq(Sections)
      /\ stage \in Stages /\ taken <= Len(search.sections)
  BY DEF CoalesceInv, CoalesceTypes
<1>3. Separate(result)
  BY <1>1 DEF CoalesceInv, Parted, Stuck
<1>4. n \in Nat /\ n >= 1 /\ 1 \in 1..n
  BY <1>1, <1>2, LengthFacts
<1>5. s \in Sections /\ search.minimum \in Nat
  BY <1>2, <1>4, ElementIsSection, SearchFacts
<1>6. Proper =>
        /\ \A i \in 1..n : result[i].start # search.maximum
        /\ \A a \in Int :
             /\ Covers(result, a) => Covers(search.sections, a)
             /\ Covers(search.sections, a) /\ search.minimum <= a /\ a <= search.maximum
                  => Covers(result, a)
  BY <1>1 DEF CoalesceInv, NoneAtEnd, AddressesKept
<1>7. /\ new \in Seq(Sections) /\ Separate(new)
      /\ \A a \in Int :
           /\ Covers(new, a) => Covers(result, a)
           /\ Covers(result, a) /\ a >= search.minimum => Covers(new, a)
      /\ Proper => \A i \in 1..Len(new) : new[i].start # search.maximum
  <2>1. CASE End(s) < search.minimum
    <3>1. new = Tail(result)
      BY <1>0, <2>1
    <3>2. new \in Seq(Sections) /\ Len(new) = n - 1 /\ \A i \in 1..Len(new) : new[i] = result[i + 1]
      BY <1>1, <1>2, <3>1, DropFirst, Zenon
    <3>3. /\ Separate(new)
          /\ \A a \in Int : Covers(result, a) <=> (Covers(new, a) \/ Holds(s, a))
      BY <1>1, <1>2, <1>3, <3>2, TailSections, Zenon
    <3>4. \A a \in Int : Holds(s, a) => ~(a >= search.minimum)
      BY <1>5, <2>1, EndFacts DEF Holds
    <3>5. ASSUME Proper, NEW i \in 1..Len(new)
          PROVE  new[i].start # search.maximum
      <4>1. i + 1 \in 1..n
        BY <1>4, <3>2
      <4> QED BY <1>6, <3>2, <3>5, <4>1
    <3> QED BY <3>2, <3>3, <3>4, <3>5, Zenon
  <2>2. CASE ~(End(s) < search.minimum)
    <3> PICK e : e = Section(search.minimum, End(s) - search.minimum)
      OBVIOUS
    <3>1. End(s) - search.minimum \in Nat
      BY <1>5, <2>2, EndFacts
    <3>2. e \in Sections /\ e.start = search.minimum /\ End(e) = End(s)
      <4>1. End(s) \in Nat
        BY <1>5, EndFacts
      <4>2. /\ e \in Sections /\ e.start = search.minimum
            /\ End(e) = search.minimum + (End(s) - search.minimum)
        BY <1>5, <3>1, SectionFacts, Zenon
      <4> QED BY <1>5, <4>1, <4>2
    <3>3. new = [result EXCEPT ![1] = e]
      BY <1>0, <2>2, Zenon
    <3>4. SameBut(new, result, 1, e)
      BY <1>2, <1>4, <3>2, <3>3, SetSection, Zenon
    <3>5. /\ new \in Seq(Sections) /\ Len(new) = n /\ new[1] = e
          /\ \A i \in 1..n : i # 1 => new[i] = result[i]
      BY <1>4, <3>4 DEF SameBut
    <3>6. new[1].start >= result[1].start /\ End(new[1]) = End(result[1])
      BY <1>1, <1>5, <3>2, <3>5, EndFacts
    <3>7. /\ Separate(new)
          /\ \A a \in Int : Covers(new, a) => Covers(result, a)
          /\ \A a \in Int : Covers(result, a) /\ a >= new[1].start => Covers(new, a)
      BY <1>1, <1>2, <1>3, <3>5, <3>6, CutFirst, Zenon
    <3>8. ASSUME Proper, NEW i \in 1..Len(new)
          PROVE  new[i].start # search.maximum
      <4>1. search.minimum # search.maximum
        BY <1>2, <3>8, SearchFacts DEF Proper
      <4> QED BY <1>6, <3>2, <3>5, <3>8, <4>1
    <3> QED BY <3>2, <3>5, <3>7, <3>8, Zenon
  <2> QED BY <2>1, <2>2
<1>8. CoalesceTypes'
  BY <1>1, <1>2, <1>7, Zenon DEF CoalesceTypes
<1>9. Merging'
  BY <1>1 DEF Merging
<1>10. Parted'
  BY <1>7, Zenon DEF Parted
<1>11. NoneAtEnd'
  BY <1>1, <1>7, Zenon DEF NoneAtEnd, Proper, NoneInside
<1>12. AddressesKept'
  <2> SUFFICES ASSUME Proper, NEW a \in Int
               PROVE  /\ Covers(new, a) => Covers(search.sections, a)
                      /\ Covers(search.sections, a) /\ search.minimum <= a
                           /\ a <= search.maximum => Covers(new, a)
    BY <1>1 DEF AddressesKept, Proper, NoneInside
  <2>1. search.minimum <= a => a >= search.minimum
    BY <1>5
  <2> QED BY <1>6, <1>7, <2>1, Zenon
<1> QED BY <1>8, <1>9, <1>10, <1>11, <1>12 DEF CoalesceInv

\* The last section goes; or the second one is cut, again and again if it is not the
\* last one; or the list is too short for that.
LEMMA ClipAboveKeeps == CoalesceInv /\ ClipAbove => CoalesceInv'
<1> SUFFICES ASSUME CoalesceInv, ClipAbove PROVE CoalesceInv'
  OBVIOUS
<1> DEFINE n == Len(result)
<1> PICK t : t = Topmost
  OBVIOUS
<1> PICK new : new = result'
  OBVIOUS
<1>1. /\ stage = "above" /\ result # <<>>
      /\ t.start > search.maximum \/ (t.start = search.maximum /\ t.length > 0)
      /\ search' = search /\ taken' = taken /\ reach' = reach
  BY DEF ClipAbove, Late, coalesceVars
<1>2. /\ search \in Search /\ taken \in Nat /\ reach \in Nat /\ result \in Seq(Sections)
      /\ stage \in Stages /\ taken <= Len(search.sections)
  BY DEF CoalesceInv, CoalesceTypes
<1>3. Separate(result) \/ Stuck
  BY DEF CoalesceInv, Parted
<1>4. n \in Nat /\ n >= 1 /\ 1 \in 1..n /\ n \in 1..n
  BY <1>1, <1>2, LengthFacts
<1>5. t \in Sections /\ t = result[n] /\ search.maximum \in Nat
  BY <1>2, <1>4, ElementIsSection, SearchFacts DEF Topmost
<1>6. Proper =>
        /\ \A i \in 1..n : result[i].start # search.maximum
        /\ \A i \in 1..n : result[i].start >= search.minimum
        /\ \A a \in Int :
             /\ Covers(result, a) => Covers(search.sections, a)
             /\ Covers(search.sections, a) /\ search.minimum <= a /\ a <= search.maximum
                  => Covers(result, a)
  BY <1>1 DEF CoalesceInv, NoneAtEnd, AddressesKept
<1>7. Proper => t.start # search.maximum
  BY <1>4, <1>5, <1>6
<1>8. CASE t.start > search.maximum /\ new = SubSeq(result, 1, n - 1) /\ stage' = stage
  <2>1. Separate(result)
    BY <1>3, <1>5, <1>8, EndFacts DEF Stuck
  <2>2. new \in Seq(Sections) /\ Len(new) = n - 1 /\ \A i \in 1..Len(new) : new[i] = result[i]
    BY <1>1, <1>2, <1>8, DropLast, Zenon
  <2>3. /\ Separate(new)
        /\ \A a \in Int : Covers(result, a) <=> (Covers(new, a) \/ Holds(t, a))
    BY <1>1, <1>2, <1>5, <2>1, <2>2, FrontSections, Zenon
  <2>4. \A a \in Int : Holds(t, a) => ~(a <= search.maximum)
    BY <1>5, <1>8, EndFacts DEF Holds
  <2>5. CoalesceTypes'
    BY <1>1, <1>2, <1>8, <2>2, Zenon DEF CoalesceTypes
  <2>6. Merging'
    BY <1>1, <1>8 DEF Merging
  <2>7. Parted'
    BY <2>3, Zenon DEF Parted
  <2>8. \A i \in 1..Len(new) : i \in 1..n
    BY <1>4, <2>2
  <2>9. NoneAtEnd'
    BY <1>1, <1>6, <2>2, <2>8, Zenon DEF NoneAtEnd, Proper, NoneInside
  <2>10. AddressesKept'
    <3> SUFFICES ASSUME Proper
                 PROVE  /\ \A a \in Int :
                             /\ Covers(new, a) => Covers(search.sections, a)
                             /\ Covers(search.sections, a) /\ search.minimum <= a
                                  /\ a <= search.maximum => Covers(new, a)
                        /\ \A i \in 1..Len(new) : new[i].start >= search.minimum
      BY <1>1, <1>8 DEF AddressesKept, Proper, NoneInside
    <3> QED BY <1>6, <2>2, <2>3, <2>4, <2>8, Zenon
  <2> QED BY <2>5, <2>6, <2>7, <2>9, <2>10 DEF CoalesceInv
<1>9. CASE /\ t.start = search.maximum /\ n > 1 /\ stage' = stage
           /\ new = [result EXCEPT ![2] = Section(search.maximum, 0)]
  <2> PICK e : e = Section(search.maximum, 0)
    OBVIOUS
  <2>1. e \in Sections /\ e.start = search.maximum
    BY <1>5, SectionFacts
  <2>2. 2 \in 1..n
    BY <1>4, <1>9
  <2>3. SameBut(new, result, 2, e)
    BY <1>2, <1>9, <2>1, <2>2, SetSection, Zenon
  <2>4. /\ new \in Seq(Sections) /\ Len(new) = n /\ new[2] = e
        /\ \A i \in 1..n : i # 2 => new[i] = result[i]
    BY <2>2, <2>3 DEF SameBut
  <2>5. ~Proper
    BY <1>7, <1>9
  <2>6. CoalesceTypes'
    BY <1>1, <1>2, <1>9, <2>4, Zenon DEF CoalesceTypes
  <2>7. Merging'
    BY <1>1, <1>9 DEF Merging
  <2>8. ~Proper'
    BY <1>1, <2>5 DEF Proper, NoneInside
  <2>9. Parted'
    <3>1. CASE n = 2
      <4>1. Separate(result)
        BY <1>3, <3>1 DEF Stuck
      <4>2. End(new[1]) < new[2].start
        BY <1>4, <1>5, <1>9, <2>1, <2>2, <2>4, <3>1, <4>1 DEF Separate
      <4>3. \A i, j \in 1..Len(new) : i < j => i = 1 /\ j = 2
        BY <2>4, <3>1
      <4> QED BY <4>2, <4>3, Zenon DEF Parted, Separate
    <3>2. CASE n # 2
      <4>1. n > 2 /\ new[n] = t
        BY <1>4, <1>5, <1>9, <2>4, <3>2
      <4>2. t.length > 0
        BY <1>1, <1>5, <1>9
      <4>3. Len(new) = n /\ Topmost' = new[Len(new)]
        BY <2>4 DEF Topmost
      <4>4. Stuck'
        BY <1>1, <1>9, <4>1, <4>2, <4>3 DEF Stuck
      <4> QED BY <4>4 DEF Parted
    <3> QED BY <3>1, <3>2
  <2>10. NoneAtEnd' /\ AddressesKept'
    BY <2>8 DEF NoneAtEnd, AddressesKept
  <2> QED BY <2>6, <2>7, <2>9, <2>10 DEF CoalesceInv
<1>10. CASE t.start = search.maximum /\ n = 1 /\ stage' = "IndexError" /\ result' = result
  <2>1. ~Proper
    BY <1>7, <1>10
  <2>2. CoalesceTypes'
    BY <1>1, <1>2, <1>10 DEF CoalesceTypes, Stages
  <2>3. Merging'
    BY <1>10 DEF Merging
  <2>4. ~Proper'
    BY <1>1, <2>1 DEF Proper, NoneInside
  <2>5. Parted'
    <3>1. Separate(result)
      BY <1>3, <1>10 DEF Stuck
    <3> QED BY <1>10, <3>1, Zenon DEF Parted
  <2>6. NoneAtEnd' /\ AddressesKept'
    BY <2>4 DEF NoneAtEnd, AddressesKept
  <2> QED BY <2>2, <2>3, <2>5, <2>6 DEF CoalesceInv
<1> QED BY <1>8, <1>9, <1>10 DEF ClipAbove

\* Behind the clipping, a list begins at the minimum or above, and so do all of its
\* sections.
LEMMA NextLoopKeeps == CoalesceInv /\ NextLoop => CoalesceInv'
<1> SUFFICES ASSUME CoalesceInv, NextLoop PROVE CoalesceInv'
  OBVIOUS
<1>1. /\ search' = search /\ taken' = taken /\ reach' = reach /\ result' = result
  BY DEF NextLoop, coalesceVars
<1>2. /\ search \in Search /\ taken \in Nat /\ reach \in Nat /\ result \in Seq(Sections)
      /\ stage \in Stages /\ taken <= Len(search.sections)
  BY DEF CoalesceInv, CoalesceTypes
<1>3. stage' \in Stages /\ stage' # "merge" /\ stage' # "IndexError"
  BY DEF NextLoop, Stages
<1>4. CoalesceTypes' /\ Merging'
  BY <1>1, <1>2, <1>3 DEF CoalesceTypes, Merging
<1>5. NoneAtEnd'
  BY <1>1 DEF CoalesceInv, NoneAtEnd, Proper, NoneInside
<1>6. Separate(result)
  <2>1. ~Stuck
    <3> SUFFICES ASSUME Stuck PROVE FALSE
      OBVIOUS
    <3>1. stage = "above" /\ ~Late
      BY DEF Stuck, NextLoop
    <3>2. result # <<>>
      BY <1>2, LengthFacts DEF Stuck
    <3> QED BY <3>1, <3>2 DEF Stuck, Late
  <2> QED BY <2>1 DEF CoalesceInv, Parted
<1>7. Parted'
  BY <1>1, <1>6 DEF Parted, Separate
<1>8. AddressesKept'
  <2>1. ASSUME Proper, stage = "merge", NEW a \in Int
        PROVE  Covers(result, a) <=> Covers(search.sections, a)
    <3>1. taken = Len(search.sections)
      BY <2>1 DEF NextLoop
    <3>2. Covers(result, a) <=> Taken(a)
      BY <2>1 DEF CoalesceInv, AddressesKept
    <3> QED BY <3>1, <3>2 DEF Taken, Covers
  <2>2. ASSUME Proper, NEW a \in Int
        PROVE  /\ Covers(result, a) => Covers(search.sections, a)
               /\ Covers(search.sections, a) /\ search.minimum <= a /\ a <= search.maximum
                    => Covers(result, a)
    BY <2>1, <2>2 DEF CoalesceInv, AddressesKept
  <2>3. ASSUME Proper, stage' # "below", NEW i \in 1..Len(result)
        PROVE  result[i].start >= search.minimum
    <3>1. CASE stage = "above"
      BY <2>3, <3>1 DEF CoalesceInv, AddressesKept
    <3>2. CASE stage = "below"
      <4>1. ~Early
        BY <3>2 DEF NextLoop
      <4>2. Len(result) \in Nat /\ (result # <<>> <=> Len(result) >= 1)
        BY <1>2, LengthFacts
      <4>3. 1 \in 1..Len(result) /\ result # <<>>
        BY <4>2
      <4>4. result[1] \in Sections /\ result[i] \in Sections /\ search.minimum \in Nat
        BY <1>2, <4>3, ElementIsSection, SearchFacts
      <4>5. result[1].start >= search.minimum
        BY <4>1, <4>3, <4>4, EndFacts DEF Early
      <4>6. i # 1 => End(result[1]) < result[i].start
        BY <1>6, <4>2, <4>3 DEF Separate
      <4> QED BY <4>4, <4>5, <4>6, EndFacts
    <3> QED BY <2>3, <3>1, <3>2 DEF NextLoop
  <2> SUFFICES ASSUME Proper
               PROVE  /\ \A a \in Int :
                           /\ Covers(result, a) => Covers(search.sections, a)
                           /\ Covers(search.sections, a) /\ search.minimum <= a
                                /\ a <= search.maximum => Covers(result, a)
                      /\ stage' # "below" =>
                           \A i \in 1..Len(result) : result[i].start >= search.minimum
    BY <1>1, <1>3 DEF AddressesKept, Proper, NoneInside
  <2> QED BY <2>2, <2>3, Zenon
<1> QED BY <1>4, <1>5, <1>7, <1>8 DEF CoalesceInv

\* The scan leaves what was coalesced alone.
LEMMA CoalescedStays ==
  ASSUME CoalesceInv, UNCHANGED <<coalesceVars, result>>,
         stage' = stage \/ (Coalesced /\ stage' \in {"sections", "layer", "blocks", "pack"})
  PROVE  CoalesceInv'
<1>1. search' = search /\ taken' = taken /\ reach' = reach /\ result' = result
  BY DEF coalesceVars
<1>2. CASE stage' = stage
  BY <1>1, <1>2 DEF CoalesceInv, CoalesceTypes, Merging, Parted, Stuck, Topmost, Separate,
                    NoneAtEnd, AddressesKept, Proper, NoneInside, Covers, Taken
<1>3. CASE Coalesced /\ stage' \in {"sections", "layer", "blocks", "pack"}
  <2>1. CoalesceTypes' /\ Merging'
    BY <1>1, <1>3 DEF CoalesceInv, CoalesceTypes, Stages, Merging
  <2>2. Parted'
    BY <1>1, <1>3 DEF CoalesceInv, Coalesced, Parted, Stuck, Separate
  <2>3. NoneAtEnd'
    BY <1>1 DEF CoalesceInv, NoneAtEnd, Proper, NoneInside
  <2>4. AddressesKept'
    BY <1>1, <1>3, Zenon DEF CoalesceInv, Coalesced, AddressesKept, Proper, NoneInside, Covers
  <2> QED BY <2>1, <2>2, <2>3, <2>4 DEF CoalesceInv
<1> QED BY <1>2, <1>3

LEMMA CoalesceStep == CoalesceInv /\ [ScanNext]_scanVars => CoalesceInv'
<1> SUFFICES ASSUME CoalesceInv, [ScanNext]_scanVars PROVE CoalesceInv'
  OBVIOUS
<1>1. CASE Merge
  BY <1>1, MergeKeeps
<1>2. CASE ClipBelow
  BY <1>2, ClipBelowKeeps
<1>3. CASE ClipAbove
  BY <1>3, ClipAboveKeeps
<1>4. CASE NextLoop
  BY <1>4, NextLoopKeeps
<1>5. CASE NextSection
  BY <1>5, CoalescedStays, Zenon DEF NextSection, Coalesced
<1>6. CASE LayerChunk
  BY <1>6, CoalescedStays, Zenon DEF LayerChunk
<1>7. CASE LayerEnds
  BY <1>7, CoalescedStays DEF LayerEnds, Coalesced
<1>8. CASE NextBlock
  BY <1>8, CoalescedStays DEF NextBlock, Coalesced
<1>9. CASE Pack
  BY <1>9, CoalescedStays, Zenon DEF Pack
<1>10. CASE PackEnds
  BY <1>10, CoalescedStays DEF PackEnds, Coalesced
<1>11. CASE Ship
  BY <1>11, CoalescedStays DEF Ship, Coalesced
<1>12. CASE ReadPiece
  BY <1>12, CoalescedStays, Zenon DEF ReadPiece
<1>13. CASE Scan
  BY <1>13, CoalescedStays, Zenon DEF Scan
<1>14. CASE UNCHANGED scanVars
  BY <1>14, CoalescedStays, Zenon DEF scanVars
<1> QED BY <1>1, <1>2, <1>3, <1>4, <1>5, <1>6, <1>7, <1>8, <1>9, <1>10, <1>11, <1>12, <1>13,
           <1>14 DEF ScanNext

\* What the coalescing promises follows.
LEMMA CoalesceImplies == CoalesceInv => CoalescingKeepsSections
<1> SUFFICES ASSUME CoalesceInv PROVE CoalescingKeepsSections
  OBVIOUS
<1>1. search \in Search /\ result \in Seq(Sections)
  BY DEF CoalesceInv, CoalesceTypes
<1>2. Coalesced => Separate(result)
  BY DEF CoalesceInv, Parted, Stuck, Coalesced
<1>3. ASSUME Proper
      PROVE  /\ stage # "IndexError"
             /\ stage = "above" /\ Late => Topmost.start > search.maximum
  <2>1. ASSUME Late PROVE Topmost.start # search.maximum
    <3>1. Len(result) \in 1..Len(result)
      BY <1>1, <2>1, LengthFacts DEF Late
    <3> QED BY <1>3, <3>1 DEF CoalesceInv, NoneAtEnd, Topmost
  <2> QED BY <1>3, <2>1 DEF CoalesceInv, AddressesKept, Late
<1>4. ASSUME Proper, Coalesced, NEW a \in search.minimum..search.maximum,
             Covers(search.sections, a)
      PROVE  Covers(result, a)
  <2>1. a \in Int /\ search.minimum <= a /\ a <= search.maximum
    BY <1>1, SearchFacts
  <2> QED BY <1>4, <2>1 DEF CoalesceInv, AddressesKept, Coalesced
<1>5. ASSUME Proper, Coalesced, NEW i \in 1..Len(result),
             NEW a \in result[i].start..End(result[i]) - 1
      PROVE  Covers(search.sections, a) /\ a >= search.minimum
  <2>1. result[i] \in Sections
    BY <1>1, ElementIsSection
  <2>2. a \in Int /\ Holds(result[i], a) /\ a >= result[i].start
    BY <2>1, EndFacts DEF Holds
  <2>3. Covers(result, a)
    BY <2>2 DEF Covers
  <2>4. Covers(search.sections, a)
    BY <1>5, <2>2, <2>3 DEF CoalesceInv, AddressesKept, Coalesced
  <2>5. result[i].start >= search.minimum
    BY <1>5 DEF CoalesceInv, AddressesKept, Coalesced
  <2>6. result[i].start \in Nat /\ search.minimum \in Nat
    BY <1>1, <2>1, EndFacts, SearchFacts
  <2> QED BY <2>2, <2>4, <2>5, <2>6
<1> QED BY <1>2, <1>3, <1>4, <1>5 DEF CoalescingKeepsSections

-----------------------------------------------------------------------------
(* What a chunk finds.                                                      *)

\* A scanner that is given this piece finds the occurrence.
Finds(s, p) ==
  /\ p.start <= s.at /\ s.at < p.start + ChunkSize /\ s.at + Width <= End(p)
  /\ \A a \in s.unreadable : ~Holds(p, a)
Hit(s, p, n) == IF Finds(s, p) THEN {<<n, s.at>>} ELSE {}

\* Where the scanner finds it in what was read.
FoundBy(s, bytes) ==
  {i \in 0..(Len(bytes) - Width) :
     i < ChunkSize /\ \A k \in 1..Width : bytes[i + k] = s.at + k - 1}

\* What will be reported of the chunk that is scanned, and of the one that is packed.
Pends(s, list, address, bytes, n) ==
  IF list # <<>> THEN Hit(s, list[1], n)
  ELSE {<<n, i + address - Len(bytes)>> : i \in FoundBy(s, bytes)}
Waits(s, list, n) == IF list # <<>> THEN Hit(s, list[1], n) ELSE {}

OccursIn(s, g) == g.start <= s.at /\ s.at + Width <= End(g)

\* What the theorem is about: nothing that cannot be read is near, and the overlap is
\* wide enough.
Favours(s) ==
  /\ Width <= Overlap + 1
  /\ \A a \in s.unreadable : a + ChunkSize <= s.at \/ s.at + ChunkSize + Overlap <= a

Single(s, seen) == \E n : seen = {<<n, s.at>>}
Pair(s, seen) == \E m, n : m # n /\ seen = {<<m, s.at>>, <<n, s.at>>}

LEMMA SearchFields ==
  ASSUME NEW s \in Search
  PROVE  s.at \in Nat /\ s.unreadable \subseteq Nat /\ s.translated \in BOOLEAN
  BY SearchAssumption, Zenon

LEMMA HitFacts ==
  ASSUME NEW s, NEW p, NEW n
  PROVE  /\ Hit(s, p, n) # {} => Finds(s, p)
         /\ Finds(s, p) => Hit(s, p, n) = {<<n, s.at>>}
         /\ ~Finds(s, p) => Hit(s, p, n) = {}
         /\ \A e \in Hit(s, p, n) : e = <<n, s.at>>
  BY Zenon DEF Hit

\* An empty chunk finds nothing.
LEMMA NothingPends ==
  ASSUME NEW s, NEW address, NEW n
  PROVE  Pends(s, <<>>, address, <<>>, n) = {}
<1>1. FoundBy(s, <<>>) = {}
  <2>1. Len(<<>>) = 0
    BY EmptySeq
  <2>2. ~(\E i \in 0..(0 - Width) : TRUE)
    OBVIOUS
  <2> QED BY <2>1, <2>2 DEF FoundBy
<1> QED BY <1>1, Zenon DEF Pends

\* What a chunk of one piece finds, before it is read and when it is.
LEMMA OnePieceFinds ==
  ASSUME NEW s, NEW p, NEW n, NEW address, NEW bytes
  PROVE  /\ <<p>> # <<>> /\ Len(<<p>>) = 1 /\ <<p>>[1] = p
         /\ Pends(s, <<p>>, address, bytes, n) = Hit(s, p, n)
         /\ Waits(s, <<p>>, n) = Hit(s, p, n)
<1>1. <<p>> # <<>> /\ Len(<<p>>) = 1 /\ <<p>>[1] = p
  OBVIOUS
<1> QED BY <1>1, Zenon DEF Pends, Waits

PieceBytes(s, p) ==
  [k \in 1..(IF \A a \in s.unreadable : ~Holds(p, a) THEN p.length ELSE 0) |-> p.start + k - 1]

LEMMA PieceBytesFacts ==
  ASSUME NEW s \in Search, NEW p \in Sections
  PROVE  /\ PieceBytes(s, p) \in Seq(Nat)
         /\ (\A a \in s.unreadable : ~Holds(p, a)) =>
              /\ Len(PieceBytes(s, p)) = p.length
              /\ \A k \in 1..p.length : PieceBytes(s, p)[k] = p.start + k - 1
         /\ ~(\A a \in s.unreadable : ~Holds(p, a)) => Len(PieceBytes(s, p)) = 0
<1> DEFINE n == IF \A a \in s.unreadable : ~Holds(p, a) THEN p.length ELSE 0
           F(k) == p.start + k - 1
<1>1. n \in Nat /\ p.length \in Nat /\ p.start \in Nat
  BY EndFacts
<1>2. \A k \in 1..n : F(k) \in Nat
  BY <1>1
<1>3. PieceBytes(s, p) = [k \in 1..n |-> F(k)]
  BY DEF PieceBytes
<1>4. /\ (\A a \in s.unreadable : ~Holds(p, a)) => n = p.length
      /\ ~(\A a \in s.unreadable : ~Holds(p, a)) => n = 0
  OBVIOUS
<1>5. \A k \in 1..n : F(k) = p.start + k - 1
  OBVIOUS
<1> HIDE DEF n, F
<1>6. [k \in 1..n |-> F(k)] \in Seq(Nat) /\ Len([k \in 1..n |-> F(k)]) = n
  BY <1>1, <1>2
<1>7. \A k \in 1..n : [j \in 1..n |-> F(j)][k] = F(k)
  OBVIOUS
<1> QED BY <1>3, <1>4, <1>5, <1>6, <1>7

LEMMA ReadFinds ==
  ASSUME NEW s \in Search, NEW p \in Sections, NEW n
  PROVE  Pends(s, <<>>, End(p), PieceBytes(s, p), n) = Hit(s, p, n)
<1> DEFINE b == PieceBytes(s, p)
           good == \A a \in s.unreadable : ~Holds(p, a)
           reported == {<<n, i + End(p) - Len(b)>> : i \in FoundBy(s, b)}
<1>1. s.at \in Nat /\ p.start \in Nat /\ p.length \in Nat /\ End(p) = p.start + p.length
  BY SearchFields, EndFacts
<1>2. /\ good => Len(b) = p.length /\ \A k \in 1..p.length : b[k] = p.start + k - 1
      /\ ~good => Len(b) = 0
  BY PieceBytesFacts
<1>3. Pends(s, <<>>, End(p), b, n) = reported
  BY Zenon DEF Pends
<1> HIDE DEF b, reported
<1>4. CASE ~good
  <2>1. FoundBy(s, b) = {}
    <3>1. ~(\E i \in 0..(0 - Width) : TRUE)
      OBVIOUS
    <3> QED BY <1>2, <1>4, <3>1 DEF FoundBy
  <2>2. Hit(s, p, n) = {}
    BY <1>4 DEF Hit, Finds
  <2>3. reported = {}
    BY <2>1 DEF reported
  <2> QED BY <1>3, <2>2, <2>3 DEF b
<1>5. CASE good
  <2>1. ASSUME NEW i \in FoundBy(s, b)
        PROVE  /\ i \in Nat /\ i < ChunkSize /\ i + Width <= p.length /\ p.start + i = s.at
    <3>1. /\ i \in 0..(p.length - Width) /\ i < ChunkSize
          /\ \A k \in 1..Width : b[i + k] = s.at + k - 1
      BY <1>2, <1>5, <2>1 DEF FoundBy
    <3>2. 1 \in 1..Width /\ i + 1 \in 1..p.length /\ i \in Nat /\ i + Width <= p.length
      BY <1>1, <3>1
    <3>3. b[i + 1] = s.at + 1 - 1 /\ b[i + 1] = p.start + (i + 1) - 1
      BY <1>2, <1>5, <3>1, <3>2
    <3> QED BY <1>1, <3>1, <3>2, <3>3
  <2>2. CASE Finds(s, p)
    <3> DEFINE i == s.at - p.start
    <3>1. i \in 0..(p.length - Width) /\ i < ChunkSize /\ p.start + i = s.at
      BY <1>1, <2>2 DEF Finds
    <3> HIDE DEF i
    <3>2. ASSUME NEW k \in 1..Width PROVE b[i + k] = s.at + k - 1
      <4>1. i + k \in 1..p.length
        BY <1>1, <3>1
      <4>2. b[i + k] = p.start + (i + k) - 1
        BY <1>2, <1>5, <4>1
      <4> QED BY <1>1, <3>1, <4>2
    <3>3. i \in FoundBy(s, b)
      BY <1>2, <1>5, <3>1, <3>2 DEF FoundBy
    <3>4. \A j \in FoundBy(s, b) : j = i /\ j + End(p) - Len(b) = s.at
      <4>1. TAKE j \in FoundBy(s, b)
      <4>2. j \in Nat /\ p.start + j = s.at
        BY <2>1
      <4>3. Len(b) = p.length
        BY <1>2, <1>5
      <4> DEFINE x == p.start
                 y == p.length
                 z == End(p)
                 at == s.at
      <4>4. /\ x \in Nat /\ y \in Nat /\ z = x + y /\ at \in Nat /\ x + j = at
            /\ i \in Int /\ x + i = at
        BY <1>1, <3>1, <4>2
      <4> HIDE DEF x, y, z, at
      <4>5. j = i /\ j + z - y = at
        BY <4>2, <4>4
      <4> QED BY <4>3, <4>5 DEF y, z, at
    <3>5. reported = {<<n, s.at>>}
      BY <3>3, <3>4 DEF reported
    <3>6. Hit(s, p, n) = {<<n, s.at>>}
      BY <2>2 DEF Hit
    <3> QED BY <1>3, <3>5, <3>6 DEF b
  <2>3. CASE ~Finds(s, p)
    <3>1. FoundBy(s, b) = {}
      <4> SUFFICES ASSUME NEW i \in FoundBy(s, b) PROVE FALSE
        OBVIOUS
      <4>1. i \in Nat /\ i < ChunkSize /\ i + Width <= p.length /\ p.start + i = s.at
        BY <2>1
      <4> QED BY <1>1, <1>5, <2>3, <4>1 DEF Finds
    <3>2. reported = {}
      BY <3>1 DEF reported
    <3>3. Hit(s, p, n) = {}
      BY <2>3 DEF Hit
    <3> QED BY <1>3, <3>2, <3>3 DEF b
  <2> QED BY <2>2, <2>3
<1> QED BY <1>4, <1>5

\* A chunk of a range finds only what lies in the range and can be read.
LEMMA FindsTruly ==
  ASSUME NEW s \in Search, NEW p \in Sections, NEW g \in Sections, Finds(s, p),
         g.start <= p.start, End(p) <= End(g)
  PROVE  OccursIn(s, g) /\ \A a \in s.unreadable : ~Holds(Section(s.at, Width), a)
<1>1. /\ s.at \in Nat /\ s.unreadable \subseteq Nat /\ p.start \in Nat /\ g.start \in Nat
      /\ End(p) \in Nat /\ End(g) \in Nat
  BY SearchFields, EndFacts
<1>2. OccursIn(s, g)
  BY <1>1 DEF Finds, OccursIn
<1>3. ASSUME NEW a \in s.unreadable, Holds(Section(s.at, Width), a)
      PROVE  FALSE
  <2>1. s.at <= a /\ a < s.at + Width /\ a \in Nat
    <3>1. /\ Section(s.at, Width).start = s.at /\ End(Section(s.at, Width)) = s.at + Width
      BY <1>1, SectionFacts
    <3> QED BY <1>1, <1>3, <3>1 DEF Holds
  <2>2. Holds(p, a)
    BY <1>1, <2>1 DEF Finds, Holds
  <2> QED BY <2>2 DEF Finds
<1> QED BY <1>2, <1>3

\* Where nothing that cannot be read is near, a chunk of a range finds an occurrence in
\* it that begins in its first bytes and ends in it.
LEMMA FindsIff ==
  ASSUME NEW s \in Search, NEW p \in Sections, Favours(s), p.length <= ChunkSize + Overlap
  PROVE  Finds(s, p) <=> /\ p.start <= s.at /\ s.at < p.start + ChunkSize
                         /\ s.at + Width <= End(p)
<1>1. /\ s.at \in Nat /\ s.unreadable \subseteq Nat /\ p.start \in Nat /\ p.length \in Nat
      /\ End(p) = p.start + p.length
  BY SearchFields, EndFacts
<1> SUFFICES ASSUME p.start <= s.at, s.at < p.start + ChunkSize, NEW a \in s.unreadable
             PROVE  ~Holds(p, a)
  BY DEF Finds
<1>2. a \in Nat /\ (a + ChunkSize <= s.at \/ s.at + ChunkSize + Overlap <= a)
  BY <1>1 DEF Favours
<1> QED BY <1>1, <1>2 DEF Holds

-----------------------------------------------------------------------------
(* The chunks of a section.                                                 *)

RepeatedIn(s, r) ==
  \E n \in 0..r.length :
    LET rest == r.length - n * ChunkSize
    IN  /\ ChunkSize < rest /\ rest < ChunkSize + Overlap
        /\ End(r) - Overlap <= s.at /\ s.at < End(r) - rest + ChunkSize

\* Full chunks were cut, then a last one that is longer than the chunk size, then all.
CutNormal(s, r, at, n, seen) ==
  /\ at = r.start + n * ChunkSize /\ at <= End(r)
  /\ n > 0 => End(r) - at >= Overlap
  /\ IF s.at < at THEN Single(s, seen) ELSE seen = {}
CutLast(s, r, at, n, seen) ==
  /\ ChunkSize < r.length - n * ChunkSize /\ r.length - n * ChunkSize < ChunkSize + Overlap
  /\ at = End(r) - Overlap
  /\ IF s.at < r.start + n * ChunkSize + ChunkSize THEN Single(s, seen) ELSE seen = {}
CutAll(s, r, seen) == IF RepeatedIn(s, r) THEN Pair(s, seen) ELSE Single(s, seen)

CutProgress(s, r, at, seen) ==
  \/ \E n \in Nat : CutNormal(s, r, at, n, seen)
  \/ \E n \in Nat : CutLast(s, r, at, n, seen)
  \/ at = End(r) /\ CutAll(s, r, seen)

LEMMA Multiples ==
  ASSUME NEW m \in Nat
  PROVE  /\ m * ChunkSize \in Nat /\ m <= m * ChunkSize
         /\ (m + 1) * ChunkSize = m * ChunkSize + ChunkSize
         /\ \A n \in Nat : m < n => m * ChunkSize + ChunkSize <= n * ChunkSize
<1>1. m * ChunkSize \in Nat /\ m <= m * ChunkSize
  OBVIOUS
<1>2. (m + 1) * ChunkSize = m * ChunkSize + ChunkSize
  OBVIOUS
<1>3. ASSUME NEW n \in Nat, m < n
      PROVE  m * ChunkSize + ChunkSize <= n * ChunkSize
  <2> DEFINE k == n - m - 1
  <2>1. k \in Nat /\ n = m + 1 + k
    BY <1>3
  <2>2. k * ChunkSize \in Nat
    BY <2>1
  <2> HIDE DEF k
  <2>3. n * ChunkSize = m * ChunkSize + ChunkSize + k * ChunkSize
    BY <2>1
  <2> QED BY <1>1, <2>2, <2>3
<1> QED BY <1>1, <1>2, <1>3

\* The numbers of two chunks whose rests are near each other.
LEMMA RestsDiffer ==
  ASSUME NEW r \in Sections, NEW m \in Nat, NEW n \in Nat, m # n
  PROVE  \/ r.length - m * ChunkSize >= r.length - n * ChunkSize + ChunkSize
         \/ r.length - n * ChunkSize >= r.length - m * ChunkSize + ChunkSize
<1>1. r.length \in Nat /\ m * ChunkSize \in Nat /\ n * ChunkSize \in Nat
  BY EndFacts, Multiples
<1>2. CASE m < n
  <2>1. m * ChunkSize + ChunkSize <= n * ChunkSize
    BY <1>2, Multiples
  <2> QED BY <1>1, <2>1
<1>3. CASE n < m
  <2>1. n * ChunkSize + ChunkSize <= m * ChunkSize
    BY <1>3, Multiples
  <2> QED BY <1>1, <2>1
<1> QED BY <1>2, <1>3

\* Where the last chunk of a section is no longer than the chunk size, and no full chunk
\* before it leaves less than the overlap, nothing is searched again.
LEMMA EndsWell ==
  ASSUME NEW s \in Search, NEW r \in Sections, NEW n \in Nat,
         r.length - n * ChunkSize <= ChunkSize,
         n > 0 => r.length - n * ChunkSize >= Overlap
  PROVE  ~RepeatedIn(s, r)
<1> SUFFICES ASSUME NEW m \in 0..r.length, ChunkSize < r.length - m * ChunkSize,
                    r.length - m * ChunkSize < ChunkSize + Overlap
             PROVE  FALSE
  BY DEF RepeatedIn
<1>1. m \in Nat /\ r.length \in Nat /\ m * ChunkSize \in Nat /\ n * ChunkSize \in Nat
  BY EndFacts, Multiples
<1> DEFINE x == m * ChunkSize
           y == n * ChunkSize
<1>2. CASE m = n
  BY <1>1, <1>2
<1>3. CASE m < n
  <2>1. x + ChunkSize <= y /\ n > 0
    BY <1>1, <1>3, Multiples
  <2>2. r.length - y >= Overlap
    BY <2>1
  <2> HIDE DEF x, y
  <2>3. ChunkSize < r.length - x /\ r.length - x < ChunkSize + Overlap
    BY DEF x
  <2>4. x \in Nat /\ y \in Nat
    BY <1>1 DEF x, y
  <2> QED BY <1>1, <2>1, <2>2, <2>3, <2>4
<1>4. CASE n < m
  <2>1. y + ChunkSize <= x
    BY <1>1, <1>4, Multiples
  <2>2. ChunkSize < r.length - x /\ r.length - y <= ChunkSize /\ x \in Nat /\ y \in Nat
    BY <1>1
  <2> HIDE DEF x, y
  <2> QED BY <1>1, <2>1, <2>2
<1> QED BY <1>1, <1>2, <1>3, <1>4

\* A last chunk that is longer than the chunk size is the only one, and what it searches
\* again is what lies in its first part and its last.
LEMMA LastRepeats ==
  ASSUME NEW s \in Search, NEW r \in Sections, NEW n \in Nat,
         ChunkSize < r.length - n * ChunkSize, r.length - n * ChunkSize < ChunkSize + Overlap
  PROVE  RepeatedIn(s, r) <=> /\ End(r) - Overlap <= s.at
                              /\ s.at < r.start + n * ChunkSize + ChunkSize
<1>1. /\ r.length \in Nat /\ r.start \in Nat /\ End(r) = r.start + r.length
      /\ n * ChunkSize \in Nat /\ n <= n * ChunkSize /\ s.at \in Nat
  BY EndFacts, SearchFields, Multiples
<1>2. n \in 0..r.length
  <2> DEFINE y == n * ChunkSize
  <2>1. y \in Nat /\ n <= y /\ ChunkSize < r.length - y
    BY <1>1
  <2> HIDE DEF y
  <2> QED BY <1>1, <2>1
<1>3. End(r) - (r.length - n * ChunkSize) + ChunkSize = r.start + n * ChunkSize + ChunkSize
  <2> DEFINE y == n * ChunkSize
  <2>1. y \in Nat
    BY <1>1
  <2> HIDE DEF y
  <2>2. End(r) - (r.length - y) + ChunkSize = r.start + y + ChunkSize
    BY <1>1, <2>1
  <2> QED BY <2>2 DEF y
<1>4. ASSUME NEW m \in 0..r.length, ChunkSize < r.length - m * ChunkSize,
             r.length - m * ChunkSize < ChunkSize + Overlap
      PROVE  m = n
  <2> SUFFICES ASSUME m # n PROVE FALSE
    OBVIOUS
  <2>1. m \in Nat /\ m * ChunkSize \in Nat
    BY <1>1, Multiples
  <2> DEFINE x == m * ChunkSize
             y == n * ChunkSize
  <2>2. r.length - x >= r.length - y + ChunkSize \/ r.length - y >= r.length - x + ChunkSize
    BY <2>1, RestsDiffer
  <2>3. /\ x \in Nat /\ y \in Nat
        /\ ChunkSize < r.length - x /\ r.length - x < ChunkSize + Overlap
        /\ ChunkSize < r.length - y /\ r.length - y < ChunkSize + Overlap
    BY <1>1, <1>4, <2>1
  <2> HIDE DEF x, y
  <2> QED BY <1>1, <2>2, <2>3
<1>5. RepeatedIn(s, r) => /\ End(r) - Overlap <= s.at
                          /\ s.at < r.start + n * ChunkSize + ChunkSize
  <2> SUFFICES ASSUME RepeatedIn(s, r)
               PROVE  /\ End(r) - Overlap <= s.at
                      /\ s.at < r.start + n * ChunkSize + ChunkSize
    OBVIOUS
  <2>1. PICK m \in 0..r.length :
          /\ ChunkSize < r.length - m * ChunkSize
          /\ r.length - m * ChunkSize < ChunkSize + Overlap
          /\ End(r) - Overlap <= s.at
          /\ s.at < End(r) - (r.length - m * ChunkSize) + ChunkSize
    BY Zenon DEF RepeatedIn
  <2>2. m = n
    BY <1>4, <2>1
  <2> QED BY <1>3, <2>1, <2>2, Zenon
<1>6. ASSUME End(r) - Overlap <= s.at, s.at < r.start + n * ChunkSize + ChunkSize
      PROVE  RepeatedIn(s, r)
  <2>1. s.at < End(r) - (r.length - n * ChunkSize) + ChunkSize
    BY <1>3, <1>6, Zenon
  <2> QED BY <1>2, <1>6, <2>1, Zenon DEF RepeatedIn
<1> QED BY <1>5, <1>6

\* A new find is counted once, or is the second one.
LEMMA FindCounts ==
  ASSUME NEW s, NEW seen, NEW p, NEW n, <<n, s.at>> \notin seen
  PROVE  /\ ~Finds(s, p) => seen \cup Hit(s, p, n) = seen
         /\ Finds(s, p) /\ seen = {} => Single(s, seen \cup Hit(s, p, n))
         /\ Finds(s, p) /\ Single(s, seen) => Pair(s, seen \cup Hit(s, p, n))
<1>1. ~Finds(s, p) => seen \cup Hit(s, p, n) = seen
  BY DEF Hit
<1>2. ASSUME Finds(s, p) PROVE Hit(s, p, n) = {<<n, s.at>>}
  BY <1>2 DEF Hit
<1>3. ASSUME Finds(s, p), seen = {} PROVE Single(s, seen \cup Hit(s, p, n))
  BY <1>2, <1>3 DEF Single
<1>4. ASSUME Finds(s, p), Single(s, seen) PROVE Pair(s, seen \cup Hit(s, p, n))
  <2>1. PICK m : seen = {<<m, s.at>>}
    BY <1>4 DEF Single
  <2>2. seen \cup Hit(s, p, n) = {<<m, s.at>>, <<n, s.at>>}
    BY <1>2, <1>4, <2>1
  <2>3. m # n
    BY <2>1
  <2> QED BY <2>2, <2>3, Zenon DEF Pair
<1> QED BY <1>1, <1>3, <1>4

LEMMA LowerFacts ==
  ASSUME NEW m \in Nat, NEW n \in Nat
  PROVE  /\ Lower(m, n) \in Nat /\ Lower(m, n) <= m /\ Lower(m, n) <= n
         /\ Lower(m, n) = m \/ Lower(m, n) = n
         /\ m <= n => Lower(m, n) = m
         /\ n <= m => Lower(m, n) = n
  BY DEF Lower

\* The chunk that begins at an address, and where the next one begins.
SizeAt(r, at) == Lower(End(r) - at, ChunkSize + Overlap)
ChunkAt(r, at) == Section(at, SizeAt(r, at))

LEMMA ChunkFacts ==
  ASSUME NEW r \in Sections, NEW at \in Nat, at < End(r)
  PROVE  /\ SizeAt(r, at) \in Nat /\ SizeAt(r, at) <= ChunkSize + Overlap
         /\ SizeAt(r, at) > 0 /\ at + SizeAt(r, at) <= End(r)
         /\ Step(SizeAt(r, at)) \in Nat /\ Step(SizeAt(r, at)) <= SizeAt(r, at)
         /\ End(r) - at <= ChunkSize + Overlap => SizeAt(r, at) = End(r) - at
         /\ End(r) - at >= ChunkSize + Overlap =>
              SizeAt(r, at) = ChunkSize + Overlap /\ Step(SizeAt(r, at)) = ChunkSize
         /\ ChunkAt(r, at) \in Sections
         /\ ChunkAt(r, at).start = at /\ ChunkAt(r, at).length = SizeAt(r, at)
         /\ End(ChunkAt(r, at)) = at + SizeAt(r, at)
<1> DEFINE z == SizeAt(r, at)
<1>1. End(r) - at \in Nat /\ End(r) - at > 0 /\ End(r) \in Nat /\ ChunkSize + Overlap \in Nat
  BY EndFacts
<1>2. /\ z \in Nat /\ z <= ChunkSize + Overlap /\ z > 0 /\ at + z <= End(r)
      /\ End(r) - at <= ChunkSize + Overlap => z = End(r) - at
      /\ End(r) - at >= ChunkSize + Overlap => z = ChunkSize + Overlap
  BY <1>1 DEF SizeAt, Lower
<1> HIDE DEF z
<1>3. /\ Step(z) \in Nat /\ Step(z) <= z
      /\ z = ChunkSize + Overlap => Step(z) = ChunkSize
  BY <1>2 DEF Step
<1>4. /\ Section(at, z) \in Sections /\ Section(at, z).start = at
      /\ Section(at, z).length = z /\ End(Section(at, z)) = at + z
  BY <1>2, SectionFacts
<1> QED BY <1>2, <1>3, <1>4 DEF z, ChunkAt

\* One chunk more of a section with the occurrence.
LEMMA SectionAdvances ==
  ASSUME NEW s \in Search, NEW r \in Sections, NEW at \in Nat, NEW seen, NEW n,
         Favours(s), OccursIn(s, r), r.start <= at, at < End(r),
         CutProgress(s, r, at, seen), <<n, s.at>> \notin seen
  PROVE  CutProgress(s, r, at + Step(SizeAt(r, at)), seen \cup Hit(s, ChunkAt(r, at), n))
<1> DEFINE z == SizeAt(r, at)
           p == ChunkAt(r, at)
           seen2 == seen \cup Hit(s, p, n)
           e == End(r)
<1>1. /\ r.start \in Nat /\ r.length \in Nat /\ e \in Nat /\ e = r.start + r.length
      /\ s.at \in Nat
  BY EndFacts, SearchFields
<1>2. /\ z \in Nat /\ z <= ChunkSize + Overlap /\ z > 0 /\ at + z <= e
      /\ p \in Sections /\ p.start = at /\ p.length = z /\ End(p) = at + z
  BY ChunkFacts
<1>3. Finds(s, p) <=> at <= s.at /\ s.at < at + ChunkSize /\ s.at + Width <= at + z
  BY <1>2, FindsIff
<1>4. r.start <= s.at /\ s.at + Width <= e /\ s.at < e
  BY <1>1 DEF OccursIn
<1>5. /\ ~Finds(s, p) => seen2 = seen
      /\ Finds(s, p) /\ seen = {} => Single(s, seen2)
      /\ Finds(s, p) /\ Single(s, seen) => Pair(s, seen2)
  BY FindCounts, Zenon
<1>6. Width <= Overlap + 1
  BY DEF Favours
<1> HIDE DEF p, seen2
<1>7. ASSUME NEW m \in Nat, CutNormal(s, r, at, m, seen)
      PROVE  CutProgress(s, r, at + Step(z), seen2)
  <2> DEFINE y == m * ChunkSize
  <2>1. at = r.start + y /\ (m > 0 => e - at >= Overlap)
        /\ IF s.at < at THEN Single(s, seen) ELSE seen = {}
    BY <1>7 DEF CutNormal
  <2>2. y \in Nat /\ (m + 1) * ChunkSize = y + ChunkSize /\ m + 1 \in Nat
    BY Multiples
  <2> HIDE DEF y
  <2>3. CASE e - at >= ChunkSize + Overlap
    <3>1. z = ChunkSize + Overlap /\ Step(z) = ChunkSize
      BY <2>3, ChunkFacts
    <3>2. IF s.at < at + ChunkSize THEN Single(s, seen2) ELSE seen2 = {}
      <4>1. CASE s.at < at
        <5>1. ~Finds(s, p)
          BY <1>1, <1>3, <4>1
        <5> QED BY <1>1, <1>5, <2>1, <4>1, <5>1
      <4>2. CASE at <= s.at /\ s.at < at + ChunkSize
        <5>1. Finds(s, p)
          BY <1>1, <1>3, <1>6, <3>1, <4>2
        <5> QED BY <1>1, <1>5, <2>1, <4>2, <5>1
      <4>3. CASE at + ChunkSize <= s.at
        <5>1. ~Finds(s, p)
          BY <1>1, <1>3, <4>3
        <5> QED BY <1>1, <1>5, <2>1, <4>3, <5>1
      <4> QED BY <1>1, <4>1, <4>2, <4>3
    <3>3. /\ at + ChunkSize = r.start + (y + ChunkSize) /\ at + ChunkSize <= e
          /\ e - (at + ChunkSize) >= Overlap
      BY <1>1, <2>1, <2>2, <2>3
    <3>4. CutNormal(s, r, at + ChunkSize, m + 1, seen2)
      BY <2>2, <3>2, <3>3, Zenon DEF CutNormal
    <3> QED BY <2>2, <3>1, <3>4, Zenon DEF CutProgress
  <2>4. CASE ChunkSize < e - at /\ e - at < ChunkSize + Overlap
    <3>1. z = e - at /\ at + z = e
      BY <1>1, <2>4, ChunkFacts
    <3>2. Step(z) = z - Overlap
      BY <1>1, <2>4, <3>1 DEF Step
    <3>3. IF s.at < at + ChunkSize THEN Single(s, seen2) ELSE seen2 = {}
      <4>1. CASE s.at < at
        <5>1. ~Finds(s, p)
          BY <1>1, <1>3, <4>1
        <5> QED BY <1>1, <1>5, <2>1, <4>1, <5>1
      <4>2. CASE at <= s.at /\ s.at < at + ChunkSize
        <5>1. Finds(s, p)
          BY <1>1, <1>3, <1>4, <3>1, <4>2
        <5> QED BY <1>1, <1>5, <2>1, <4>2, <5>1
      <4>3. CASE at + ChunkSize <= s.at
        <5>1. ~Finds(s, p)
          BY <1>1, <1>3, <4>3
        <5> QED BY <1>1, <1>5, <2>1, <4>3, <5>1
      <4> QED BY <1>1, <4>1, <4>2, <4>3
    <3>4. /\ at + Step(z) = e - Overlap /\ e - at = r.length - y
          /\ at + ChunkSize = r.start + y + ChunkSize
      BY <1>1, <1>2, <2>1, <2>2, <3>1, <3>2
    <3>5. CutLast(s, r, at + Step(z), m, seen2)
      BY <2>4, <3>3, <3>4, Zenon DEF CutLast, y
    <3> QED BY <3>5, Zenon DEF CutProgress
  <2>5. CASE e - at <= ChunkSize
    <3>1. z = e - at /\ at + z = e
      BY <1>1, <2>5, ChunkFacts
    <3>2. Step(z) = z
      BY <1>1, <2>5, <3>1 DEF Step
    <3>3. Single(s, seen2)
      <4>1. CASE s.at < at
        <5>1. ~Finds(s, p)
          BY <1>1, <1>3, <4>1
        <5> QED BY <1>1, <1>5, <2>1, <4>1, <5>1
      <4>2. CASE at <= s.at
        <5>1. Finds(s, p)
          BY <1>1, <1>3, <1>4, <2>5, <3>1, <4>2
        <5> QED BY <1>1, <1>5, <2>1, <4>2, <5>1
      <4> QED BY <1>1, <4>1, <4>2
    <3>4. ~RepeatedIn(s, r)
      <4>1. r.length - y = e - at
        BY <1>1, <2>1, <2>2
      <4>2. r.length - y <= ChunkSize /\ (m > 0 => r.length - y >= Overlap)
        BY <2>1, <2>5, <4>1
      <4> QED BY <4>2, EndsWell DEF y
    <3>5. at + Step(z) = e /\ CutAll(s, r, seen2)
      BY <3>1, <3>2, <3>3, <3>4, Zenon DEF CutAll
    <3> QED BY <3>5, Zenon DEF CutProgress
  <2>6. e - at \in Int
    BY <1>1
  <2> HIDE DEF z, e
  <2> QED BY <2>3, <2>4, <2>5, <2>6
<1>8. ASSUME NEW m \in Nat, CutLast(s, r, at, m, seen)
      PROVE  CutProgress(s, r, at + Step(z), seen2)
  <2> DEFINE y == m * ChunkSize
  <2>1. /\ ChunkSize < r.length - y /\ r.length - y < ChunkSize + Overlap /\ at = e - Overlap
        /\ IF s.at < r.start + y + ChunkSize THEN Single(s, seen) ELSE seen = {}
    BY <1>8 DEF CutLast
  <2>2. RepeatedIn(s, r) <=> e - Overlap <= s.at /\ s.at < r.start + y + ChunkSize
    BY <2>1, LastRepeats
  <2>3. y \in Nat
    BY Multiples
  <2> HIDE DEF y
  <2>4. z = Overlap /\ at + z = e
    <3>1. e - at = Overlap /\ e - at <= ChunkSize + Overlap
      BY <1>1, <2>1
    <3>2. z = e - at
      BY <3>1, ChunkFacts
    <3> QED BY <1>1, <2>1, <3>1, <3>2
  <2>5. Step(z) = z
    BY <2>4 DEF Step
  <2>6. Finds(s, p) <=> at <= s.at
    BY <1>1, <1>3, <1>4, <2>1, <2>4
  <2>7. ~(at <= s.at) => s.at < r.start + y + ChunkSize
    BY <1>1, <2>1, <2>3
  <2>8. CutAll(s, r, seen2)
    BY <1>5, <2>1, <2>2, <2>6, <2>7, Zenon DEF CutAll
  <2> QED BY <2>4, <2>5, <2>8, Zenon DEF CutProgress
<1>9. at # e
  BY <1>1
<1> HIDE DEF e, z
<1>10. CutProgress(s, r, at + Step(z), seen2)
  BY <1>7, <1>8, <1>9, Zenon DEF CutProgress, e
<1> QED BY <1>10 DEF z, seen2, p

\* The chunks of a section with the occurrence end.
LEMMA SectionEnds ==
  ASSUME NEW s \in Search, NEW r \in Sections, NEW seen,
         OccursIn(s, r), CutProgress(s, r, End(r), seen)
  PROVE  CutAll(s, r, seen)
<1>1. /\ r.start \in Nat /\ r.length \in Nat /\ End(r) \in Nat /\ End(r) = r.start + r.length
      /\ s.at \in Nat
  BY EndFacts, SearchFields
<1>2. s.at < End(r)
  BY <1>1 DEF OccursIn
<1>3. ASSUME NEW m \in Nat, CutNormal(s, r, End(r), m, seen)
      PROVE  CutAll(s, r, seen)
  <2> DEFINE y == m * ChunkSize
  <2>1. End(r) = r.start + y /\ (m > 0 => End(r) - End(r) >= Overlap) /\ Single(s, seen)
    BY <1>2, <1>3 DEF CutNormal
  <2>2. y \in Nat
    BY Multiples
  <2> HIDE DEF y
  <2>3. r.length - y <= ChunkSize /\ (m > 0 => r.length - y >= Overlap)
    BY <1>1, <2>1, <2>2
  <2>4. ~RepeatedIn(s, r)
    BY <2>3, EndsWell DEF y
  <2> QED BY <2>1, <2>4, Zenon DEF CutAll
<1>4. ASSUME NEW m \in Nat, CutLast(s, r, End(r), m, seen)
      PROVE  CutAll(s, r, seen)
  <2> DEFINE y == m * ChunkSize
  <2>1. /\ ChunkSize < r.length - y /\ r.length - y < ChunkSize + Overlap
        /\ End(r) = End(r) - Overlap
    BY <1>4 DEF CutLast
  <2>2. y \in Nat
    BY Multiples
  <2> HIDE DEF y
  <2> QED BY <1>1, <2>1, <2>2
<1> QED BY <1>3, <1>4 DEF CutProgress

\* They begin with nothing found.
LEMMA SectionBegins ==
  ASSUME NEW s \in Search, NEW r \in Sections, OccursIn(s, r)
  PROVE  CutProgress(s, r, r.start, {})
<1>1. r.start \in Nat /\ r.start <= End(r) /\ s.at \in Nat /\ r.start <= s.at
  BY EndFacts, SearchFields DEF OccursIn
<1>2. CutNormal(s, r, r.start, 0, {})
  BY <1>1 DEF CutNormal
<1> QED BY <1>2 DEF CutProgress

-----------------------------------------------------------------------------
(* The ranges, and what is expected of them.                                *)

Expect(s, R, seen) ==
  IF \A g \in R : ~OccursIn(s, g) THEN seen = {}
  ELSE IF ~s.translated /\ \E g \in R : OccursIn(s, g) /\ RepeatedIn(s, g) THEN Pair(s, seen)
  ELSE Single(s, seen)

\* The blocks of a section that were chunked as far as an address; "low" is where the
\* section begins.
PassedBy(s, R, at, low, seen) ==
  IF \E g \in R : OccursIn(s, g) /\ (s.at < at \/ s.at < low)
  THEN Single(s, seen) ELSE seen = {}

\* The blocks that are left are behind that address, and the other ranges before it.
BlocksLeft(list, R, at, low) ==
  /\ \A i \in 1..Len(list) :
       list[i].length > 0 /\ at <= list[i].start /\ low <= list[i].start /\ list[i] \in R
  /\ \A i, j \in 1..Len(list) : i < j => End(list[i]) <= list[j].start
  /\ \A g \in R : End(g) <= at \/ End(g) <= low \/ \E i \in 1..Len(list) : g = list[i]

LEMMA OccursFacts ==
  ASSUME NEW s \in Search, NEW g \in Sections, OccursIn(s, g)
  PROVE  s.at \in Nat /\ g.start <= s.at /\ s.at < End(g) /\ s.at + Width <= End(g)
<1>1. s.at \in Nat /\ g.start \in Nat /\ End(g) \in Nat
  BY SearchFields, EndFacts
<1> QED BY <1>1 DEF OccursIn

\* A section of a layer begins, and ends.
LEMMA SectionExpects ==
  ASSUME NEW s \in Search, NEW R \in SUBSET Sections, NEW r \in Sections, NEW seen,
         Expect(s, R, seen), \A g \in R : End(g) < r.start
  PROVE  IF OccursIn(s, r) THEN CutProgress(s, r, r.start, seen)
         ELSE Expect(s, R \cup {r}, seen)
<1>1. CASE OccursIn(s, r)
  <2>1. ASSUME NEW g \in R, OccursIn(s, g) PROVE FALSE
    <3>1. g \in Sections /\ End(g) < r.start
      OBVIOUS
    <3>2. r.start <= s.at /\ s.at < End(g) /\ s.at \in Nat
      BY <1>1, <2>1, <3>1, OccursFacts
    <3> QED BY <3>1, <3>2, EndFacts
  <2>2. seen = {}
    BY <2>1 DEF Expect
  <2> QED BY <1>1, <2>2, SectionBegins
<1>2. CASE ~OccursIn(s, r)
  BY <1>2, Zenon DEF Expect
<1> QED BY <1>1, <1>2

LEMMA SectionExpected ==
  ASSUME NEW s \in Search, NEW R \in SUBSET Sections, NEW r \in R, NEW seen,
         ~s.translated, OccursIn(s, r), CutAll(s, r, seen),
         \A g \in R : g = r \/ End(g) < r.start
  PROVE  Expect(s, R, seen)
<1>1. ASSUME NEW g \in R, OccursIn(s, g) PROVE g = r
  <2> SUFFICES ASSUME g # r PROVE FALSE
    OBVIOUS
  <2>1. End(g) < r.start /\ g \in Sections /\ r \in Sections
    OBVIOUS
  <2>2. r.start <= s.at /\ s.at < End(g) /\ s.at \in Nat
    BY <1>1, <2>1, OccursFacts
  <2> QED BY <2>1, <2>2, EndFacts
<1> QED BY <1>1, Zenon DEF Expect, CutAll

\* The blocks of a section begin, and end.
LEMMA BlocksExpect ==
  ASSUME NEW s \in Search, NEW R \in SUBSET Sections, NEW list \in Mappings, NEW low \in Nat,
         NEW seen, s.translated, Expect(s, R, seen), \A g \in R : End(g) < low,
         \A i \in 1..Len(list) : low <= list[i].start,
         NEW R2, R2 = R \cup {list[i] : i \in 1..Len(list)}
  PROVE  PassedBy(s, R2, 0, low, seen)
<1>1. list \in Seq(Sections)
  BY MappingsAssumption
<1>2. ASSUME NEW g \in R, OccursIn(s, g) PROVE s.at < low
  <2>1. g \in Sections /\ End(g) < low
    OBVIOUS
  <2>2. s.at < End(g) /\ s.at \in Nat
    BY <1>2, <2>1, OccursFacts
  <2> QED BY <2>1, <2>2, EndFacts
<1>3. ASSUME NEW i \in 1..Len(list), OccursIn(s, list[i])
      PROVE  ~(s.at < low)
  <2>1. list[i] \in Sections
    BY <1>1, ElementIsSection
  <2>2. low <= list[i].start /\ list[i].start <= s.at /\ s.at \in Nat
    BY <1>3, <2>1, OccursFacts
  <2> QED BY <2>1, <2>2, EndFacts
<1>4. ~(s.at < 0)
  BY SearchFields
<1> QED BY <1>2, <1>3, <1>4, Zenon DEF Expect, PassedBy

LEMMA BlocksExpected ==
  ASSUME NEW s \in Search, NEW R \in SUBSET Sections, NEW at \in Nat, NEW low \in Nat,
         NEW seen, s.translated, PassedBy(s, R, at, low, seen),
         \A g \in R : End(g) <= at \/ End(g) <= low
  PROVE  Expect(s, R, seen)
<1>1. ASSUME NEW g \in R, OccursIn(s, g) PROVE s.at < at \/ s.at < low
  <2>1. g \in Sections
    OBVIOUS
  <2>2. s.at < End(g) /\ s.at \in Nat
    BY <1>1, <2>1, OccursFacts
  <2> QED BY <2>1, <2>2, EndFacts
<1> QED BY <1>1, Zenon DEF Expect, PassedBy

\* The first block that is left begins.
LEMMA BlockBegins ==
  ASSUME NEW list \in Seq(Sections), list # <<>>, NEW R \in SUBSET Sections, NEW at \in Nat,
         NEW low \in Nat, BlocksLeft(list, R, at, low), NEW rest, rest = Tail(list)
  PROVE  /\ rest \in Seq(Sections) /\ list[1] \in R
         /\ at <= list[1].start /\ low <= list[1].start /\ list[1].start < End(list[1])
         /\ BlocksLeft(rest, R, End(list[1]), low)
<1> PICK b : b = list[1]
  OBVIOUS
<1>1. Len(list) \in Nat /\ 1 \in 1..Len(list)
  BY LengthFacts
<1>2. b \in Sections /\ b.length > 0 /\ at <= b.start /\ low <= b.start /\ b \in R
  <2>1. b \in Sections
    BY <1>1, ElementIsSection
  <2>2. /\ list[1].length > 0 /\ at <= list[1].start /\ low <= list[1].start
        /\ list[1] \in R
    BY <1>1 DEF BlocksLeft
  <2> QED BY <2>1, <2>2
<1>3. /\ rest \in Seq(Sections) /\ Len(rest) = Len(list) - 1
      /\ \A i \in 1..Len(rest) : rest[i] = list[i + 1]
  BY DropFirst
<1>4. b.start < End(b) /\ End(b) \in Nat /\ b.start \in Nat
  BY <1>2, EndFacts
<1>5. \A i \in 1..Len(rest) : i + 1 \in 1..Len(list)
  BY <1>1, <1>3
<1>6. ASSUME NEW i \in 1..Len(rest)
      PROVE  /\ rest[i].length > 0 /\ End(b) <= rest[i].start /\ low <= rest[i].start
             /\ rest[i] \in R
  <2>1. rest[i] = list[i + 1] /\ i + 1 \in 1..Len(list) /\ 1 < i + 1
    BY <1>3, <1>5
  <2>2. End(b) <= list[i + 1].start
    BY <1>1, <2>1, Zenon DEF BlocksLeft
  <2>3. list[i + 1].length > 0 /\ low <= list[i + 1].start /\ list[i + 1] \in R
    BY <2>1, Zenon DEF BlocksLeft
  <2> QED BY <2>1, <2>2, <2>3
<1>7. ASSUME NEW i \in 1..Len(rest), NEW j \in 1..Len(rest), i < j
      PROVE  End(rest[i]) <= rest[j].start
  <2>1. /\ rest[i] = list[i + 1] /\ rest[j] = list[j + 1]
        /\ i + 1 \in 1..Len(list) /\ j + 1 \in 1..Len(list) /\ i + 1 < j + 1
    BY <1>3, <1>5, <1>7
  <2>2. End(list[i + 1]) <= list[j + 1].start
    BY <2>1, Zenon DEF BlocksLeft
  <2> QED BY <2>1, <2>2
<1>8. ASSUME NEW g \in R
      PROVE  End(g) <= End(b) \/ End(g) <= low \/ \E i \in 1..Len(rest) : g = rest[i]
  <2>1. g \in Sections /\ End(g) \in Nat
    BY EndFacts
  <2>2. CASE End(g) <= at
    BY <1>2, <1>4, <2>1, <2>2
  <2>3. CASE End(g) <= low
    BY <2>3
  <2>4. ASSUME NEW i \in 1..Len(list), g = list[i]
        PROVE  End(g) <= End(b) \/ \E k \in 1..Len(rest) : g = rest[k]
    <3>1. CASE i = 1
      BY <2>1, <2>4, <3>1
    <3>2. CASE i # 1
      <4>1. i - 1 \in 1..Len(rest) /\ (i - 1) + 1 = i
        BY <1>1, <1>3, <3>2
      <4>2. rest[i - 1] = g
        BY <1>3, <2>4, <4>1
      <4> QED BY <4>1, <4>2
    <3> QED BY <3>1, <3>2
  <2> QED BY <2>2, <2>3, <2>4 DEF BlocksLeft
<1> QED BY <1>2, <1>3, <1>4, <1>6, <1>7, <1>8, Zenon DEF BlocksLeft

\* No occurrence lies in the gap before it.
LEMMA GapHoldsNothing ==
  ASSUME NEW s \in Search, NEW list \in Seq(Sections), list # <<>>,
         NEW R \in SUBSET Sections, NEW at \in Nat, NEW low \in Nat, NEW seen,
         BlocksLeft(list, R, at, low), PassedBy(s, R, at, low, seen)
  PROVE  PassedBy(s, R, list[1].start, low, seen)
<1> PICK b : b = list[1]
  OBVIOUS
<1>1. 1 \in 1..Len(list) /\ b \in Sections /\ at <= b.start
  <2>1. 1 \in 1..Len(list)
    BY LengthFacts
  <2>2. b \in Sections
    BY <2>1, ElementIsSection
  <2>3. at <= list[1].start
    BY <2>1 DEF BlocksLeft
  <2> QED BY <2>1, <2>2, <2>3
<1>2. b.start \in Nat /\ End(b) \in Nat /\ b.start <= End(b) /\ s.at \in Nat
  BY <1>1, EndFacts, SearchFields
<1>3. ASSUME NEW g \in R, OccursIn(s, g), s.at < b.start
      PROVE  s.at < at \/ s.at < low
  <2>1. g \in Sections /\ End(g) \in Nat /\ g.start \in Nat /\ g.start <= s.at /\ s.at < End(g)
    BY <1>3, EndFacts, OccursFacts
  <2>2. ASSUME NEW i \in 1..Len(list), g = list[i] PROVE FALSE
    <3>1. i # 1
      BY <1>2, <1>3, <2>1, <2>2
    <3>2. 1 < i
      BY <3>1
    <3>3. End(b) <= g.start
      BY <1>1, <2>2, <3>2, Zenon DEF BlocksLeft
    <3> QED BY <1>2, <1>3, <2>1, <3>3
  <2>3. End(g) <= at \/ End(g) <= low
    BY <2>2, Zenon DEF BlocksLeft
  <2> QED BY <1>2, <2>1, <2>3
<1>4. s.at < at => s.at < b.start
  BY <1>1, <1>2
<1> QED BY <1>3, <1>4, Zenon DEF PassedBy

\* One chunk more of a block.
PackedAt(f, e) == Section(f, Lower(e - f, ChunkSize + Overlap))

LEMMA PackedFacts ==
  ASSUME NEW f \in Nat, NEW e \in Nat, f < e
  PROVE  /\ PackedAt(f, e) \in Sections /\ PackedAt(f, e).start = f
         /\ PackedAt(f, e).length <= ChunkSize + Overlap
         /\ End(PackedAt(f, e)) = Lower(e, f + ChunkSize + Overlap)
         /\ End(PackedAt(f, e)) <= e /\ End(PackedAt(f, e)) \in Nat
         /\ End(PackedAt(f, e)) = f + PackedAt(f, e).length
<1> DEFINE z == Lower(e - f, ChunkSize + Overlap)
<1>1. /\ z \in Nat /\ z <= ChunkSize + Overlap /\ f + z = Lower(e, f + ChunkSize + Overlap)
      /\ f + z <= e
  BY DEF Lower
<1> HIDE DEF z
<1>2. /\ Section(f, z) \in Sections /\ Section(f, z).start = f /\ Section(f, z).length = z
      /\ End(Section(f, z)) = f + z
  BY <1>1, SectionFacts
<1> QED BY <1>1, <1>2 DEF z, PackedAt

LEMMA BlockAdvances ==
  ASSUME NEW s \in Search, NEW list \in Seq(Sections), NEW R \in SUBSET Sections,
         NEW f \in Nat, NEW e \in Nat, NEW low \in Nat, NEW seen, NEW n, NEW g \in R,
         Favours(s), f < e, BlocksLeft(list, R, e, low), g.start <= f, low <= g.start,
         End(g) = e, PassedBy(s, R, f, low, seen), <<n, s.at>> \notin seen
  PROVE  PassedBy(s, R, Lower(f + ChunkSize, e), low, seen \cup Hit(s, PackedAt(f, e), n))
<1> DEFINE p == PackedAt(f, e)
           seen2 == seen \cup Hit(s, p, n)
           l == Lower(f + ChunkSize, e)
<1>1. /\ p \in Sections /\ p.start = f /\ p.length <= ChunkSize + Overlap
      /\ End(p) = Lower(e, f + ChunkSize + Overlap) /\ End(p) \in Nat
  BY PackedFacts
<1>2. /\ s.at \in Nat /\ g \in Sections /\ g.start \in Nat /\ Width <= Overlap + 1
  BY SearchFields, EndFacts DEF Favours
<1>3. Finds(s, p) <=> f <= s.at /\ s.at < f + ChunkSize /\ s.at + Width <= End(p)
  BY <1>1, FindsIff
<1>4. /\ ~Finds(s, p) => seen2 = seen
      /\ Finds(s, p) /\ seen = {} => Single(s, seen2)
  BY FindCounts, Zenon
<1>5. /\ l \in Nat /\ f <= l /\ l <= e /\ l <= f + ChunkSize
      /\ \A a \in Nat : a < l <=> a < f + ChunkSize /\ a < e
  BY DEF Lower
<1>6. /\ End(p) <= e
      /\ \A a \in Nat : a < f + ChunkSize /\ a + Width <= e => a + Width <= End(p)
  BY <1>1, <1>2 DEF Lower
<1> HIDE DEF p, seen2, l
\* The range that is packed holds what the chunk finds.
<1>7. ASSUME Finds(s, p) PROVE OccursIn(s, g) /\ f <= s.at /\ s.at < l /\ ~(s.at < low)
  <2>1. f <= s.at /\ s.at < f + ChunkSize /\ s.at + Width <= End(p)
    BY <1>3, <1>7
  <2>2. g.start <= s.at /\ s.at + Width <= End(g) /\ s.at < e
    <3> DEFINE at == s.at
               b == g.start
               c == End(p)
    <3>1. /\ at \in Nat /\ b \in Nat /\ c \in Nat /\ b <= f /\ f <= at
          /\ at + Width <= c /\ c <= e
      BY <1>1, <1>2, <1>6, <2>1
    <3> HIDE DEF at, b, c
    <3>2. b <= at /\ at + Width <= e /\ at < e
      BY <3>1, ChunkAssumption
    <3> QED BY <3>2 DEF at, b
  <2>3. ~(s.at < low)
    BY <1>2, <2>1
  <2> QED BY <1>2, <1>5, <2>1, <2>2, <2>3 DEF OccursIn
<1>8. ASSUME NEW h \in R, OccursIn(s, h), f <= s.at, s.at < l, ~(s.at < low)
      PROVE  Finds(s, p)
  <2>1. /\ h \in Sections /\ End(h) \in Nat /\ h.start \in Nat /\ h.start <= s.at
        /\ s.at < End(h) /\ s.at + Width <= End(h)
    BY <1>8, EndFacts, OccursFacts
  <2>2. s.at < f + ChunkSize /\ s.at < e
    BY <1>2, <1>5, <1>8
  <2>3. ASSUME NEW i \in 1..Len(list), h = list[i] PROVE FALSE
    <3>1. e <= h.start
      BY <2>3, Zenon DEF BlocksLeft
    <3> QED BY <1>2, <2>1, <2>2, <3>1
  <2>4. End(h) <= e \/ End(h) <= low
    BY <2>3, Zenon DEF BlocksLeft
  <2>5. s.at + Width <= e
    BY <1>2, <1>8, <2>1, <2>4
  <2>6. s.at + Width <= End(p)
    BY <1>2, <1>6, <2>2, <2>5
  <2> QED BY <1>3, <1>8, <2>2, <2>6
<1>9. s.at < f \/ f <= s.at
  BY <1>2
<1>10. s.at < f => s.at < l /\ ~(f <= s.at)
  BY <1>2, <1>5
<1>11. CASE \E h \in R : OccursIn(s, h) /\ (s.at < f \/ s.at < low)
  <2>1. ~Finds(s, p)
    BY <1>7, <1>10, <1>11, Zenon
  <2>2. Single(s, seen) /\ seen2 = seen
    BY <1>4, <1>11, <2>1, Zenon DEF PassedBy
  <2>3. \E h \in R : OccursIn(s, h) /\ (s.at < l \/ s.at < low)
    BY <1>10, <1>11
  <2> QED BY <2>2, <2>3, Zenon DEF PassedBy, seen2, p, l
<1>12. CASE ~(\E h \in R : OccursIn(s, h) /\ (s.at < f \/ s.at < low))
  <2>1. seen = {}
    BY <1>12, Zenon DEF PassedBy
  <2>2. (\E h \in R : OccursIn(s, h) /\ (s.at < l \/ s.at < low)) <=> Finds(s, p)
    BY <1>7, <1>8, <1>9, <1>12, Zenon
  <2> QED BY <1>4, <2>1, <2>2, Zenon DEF PassedBy, seen2, p, l
<1> QED BY <1>11, <1>12

-----------------------------------------------------------------------------
(* The scan.                                                                *)

Current == result[scanned]

\* What was reported and will be of the chunk that is scanned; and of the one that is
\* packed.
Reported == reports \cup Pends(search, pieces, chunkEnd, data, count)
Seen == Reported \cup Waits(search, output, count + 1)

ScanTypes ==
  /\ scanned \in Nat /\ scanned <= Len(result) /\ yielded \in BOOLEAN
  /\ position \in Nat /\ start \in Nat /\ from \in Nat /\ end \in Nat
  /\ chunkEnd \in Nat /\ count \in Nat
  /\ blocks \in Seq(Sections) /\ data \in Seq(Nat) /\ ranges \in SUBSET Sections
  /\ output \in Seq(Sections) /\ Len(output) <= 1
  /\ pieces \in Seq(Sections) /\ Len(pieces) <= 1

\* Nothing is scanned before all is coalesced, nor cut outside of a section.
Placed ==
  /\ ~Coalesced => scanned = 0 /\ ~yielded /\ reports = {} /\ ranges = {}
  /\ stage \in {"layer", "blocks", "pack"} => scanned > 0

\* A chunk has one piece, which ends where the chunk does.
Shape ==
  /\ ~yielded => pieces = <<>> /\ data = <<>>
  /\ pieces # <<>> => data = <<>> /\ End(pieces[1]) = chunkEnd
  /\ output # <<>> => stage \in {"blocks", "pack"} /\ End(output[1]) = position
  /\ stage \in {"blocks", "pack"} => start = position

Numbered == \A e \in Reported : \E n \in 1..count : e = <<n, search.at>>

Truth ==
  Seen # {} =>
    /\ \E g \in ranges : OccursIn(search, g)
    /\ \A a \in search.unreadable : ~Holds(Section(search.at, Width), a)

RangesBehind == \A g \in ranges : scanned > 0 /\ End(g) <= End(Current)

SectionsInv == stage = "sections" /\ Favours(search) => Expect(search, ranges, Seen)

LayerInv ==
  stage = "layer" =>
    /\ ~search.translated /\ end = End(Current) /\ Current \in ranges
    /\ Current.start <= position /\ position <= end
    /\ \A g \in ranges : g = Current \/ End(g) < Current.start
    /\ Favours(search) =>
         IF OccursIn(search, Current) THEN CutProgress(search, Current, position, Seen)
         ELSE Expect(search, ranges, Seen)

BlocksInv ==
  stage = "blocks" =>
    /\ search.translated /\ BlocksLeft(blocks, ranges, position, Current.start)
    /\ Favours(search) => PassedBy(search, ranges, position, Current.start, Seen)

PackInv ==
  stage = "pack" =>
    /\ search.translated /\ BlocksLeft(blocks, ranges, end, Current.start)
    /\ \E g \in ranges : g.start <= from /\ Current.start <= g.start /\ End(g) = end
    /\ \/ position = from /\ from < end
       \/ output # <<>> /\ position = Lower(end, from + Overlap)
    /\ Favours(search) => PassedBy(search, ranges, Lower(from, end), Current.start, Seen)

ScanInv ==
  /\ CoalesceInv /\ ScanTypes /\ Placed /\ Shape /\ Numbered /\ Truth /\ RangesBehind
  /\ SectionsInv /\ LayerInv /\ BlocksInv /\ PackInv

\* A chunk that is shipped finds what it would when it was packed.
LEMMA ShippedFinds ==
  ASSUME NEW s, NEW list, NEW address, NEW n
  PROVE  Pends(s, list, address, <<>>, n) = Waits(s, list, n)
<1>1. CASE list = <<>>
  BY <1>1, NothingPends DEF Waits
<1>2. CASE list # <<>>
  BY <1>2 DEF Waits, Pends
<1> QED BY <1>1, <1>2

LEMMA NoneWaits ==
  ASSUME NEW s, NEW n
  PROVE  Waits(s, <<>>, n) = {}
  BY DEF Waits

\* Between two chunks.
LEMMA Quiet ==
  ASSUME ScanInv, ~yielded
  PROVE  /\ pieces = <<>> /\ data = <<>> /\ Reported = reports
         /\ Pends(search, pieces, chunkEnd, data, count) = {}
         /\ Seen = reports \cup Waits(search, output, count + 1)
         /\ \A e \in reports : \E n \in 1..count : e = <<n, search.at>>
<1>1. pieces = <<>> /\ data = <<>>
  BY DEF ScanInv, Shape
<1>2. Pends(search, pieces, chunkEnd, data, count) = {}
  BY <1>1, NothingPends
<1>3. Reported = reports
  BY <1>2 DEF Reported
<1> QED BY <1>1, <1>2, <1>3 DEF Seen, ScanInv, Numbered

\* The next chunk has a number of its own.
LEMMA NextNumber ==
  ASSUME ScanInv, ~yielded
  PROVE  /\ <<count + 2, search.at>> \notin Seen
         /\ output = <<>> => <<count + 1, search.at>> \notin Seen
<1>1. /\ Seen = reports \cup Waits(search, output, count + 1)
      /\ \A e \in reports : \E n \in 1..count : e = <<n, search.at>>
  BY Quiet
<1>2. count \in Nat
  BY DEF ScanInv, ScanTypes
<1>3. <<count + 1, search.at>> \notin reports /\ <<count + 2, search.at>> \notin reports
  BY <1>1, <1>2
<1>4. <<count + 2, search.at>> \notin Waits(search, output, count + 1)
  <2>1. \A e \in Waits(search, output, count + 1) : e = <<count + 1, search.at>>
    BY HitFacts, Zenon DEF Waits
  <2> QED BY <1>2, <2>1
<1>5. output = <<>> => Waits(search, output, count + 1) = {}
  BY DEF Waits
<1> QED BY <1>1, <1>3, <1>4, <1>5

\* What the steps of the scanner leave alone.
LEMMA ScannerLeaves ==
  ASSUME ScanInv, Seen' = Seen,
         UNCHANGED <<search, stage, result, scanned, position, start, from, end, blocks, output,
                     ranges>>
  PROVE  /\ RangesBehind' /\ SectionsInv' /\ LayerInv' /\ BlocksInv' /\ PackInv' /\ Truth'
<1>1. Current' = Current
  BY DEF Current
<1>2. RangesBehind'
  BY <1>1 DEF ScanInv, RangesBehind
<1>3. SectionsInv'
  BY DEF ScanInv, SectionsInv
<1>4. LayerInv'
  BY <1>1 DEF ScanInv, LayerInv
<1>5. BlocksInv'
  BY <1>1 DEF ScanInv, BlocksInv
<1>6. PackInv'
  BY <1>1 DEF ScanInv, PackInv
<1>7. Truth'
  BY DEF ScanInv, Truth
<1> QED BY <1>2, <1>3, <1>4, <1>5, <1>6, <1>7

LEMMA ScanStarts == ScanInit => ScanInv
<1> SUFFICES ASSUME ScanInit PROVE ScanInv
  OBVIOUS
<1>1. CoalesceInv
  BY CoalesceStarts
<1>2. /\ stage = "merge" /\ result = <<>> /\ scanned = 0 /\ position = 0 /\ start = 0
      /\ from = 0 /\ end = 0 /\ blocks = <<>> /\ output = <<>> /\ yielded = FALSE
      /\ pieces = <<>> /\ chunkEnd = 0 /\ data = <<>> /\ count = 0 /\ reports = {}
      /\ ranges = {}
  BY DEF ScanInit, ScanStart
<1>3. <<>> \in Seq(Sections) /\ <<>> \in Seq(Nat) /\ Len(<<>>) = 0
  BY EmptySeq
<1>4. ScanTypes
  <2>1. /\ blocks \in Seq(Sections) /\ output \in Seq(Sections) /\ pieces \in Seq(Sections)
        /\ data \in Seq(Nat)
        /\ Len(output) = 0 /\ Len(pieces) = 0 /\ Len(result) = 0
    BY <1>2, <1>3, Zenon
  <2>2. ranges \in SUBSET Sections /\ yielded \in BOOLEAN
    BY <1>2
  <2> QED BY <1>2, <2>1, <2>2 DEF ScanTypes
<1>5. Placed /\ Shape
  BY <1>2 DEF Placed, Shape, Coalesced
<1>6. Reported = {} /\ Seen = {}
  BY <1>2, NothingPends, NoneWaits DEF Reported, Seen
<1>7. Numbered /\ Truth /\ RangesBehind
  BY <1>2, <1>6 DEF Numbered, Truth, RangesBehind
<1>8. SectionsInv /\ LayerInv /\ BlocksInv /\ PackInv
  BY <1>2 DEF SectionsInv, LayerInv, BlocksInv, PackInv
<1> QED BY <1>1, <1>4, <1>5, <1>7, <1>8 DEF ScanInv

\* While sections are coalesced, nothing is scanned.
LEMMA CoalescingScansNothing ==
  ASSUME ScanInv, CoalesceInv', search' = search, ~Coalesced,
         stage' \in {"merge", "below", "above", "IndexError", "sections"},
         UNCHANGED <<scanned, cutVars, yieldVars, data, reports, ranges>>
  PROVE  ScanInv'
<1>1. /\ scanned' = scanned /\ position' = position /\ start' = start /\ from' = from
      /\ end' = end /\ blocks' = blocks /\ output' = output /\ yielded' = yielded
      /\ pieces' = pieces /\ chunkEnd' = chunkEnd /\ count' = count /\ data' = data
      /\ reports' = reports /\ ranges' = ranges
  BY DEF cutVars, yieldVars
<1>2. scanned = 0 /\ ~yielded /\ reports = {} /\ ranges = {}
  BY DEF ScanInv, Placed
<1>3. pieces = <<>> /\ data = <<>> /\ output = <<>>
  BY <1>2 DEF ScanInv, Shape, Coalesced
<1>4. result' \in Seq(Sections)
  BY DEF CoalesceInv, CoalesceTypes
<1>5. scanned' <= Len(result')
  <2> PICK new : new = result'
    OBVIOUS
  <2>1. Len(new) \in Nat
    BY <1>4, LengthFacts
  <2> QED BY <1>1, <1>2, <2>1
<1>6. ScanTypes'
  BY <1>1, <1>5 DEF ScanInv, ScanTypes
<1>7. Placed' /\ Shape'
  BY <1>1, <1>2, <1>3 DEF Placed, Shape
<1>8. Reported' = {} /\ Seen' = {}
  BY <1>1, <1>2, <1>3, NothingPends, NoneWaits DEF Reported, Seen
<1>9. Numbered' /\ Truth' /\ RangesBehind'
  BY <1>1, <1>2, <1>8 DEF Numbered, Truth, RangesBehind
<1>10. SectionsInv'
  BY <1>1, <1>2, <1>8 DEF SectionsInv, Expect
<1>11. LayerInv' /\ BlocksInv' /\ PackInv'
  BY DEF LayerInv, BlocksInv, PackInv
<1> QED BY <1>6, <1>7, <1>9, <1>10, <1>11 DEF ScanInv

-----------------------------------------------------------------------------
(* The steps of the scan.                                                   *)

\* The types, and that sections were coalesced, at a step that is none of coalescing.
LEMMA ScanFacts ==
  ASSUME ScanInv
  PROVE  /\ search \in Search /\ result \in Seq(Sections) /\ Len(result) \in Nat
         /\ scanned \in Nat /\ scanned <= Len(result) /\ yielded \in BOOLEAN
         /\ position \in Nat /\ start \in Nat /\ from \in Nat /\ end \in Nat
         /\ chunkEnd \in Nat /\ count \in Nat
         /\ blocks \in Seq(Sections) /\ data \in Seq(Nat) /\ ranges \in SUBSET Sections
         /\ output \in Seq(Sections) /\ Len(output) <= 1
         /\ pieces \in Seq(Sections) /\ Len(pieces) <= 1
         /\ scanned > 0 => Current \in Sections
<1>1. search \in Search /\ result \in Seq(Sections)
  BY DEF ScanInv, CoalesceInv, CoalesceTypes
<1>2. Len(result) \in Nat
  BY <1>1, LengthFacts
<1>3. ScanTypes
  BY DEF ScanInv
<1>4. ASSUME scanned > 0 PROVE Current \in Sections
  <2>1. scanned \in 1..Len(result)
    BY <1>2, <1>3, <1>4 DEF ScanTypes
  <2> QED BY <1>1, <2>1, ElementIsSection DEF Current
<1> QED BY <1>1, <1>2, <1>3, <1>4 DEF ScanTypes

LEMMA ReadPieceKeeps ==
  ASSUME ScanInv, CoalesceInv', ReadPiece
  PROVE  ScanInv'
<1> PICK p : p = pieces[1]
  OBVIOUS
<1> PICK s : s = search
  OBVIOUS
<1> PICK new : new = data'
  OBVIOUS
<1>1. /\ yielded /\ pieces # <<>> /\ new = data \o BytesRead(p) /\ pieces' = Tail(pieces)
      /\ search' = search /\ stage' = stage /\ result' = result /\ scanned' = scanned
      /\ position' = position /\ start' = start /\ from' = from /\ end' = end
      /\ blocks' = blocks /\ output' = output /\ yielded' = yielded
      /\ chunkEnd' = chunkEnd /\ count' = count /\ reports' = reports /\ ranges' = ranges
  BY DEF ReadPiece, coalesceVars, cutVars
<1>2. /\ s \in Search /\ pieces \in Seq(Sections) /\ Len(pieces) <= 1
  BY ScanFacts
<1>3. p \in Sections
  <2>1. 1 \in 1..Len(pieces)
    BY <1>1, <1>2, LengthFacts
  <2> QED BY <1>2, <2>1, ElementIsSection
<1>4. data = <<>> /\ End(p) = chunkEnd
  BY <1>1 DEF ScanInv, Shape
<1>5. pieces' = <<>>
  <2> PICK rest : rest = pieces'
    OBVIOUS
  <2>1. rest = Tail(pieces)
    BY <1>1
  <2>2. rest \in Seq(Sections) /\ Len(rest) = Len(pieces) - 1
    BY <1>1, <1>2, <2>1, DropFirst
  <2>3. rest = <<>>
    BY <1>2, <2>2, LengthFacts
  <2> QED BY <2>3
<1>6. BytesRead(p) = PieceBytes(s, p)
  BY DEF BytesRead, Readable, PieceBytes
<1>7. new = PieceBytes(s, p) /\ new \in Seq(Nat)
  <2>1. PieceBytes(s, p) \in Seq(Nat)
    BY <1>2, <1>3, PieceBytesFacts
  <2>2. <<>> \o PieceBytes(s, p) = PieceBytes(s, p)
    BY <2>1, ConcatEmptySeq, Zenon
  <2> QED BY <1>1, <1>4, <1>6, <2>1, <2>2
<1>8. Reported' = Reported /\ Seen' = Seen
  <2>1. Pends(s, <<>>, chunkEnd, new, count) = Hit(s, p, count)
    BY <1>2, <1>3, <1>4, <1>7, ReadFinds
  <2>2. Pends(s, pieces, chunkEnd, data, count) = Hit(s, p, count)
    BY <1>1 DEF Pends
  <2>3. Reported' = Reported
    BY <1>1, <1>5, <2>1, <2>2 DEF Reported
  <2> QED BY <1>1, <2>3 DEF Seen
<1>9. ScanTypes'
  <2>1. <<>> \in Seq(Sections) /\ Len(<<>>) <= 1
    BY EmptySeq
  <2>2. pieces' \in Seq(Sections) /\ Len(pieces') <= 1 /\ data' \in Seq(Nat)
    BY <1>5, <1>7, <2>1, Zenon
  <2> QED BY <1>1, <2>2 DEF ScanInv, ScanTypes
<1>10. Placed'
  BY <1>1 DEF ScanInv, Placed, Coalesced
<1>11. Shape'
  BY <1>1, <1>5 DEF ScanInv, Shape
<1>12. Numbered'
  BY <1>1, <1>8 DEF ScanInv, Numbered
<1>13. RangesBehind' /\ SectionsInv' /\ LayerInv' /\ BlocksInv' /\ PackInv' /\ Truth'
  BY <1>1, <1>8, ScannerLeaves
<1> QED BY <1>9, <1>10, <1>11, <1>12, <1>13 DEF ScanInv

LEMMA ScanKeeps ==
  ASSUME ScanInv, CoalesceInv', Scan
  PROVE  ScanInv'
<1> DEFINE report == {<<count, i + chunkEnd - Len(data)>> : i \in Found(data)}
<1>1. /\ yielded /\ pieces = <<>> /\ reports' = reports \cup report
      /\ yielded' = FALSE /\ data' = <<>>
      /\ search' = search /\ stage' = stage /\ result' = result /\ scanned' = scanned
      /\ position' = position /\ start' = start /\ from' = from /\ end' = end
      /\ blocks' = blocks /\ output' = output /\ pieces' = pieces
      /\ chunkEnd' = chunkEnd /\ count' = count /\ ranges' = ranges
  BY DEF Scan, coalesceVars, cutVars
<1>2. report = Pends(search, pieces, chunkEnd, data, count)
  <2>1. Found(data) = FoundBy(search, data)
    BY DEF Found, FoundBy
  <2> QED BY <1>1, <2>1 DEF Pends
<1> HIDE DEF report
<1>3. Reported' = Reported /\ Seen' = Seen
  <2>1. Pends(search, <<>>, chunkEnd, <<>>, count) = {}
    BY NothingPends
  <2>2. Reported' = reports'
    BY <1>1, <2>1 DEF Reported
  <2>3. Reported' = Reported
    BY <1>1, <1>2, <2>2 DEF Reported
  <2> QED BY <1>1, <2>3 DEF Seen
<1>4. ScanTypes'
  <2>1. data' \in Seq(Nat) /\ yielded' \in BOOLEAN
    BY <1>1, EmptySeq
  <2> QED BY <1>1, <2>1 DEF ScanInv, ScanTypes
<1>5. Placed'
  BY <1>1 DEF ScanInv, Placed, Coalesced
<1>6. Shape'
  BY <1>1 DEF ScanInv, Shape
<1>7. Numbered'
  BY <1>1, <1>3 DEF ScanInv, Numbered
<1>8. RangesBehind' /\ SectionsInv' /\ LayerInv' /\ BlocksInv' /\ PackInv' /\ Truth'
  BY <1>1, <1>3, ScannerLeaves
<1> QED BY <1>4, <1>5, <1>6, <1>7, <1>8 DEF ScanInv

\* A section begins: of a layer without holes it is the range, of another its blocks are.
LEMMA NextSectionKeeps ==
  ASSUME ScanInv, CoalesceInv', NextSection
  PROVE  ScanInv'
<1> PICK s : s = search
  OBVIOUS
<1> PICK r : r = result[scanned + 1]
  OBVIOUS
<1> PICK R : R = ranges
  OBVIOUS
<1> PICK R2 : R2 = ranges'
  OBVIOUS
<1>1. /\ stage = "sections" /\ ~yielded /\ scanned < Len(result)
      /\ scanned' = scanned + 1 /\ output' = <<>>
      /\ search' = search /\ result' = result /\ from' = from /\ yielded' = yielded
      /\ pieces' = pieces /\ chunkEnd' = chunkEnd /\ count' = count /\ data' = data
      /\ reports' = reports
  BY DEF NextSection, coalesceVars, yieldVars
<1>2. /\ \/ /\ ~s.translated /\ stage' = "layer" /\ position' = r.start /\ end' = End(r)
            /\ R2 = R \cup {r} /\ start' = start /\ blocks' = blocks
         \/ /\ s.translated /\ stage' = "blocks" /\ position' = 0 /\ start' = 0 /\ end' = end
            /\ \E list \in Mappings :
                 /\ \A i \in 1..Len(list) : r.start <= list[i].start /\ End(list[i]) <= End(r)
                 /\ blocks' = list /\ R2 = R \cup {list[i] : i \in 1..Len(list)}
  BY DEF NextSection
<1>3. /\ s \in Search /\ result \in Seq(Sections) /\ Len(result) \in Nat
      /\ scanned \in Nat /\ R \in SUBSET Sections /\ count \in Nat
  BY ScanFacts
<1>4. scanned + 1 \in 1..Len(result) /\ r \in Sections /\ scanned + 1 \in Nat
  <2>1. scanned + 1 \in 1..Len(result)
    BY <1>1, <1>3
  <2> QED BY <1>3, <2>1, ElementIsSection
<1>5. Current' = r
  BY <1>1 DEF Current
<1>6. r.start \in Nat /\ End(r) \in Nat /\ r.start <= End(r)
  BY <1>4, EndFacts
<1>7. output = <<>>
  BY <1>1 DEF ScanInv, Shape
<1>8. ASSUME NEW g \in R PROVE End(g) < r.start /\ End(g) <= End(r)
  <2>1. scanned > 0 /\ End(g) <= End(Current)
    BY DEF ScanInv, RangesBehind
  <2>2. Separate(result)
    BY <1>1 DEF ScanInv, CoalesceInv, Parted, Stuck
  <2>3. scanned \in 1..Len(result) /\ scanned < scanned + 1
    BY <1>3, <1>4, <2>1
  <2>4. End(Current) < r.start
    BY <1>4, <2>2, <2>3 DEF Current, Separate
  <2>5. End(g) \in Nat /\ End(Current) \in Nat
    <3>1. g \in Sections /\ Current \in Sections
      BY <1>3, <2>1, ScanFacts
    <3> QED BY <3>1, EndFacts
  <2> QED BY <1>6, <2>1, <2>4, <2>5
<1>9. Reported' = Reported /\ Seen' = Seen
  BY <1>1, <1>7, NoneWaits DEF Reported, Seen
<1>10. Favours(s) => Expect(s, R, Seen)
  BY <1>1 DEF ScanInv, SectionsInv
<1>11. <<>> \in Seq(Sections) /\ Len(<<>>) <= 1
  BY EmptySeq
<1>12. Shape' /\ Numbered'
  BY <1>1, <1>2, <1>9 DEF ScanInv, Shape, Numbered
<1>13. Coalesced' /\ Placed'
  BY <1>1, <1>2, <1>3 DEF Coalesced, Placed
<1>14. R \subseteq R2
  BY <1>2
<1>15. Truth'
  BY <1>1, <1>9, <1>14 DEF ScanInv, Truth
<1>16. SectionsInv' /\ PackInv'
  BY <1>2 DEF SectionsInv, PackInv
<1>17. CASE /\ ~s.translated /\ stage' = "layer" /\ position' = r.start /\ end' = End(r)
            /\ R2 = R \cup {r} /\ start' = start /\ blocks' = blocks
  <2>1. ScanTypes'
    <3>1. output' \in Seq(Sections) /\ Len(output') <= 1
      BY <1>1, <1>11, Zenon
    <3>2. scanned' <= Len(result') /\ scanned' \in Nat
      BY <1>1, <1>4
    <3>3. ranges' \in SUBSET Sections
      BY <1>3, <1>4, <1>17
    <3> QED BY <1>1, <1>6, <1>17, <3>1, <3>2, <3>3 DEF ScanInv, ScanTypes
  <2>2. RangesBehind'
    <3>1. \A g \in R2 : End(g) <= End(r)
      BY <1>6, <1>8, <1>17
    <3>2. scanned' > 0
      BY <1>1, <1>3
    <3> QED BY <1>5, <3>1, <3>2 DEF RangesBehind
  <2>3. LayerInv'
    <3>1. r \in R2 /\ \A g \in R2 : g = r \/ End(g) < r.start
      BY <1>8, <1>17
    <3>2. Favours(s) => IF OccursIn(s, r) THEN CutProgress(s, r, r.start, Seen)
                        ELSE Expect(s, R2, Seen)
      <4>1. s \in Search /\ R \in SUBSET Sections /\ r \in Sections
        BY <1>3, <1>4
      <4>2. \A g \in R : End(g) < r.start
        BY <1>8
      <4>3. R2 = R \cup {r}
        BY <1>17
      <4> HIDE <1>17
      <4> QED BY ONLY <1>10, <4>1, <4>2, <4>3, SectionExpects
    <3>3. r.start <= r.start
      BY <1>6
    <3> QED BY <1>1, <1>5, <1>6, <1>9, <1>17, <3>1, <3>2, <3>3 DEF LayerInv
  <2>4. BlocksInv'
    BY <1>17 DEF BlocksInv
  <2> QED BY <1>12, <1>13, <1>15, <1>16, <2>1, <2>2, <2>3, <2>4 DEF ScanInv
<1>18. ASSUME s.translated, stage' = "blocks", position' = 0, start' = 0, end' = end,
              NEW list \in Mappings,
              \A i \in 1..Len(list) : r.start <= list[i].start /\ End(list[i]) <= End(r),
              blocks' = list, R2 = R \cup {list[i] : i \in 1..Len(list)}
       PROVE  ScanInv'
  <2>1. /\ list \in Seq(Sections) /\ \A i \in 1..Len(list) : list[i].length > 0
        /\ \A i, j \in 1..Len(list) : i < j => End(list[i]) <= list[j].start
    BY MappingsAssumption, Zenon
  <2>2. \A i \in 1..Len(list) : list[i] \in Sections
    BY <2>1, ElementIsSection
  <2>3. ScanTypes'
    <3>1. output' \in Seq(Sections) /\ Len(output') <= 1 /\ blocks' \in Seq(Sections)
      BY <1>1, <1>11, <1>18, <2>1, Zenon
    <3>2. scanned' <= Len(result') /\ scanned' \in Nat
      BY <1>1, <1>4
    <3>3. ranges' \in SUBSET Sections
      BY <1>3, <1>18, <2>2
    <3>4. position' \in Nat /\ start' \in Nat
      BY <1>18
    <3> QED BY <1>1, <1>18, <3>1, <3>2, <3>3, <3>4 DEF ScanInv, ScanTypes
  <2>4. RangesBehind'
    <3>1. \A g \in R2 : End(g) <= End(r)
      BY <1>8, <1>18
    <3>2. scanned' > 0
      BY <1>1, <1>3
    <3> QED BY <1>5, <3>1, <3>2 DEF RangesBehind
  <2>5. BlocksInv'
    <3>1. Favours(s) => PassedBy(s, R2, 0, r.start, Seen)
      BY <1>3, <1>6, <1>8, <1>10, <1>18, BlocksExpect
    <3>2. BlocksLeft(list, R2, 0, r.start)
      <4>1. ASSUME NEW i \in 1..Len(list)
            PROVE  /\ list[i].length > 0 /\ 0 <= list[i].start /\ r.start <= list[i].start
                   /\ list[i] \in R2
        BY <1>18, <2>1, <2>2, EndFacts
      <4>2. ASSUME NEW g \in R2
            PROVE  End(g) <= r.start \/ \E i \in 1..Len(list) : g = list[i]
        <5>1. CASE g \in R
          <6>1. End(g) < r.start /\ End(g) \in Nat
            BY <1>3, <1>8, <5>1, EndFacts
          <6> QED BY <1>6, <6>1
        <5>2. CASE g \notin R
          BY <1>18, <5>2
        <5> QED BY <5>1, <5>2
      <4> QED BY <2>1, <4>1, <4>2, Zenon DEF BlocksLeft
    <3> QED BY <1>1, <1>5, <1>9, <1>18, <3>1, <3>2 DEF BlocksInv
  <2>6. LayerInv'
    BY <1>18 DEF LayerInv
  <2> QED BY <1>12, <1>13, <1>15, <1>16, <2>3, <2>4, <2>5, <2>6 DEF ScanInv
<1> QED BY <1>2, <1>17, <1>18

\* A chunk more is counted among what is seen, with a number of its own.
LEMMA SeenGrows ==
  ASSUME ScanInv, ~yielded, NEW p \in Sections, NEW g \in ranges, g.start <= p.start,
         End(p) <= End(g), NEW n, NEW seen, seen = Seen \cup Hit(search, p, n)
  PROVE  seen # {} =>
           /\ \E h \in ranges : OccursIn(search, h)
           /\ \A a \in search.unreadable : ~Holds(Section(search.at, Width), a)
<1>1. CASE Finds(search, p)
  <2>1. search \in Search /\ g \in Sections
    BY ScanFacts
  <2> QED BY <1>1, <2>1, FindsTruly
<1>2. CASE ~Finds(search, p)
  <2>1. seen = Seen
    BY <1>2 DEF Hit
  <2> QED BY <2>1 DEF ScanInv, Truth
<1> QED BY <1>1, <1>2

LEMMA LayerChunkKeeps ==
  ASSUME ScanInv, CoalesceInv', LayerChunk
  PROVE  ScanInv'
<1> PICK s : s = search
  OBVIOUS
<1> PICK r : r = Current
  OBVIOUS
<1> PICK p : p = ChunkAt(r, position)
  OBVIOUS
<1> PICK seen : seen = Seen \cup Hit(s, p, count + 1)
  OBVIOUS
<1>1. /\ stage = "layer" /\ ~yielded /\ position < end
      /\ yielded' = TRUE /\ count' = count + 1
      /\ search' = search /\ stage' = stage /\ result' = result /\ scanned' = scanned
      /\ start' = start /\ from' = from /\ end' = end /\ blocks' = blocks
      /\ output' = output /\ data' = data /\ reports' = reports /\ ranges' = ranges
  BY DEF LayerChunk, Yield, coalesceVars
<1>2. /\ s \in Search /\ scanned \in Nat /\ position \in Nat /\ count \in Nat
      /\ ranges \in SUBSET Sections
  BY ScanFacts
<1>3. /\ scanned > 0 /\ end = End(r) /\ r \in ranges /\ r.start <= position
      /\ \A g \in ranges : g = r \/ End(g) < r.start
      /\ Favours(s) => IF OccursIn(s, r) THEN CutProgress(s, r, position, Seen)
                       ELSE Expect(s, ranges, Seen)
  BY <1>1 DEF ScanInv, Placed, LayerInv
<1>4. r \in Sections /\ position < End(r)
  BY <1>1, <1>2, <1>3
<1> DEFINE z == SizeAt(r, position)
<1>5. /\ z \in Nat /\ position + z <= End(r) /\ Step(z) \in Nat /\ Step(z) <= z
      /\ p \in Sections /\ p.start = position /\ End(p) = position + z
  BY <1>2, <1>4, ChunkFacts
<1>6. /\ pieces' = <<p>> /\ chunkEnd' = End(p) /\ position' = position + Step(z)
  <2>1. /\ pieces' = <<Section(position, Lower(end - position, ChunkSize + Overlap))>>
        /\ chunkEnd' = position + Lower(end - position, ChunkSize + Overlap)
        /\ position' = position + Step(Lower(end - position, ChunkSize + Overlap))
    BY DEF LayerChunk, Yield
  <2> QED BY <1>3, <1>5, <2>1 DEF SizeAt, ChunkAt
<1> HIDE DEF z
<1>7. output = <<>>
  BY <1>1 DEF ScanInv, Shape
<1>8. /\ Reported = reports /\ Seen = reports /\ data = <<>>
      /\ \A e \in reports : \E n \in 1..count : e = <<n, s.at>>
      /\ <<count + 1, s.at>> \notin Seen
  <2>1. /\ Reported = reports /\ Seen = reports \cup Waits(search, output, count + 1)
        /\ data = <<>> /\ \A e \in reports : \E n \in 1..count : e = <<n, search.at>>
    BY <1>1, Quiet
  <2>2. Waits(search, output, count + 1) = {}
    BY <1>7, NoneWaits
  <2>3. <<count + 1, search.at>> \notin Seen
    BY <1>1, <1>7, NextNumber
  <2> QED BY <2>1, <2>2, <2>3
<1>9. /\ Reported' = reports \cup Hit(s, p, count + 1) /\ Seen' = seen
  <2>1. Pends(s, <<p>>, End(p), <<>>, count + 1) = Hit(s, p, count + 1)
    BY OnePieceFinds
  <2>2. Reported' = reports \cup Hit(s, p, count + 1)
    BY <1>1, <1>6, <1>8, <2>1 DEF Reported
  <2>3. Waits(s, <<>>, count + 1 + 1) = {}
    BY NoneWaits
  <2> QED BY <1>1, <1>7, <1>8, <2>2, <2>3 DEF Seen
<1>10. <<p>> # <<>> /\ Len(<<p>>) = 1 /\ <<p>>[1] = p /\ <<p>> \in Seq(Sections)
  BY <1>5
<1>11. ScanTypes'
  <2>1. pieces' \in Seq(Sections) /\ Len(pieces') <= 1
    BY <1>6, <1>10
  <2>2. position' \in Nat /\ chunkEnd' \in Nat /\ count' \in Nat /\ yielded' \in BOOLEAN
    BY <1>1, <1>2, <1>5, <1>6
  <2> QED BY <1>1, <2>1, <2>2 DEF ScanInv, ScanTypes
<1>12. Placed'
  BY <1>1 DEF ScanInv, Placed, Coalesced
<1>13. Shape'
  BY <1>1, <1>6, <1>7, <1>8, <1>10 DEF Shape
<1>14. Numbered'
  <2>1. ASSUME NEW e \in reports \cup Hit(s, p, count + 1)
        PROVE  \E n \in 1..count + 1 : e = <<n, s.at>>
    <3>1. CASE e \in reports
      <4>1. PICK n \in 1..count : e = <<n, s.at>>
        BY <1>8, <3>1
      <4>2. n \in 1..count + 1
        BY <1>2
      <4> QED BY <4>1, <4>2
    <3>2. CASE e \in Hit(s, p, count + 1)
      <4>1. e = <<count + 1, s.at>>
        BY <3>2, HitFacts, Zenon
      <4>2. count + 1 \in 1..count + 1
        BY <1>2
      <4> QED BY <4>1, <4>2
    <3> QED BY <2>1, <3>1, <3>2
  <2> QED BY <1>1, <1>9, <2>1 DEF Numbered
<1>15. End(p) <= End(r) /\ r.start <= p.start
  BY <1>3, <1>5
<1>16. Truth'
  <2>1. seen # {} =>
          /\ \E h \in ranges : OccursIn(search, h)
          /\ \A a \in search.unreadable : ~Holds(Section(search.at, Width), a)
    BY <1>1, <1>3, <1>5, <1>15, SeenGrows
  <2> QED BY <1>1, <1>9, <2>1 DEF Truth
<1>17. Current' = r
  BY <1>1 DEF Current
<1>18. RangesBehind'
  BY <1>1, <1>17 DEF ScanInv, RangesBehind
<1>19. LayerInv'
  <2>1. r.start <= position' /\ position' <= End(r)
    <3>1. r.start \in Nat /\ End(r) \in Nat
      BY <1>4, EndFacts
    <3> QED BY <1>2, <1>3, <1>5, <1>6, <3>1
  <2>2. ASSUME Favours(s), OccursIn(s, r) PROVE CutProgress(s, r, position + Step(z), seen)
    <3>1. CutProgress(s, r, position, Seen)
      BY <1>3, <2>2
    <3> QED BY <1>2, <1>3, <1>4, <1>8, <2>2, <3>1, SectionAdvances DEF z
  <2>3. ASSUME Favours(s), ~OccursIn(s, r) PROVE Expect(s, ranges, seen)
    <3>1. ~Finds(s, p)
      BY <1>2, <1>4, <1>5, <1>15, <2>3, FindsTruly
    <3>2. seen = Seen
      BY <3>1 DEF Hit
    <3> QED BY <1>3, <2>3, <3>2
  <2> QED BY <1>1, <1>3, <1>6, <1>9, <1>17, <2>1, <2>2, <2>3
          DEF ScanInv, LayerInv
<1>20. SectionsInv' /\ BlocksInv' /\ PackInv'
  BY <1>1 DEF SectionsInv, BlocksInv, PackInv
<1> QED BY <1>11, <1>12, <1>13, <1>14, <1>16, <1>18, <1>19, <1>20 DEF ScanInv

LEMMA LayerEndsKeeps ==
  ASSUME ScanInv, CoalesceInv', LayerEnds
  PROVE  ScanInv'
<1> PICK s : s = search
  OBVIOUS
<1> PICK r : r = Current
  OBVIOUS
<1>1. /\ stage = "layer" /\ ~yielded /\ position >= end /\ stage' = "sections"
      /\ search' = search /\ result' = result /\ scanned' = scanned /\ position' = position
      /\ start' = start /\ from' = from /\ end' = end /\ blocks' = blocks
      /\ output' = output /\ yielded' = yielded /\ pieces' = pieces
      /\ chunkEnd' = chunkEnd /\ count' = count /\ data' = data /\ reports' = reports
      /\ ranges' = ranges
  BY DEF LayerEnds, coalesceVars, cutVars, yieldVars
<1>2. /\ s \in Search /\ ranges \in SUBSET Sections /\ position \in Nat /\ end \in Nat
  BY ScanFacts
<1>3. /\ ~s.translated /\ end = End(r) /\ r \in ranges /\ position <= end
      /\ \A g \in ranges : g = r \/ End(g) < r.start
      /\ Favours(s) => IF OccursIn(s, r) THEN CutProgress(s, r, position, Seen)
                       ELSE Expect(s, ranges, Seen)
  BY <1>1 DEF ScanInv, LayerInv
<1>4. position = End(r) /\ r \in Sections
  BY <1>1, <1>2, <1>3
<1>5. Favours(s) => Expect(s, ranges, Seen)
  <2>1. ASSUME Favours(s), OccursIn(s, r) PROVE Expect(s, ranges, Seen)
    <3>1. CutProgress(s, r, End(r), Seen)
      BY <1>3, <1>4, <2>1
    <3>2. CutAll(s, r, Seen)
      BY <1>2, <1>4, <2>1, <3>1, SectionEnds
    <3> QED BY <1>2, <1>3, <2>1, <3>2, SectionExpected
  <2> QED BY <1>3, <2>1
<1>6. Reported' = Reported /\ Seen' = Seen
  BY <1>1 DEF Reported, Seen
<1>7. output = <<>>
  BY <1>1 DEF ScanInv, Shape
<1>8. ScanTypes' /\ Placed' /\ Shape'
  BY <1>1, <1>7 DEF ScanInv, ScanTypes, Placed, Coalesced, Shape
<1>9. Numbered' /\ Truth'
  BY <1>1, <1>6 DEF ScanInv, Numbered, Truth
<1>10. RangesBehind'
  BY <1>1 DEF ScanInv, RangesBehind, Current
<1>11. SectionsInv' /\ LayerInv' /\ BlocksInv' /\ PackInv'
  BY <1>1, <1>5, <1>6 DEF SectionsInv, LayerInv, BlocksInv, PackInv
<1> QED BY <1>8, <1>9, <1>10, <1>11 DEF ScanInv

LEMMA PackEndsKeeps ==
  ASSUME ScanInv, CoalesceInv', PackEnds
  PROVE  ScanInv'
<1>1. /\ stage = "pack" /\ ~yielded /\ from >= end /\ stage' = "blocks"
      /\ search' = search /\ result' = result /\ scanned' = scanned /\ position' = position
      /\ start' = start /\ from' = from /\ end' = end /\ blocks' = blocks
      /\ output' = output /\ yielded' = yielded /\ pieces' = pieces
      /\ chunkEnd' = chunkEnd /\ count' = count /\ data' = data /\ reports' = reports
      /\ ranges' = ranges
  BY DEF PackEnds, coalesceVars, cutVars, yieldVars
<1>2. from \in Nat /\ end \in Nat
  BY ScanFacts
<1>3. /\ search.translated /\ BlocksLeft(blocks, ranges, end, Current.start)
      /\ (position = from /\ from < end) \/ position = Lower(end, from + Overlap)
      /\ Favours(search) => PassedBy(search, ranges, Lower(from, end), Current.start, Seen)
  BY <1>1 DEF ScanInv, PackInv
<1>4. position = end /\ Lower(from, end) = end
  BY <1>1, <1>2, <1>3 DEF Lower
<1>5. Reported' = Reported /\ Seen' = Seen /\ Current' = Current
  BY <1>1 DEF Reported, Seen, Current
<1>6. ScanTypes' /\ Placed' /\ Shape'
  BY <1>1 DEF ScanInv, ScanTypes, Placed, Coalesced, Shape
<1>7. Numbered' /\ Truth' /\ RangesBehind'
  BY <1>1, <1>5 DEF ScanInv, Numbered, Truth, RangesBehind
<1>8. BlocksInv'
  BY <1>1, <1>3, <1>4, <1>5 DEF BlocksInv
<1>9. SectionsInv' /\ LayerInv' /\ PackInv'
  BY <1>1 DEF SectionsInv, LayerInv, PackInv
<1> QED BY <1>6, <1>7, <1>8, <1>9 DEF ScanInv

\* What was packed is shipped.
LEMMA ShipKeeps ==
  ASSUME ScanInv, CoalesceInv', Ship
  PROVE  ScanInv'
<1>1. /\ stage = "blocks" /\ ~yielded /\ blocks = <<>> /\ stage' = "sections"
      /\ output' = <<>>
      /\ search' = search /\ result' = result /\ scanned' = scanned /\ position' = position
      /\ start' = start /\ from' = from /\ end' = end /\ blocks' = blocks
      /\ data' = data /\ reports' = reports /\ ranges' = ranges
  BY DEF Ship, coalesceVars
<1>2. \/ /\ output # <<>> /\ yielded' = TRUE /\ pieces' = output /\ chunkEnd' = position
         /\ count' = count + 1
      \/ /\ output = <<>> /\ yielded' = yielded /\ pieces' = pieces /\ chunkEnd' = chunkEnd
         /\ count' = count
  BY DEF Ship, Yield, yieldVars
<1>3. /\ search \in Search /\ ranges \in SUBSET Sections /\ position \in Nat /\ count \in Nat
      /\ output \in Seq(Sections) /\ Len(output) <= 1 /\ scanned > 0 /\ Current \in Sections
  <2>1. scanned > 0
    BY <1>1 DEF ScanInv, Placed
  <2> QED BY <2>1, ScanFacts
<1>4. Current.start \in Nat /\ Current' = Current
  BY <1>1, <1>3, EndFacts DEF Current
<1>5. /\ search.translated /\ BlocksLeft(blocks, ranges, position, Current.start)
      /\ Favours(search) => PassedBy(search, ranges, position, Current.start, Seen)
  BY <1>1 DEF ScanInv, BlocksInv
<1>6. \A g \in ranges : End(g) <= position \/ End(g) <= Current.start
  <2>1. ~(\E i \in 1..Len(blocks) : TRUE)
    <3>1. Len(blocks) = 0
      BY <1>1, EmptySeq, Zenon
    <3> QED BY <3>1
  <2> QED BY <1>5, <2>1, Zenon DEF BlocksLeft
<1>7. Favours(search) => Expect(search, ranges, Seen)
  BY <1>3, <1>4, <1>5, <1>6, BlocksExpected
<1>8. /\ Reported = reports /\ Seen = reports \cup Waits(search, output, count + 1)
      /\ pieces = <<>> /\ data = <<>>
      /\ \A e \in reports : \E n \in 1..count : e = <<n, search.at>>
  BY <1>1, Quiet
<1>9. Reported' = Seen /\ Seen' = Seen
  <2>1. Waits(search, <<>>, count' + 1) = {}
    BY NoneWaits
  <2>2. Reported' = Seen
    <3>1. CASE output # <<>>
      <4>1. Reported' = reports \cup Pends(search, output, position, <<>>, count + 1)
        BY <1>1, <1>2, <1>8, <3>1 DEF Reported
      <4>2. Pends(search, output, position, <<>>, count + 1) = Waits(search, output, count + 1)
        BY ShippedFinds
      <4> QED BY <1>8, <4>1, <4>2
    <3>2. CASE output = <<>>
      <4>1. Reported' = Reported
        BY <1>1, <1>2, <3>2 DEF Reported
      <4>2. Waits(search, output, count + 1) = {}
        BY <3>2, NoneWaits
      <4> QED BY <1>8, <4>1, <4>2
    <3> QED BY <3>1, <3>2
  <2> QED BY <1>1, <2>1, <2>2 DEF Seen
<1>10. <<>> \in Seq(Sections) /\ Len(<<>>) <= 1
  BY EmptySeq
<1>11. ScanTypes'
  <2>1. output' \in Seq(Sections) /\ Len(output') <= 1
    BY <1>1, <1>10, Zenon
  <2>2. pieces' \in Seq(Sections) /\ Len(pieces') <= 1
    BY <1>2, <1>3, Zenon DEF ScanInv, ScanTypes
  <2>3. chunkEnd' \in Nat /\ count' \in Nat /\ yielded' \in BOOLEAN
    <3>1. /\ chunkEnd \in Nat /\ count \in Nat /\ yielded \in BOOLEAN
          /\ position \in Nat /\ count + 1 \in Nat
      BY ScanFacts
    <3> QED BY <1>2, <3>1, Zenon
  <2> QED BY <1>1, <2>1, <2>2, <2>3 DEF ScanInv, ScanTypes
<1>12. Placed'
  BY <1>1 DEF Placed, Coalesced
<1>13. Shape'
  BY <1>1, <1>2, <1>8 DEF ScanInv, Shape
<1>14. Numbered'
  <2>1. ASSUME NEW e \in Seen
        PROVE  \E n \in 1..count' : e = <<n, search.at>>
    <3>1. CASE e \in reports
      <4>1. PICK n \in 1..count : e = <<n, search.at>>
        BY <1>8, <3>1
      <4>2. n \in 1..count'
        BY <1>2, <1>3
      <4> QED BY <4>1, <4>2
    <3>2. CASE e \in Waits(search, output, count + 1)
      <4>1. output # <<>> /\ e = <<count + 1, search.at>>
        BY <3>2, HitFacts, Zenon DEF Waits
      <4>2. count' = count + 1 /\ count + 1 \in 1..count'
        BY <1>2, <1>3, <4>1
      <4> QED BY <4>1, <4>2
    <3> QED BY <1>8, <3>1, <3>2
  <2> QED BY <1>1, <1>9, <2>1 DEF Numbered
<1>15. Truth' /\ RangesBehind'
  BY <1>1, <1>4, <1>9 DEF ScanInv, Truth, RangesBehind
<1>16. SectionsInv' /\ LayerInv' /\ BlocksInv' /\ PackInv'
  BY <1>1, <1>7, <1>9 DEF SectionsInv, LayerInv, BlocksInv, PackInv
<1> QED BY <1>11, <1>12, <1>13, <1>14, <1>15, <1>16 DEF ScanInv

\* A block begins where the chunk is, or behind a gap before which the chunk is shipped.
LEMMA NextBlockKeeps ==
  ASSUME ScanInv, CoalesceInv', NextBlock
  PROVE  ScanInv'
<1> PICK s : s = search
  OBVIOUS
<1> PICK b : b = blocks[1]
  OBVIOUS
<1> PICK low : low = Current.start
  OBVIOUS
<1> PICK rest : rest = Tail(blocks)
  OBVIOUS
<1> DEFINE gap == position < b.start
<1>1. /\ stage = "blocks" /\ ~yielded /\ blocks # <<>> /\ stage' = "pack"
      /\ end' = End(b) /\ blocks' = rest
      /\ search' = search /\ result' = result /\ scanned' = scanned
      /\ data' = data /\ reports' = reports /\ ranges' = ranges
  BY DEF NextBlock, coalesceVars
<1>2. /\ s \in Search /\ ranges \in SUBSET Sections /\ position \in Nat /\ count \in Nat
      /\ output \in Seq(Sections) /\ Len(output) <= 1 /\ scanned > 0 /\ Current \in Sections
      /\ blocks \in Seq(Sections)
  <2>1. scanned > 0
    BY <1>1 DEF ScanInv, Placed
  <2> QED BY <2>1, ScanFacts
<1>3. low \in Nat /\ Current' = Current
  BY <1>1, <1>2, EndFacts DEF Current
<1>4. /\ s.translated /\ BlocksLeft(blocks, ranges, position, low)
      /\ Favours(s) => PassedBy(s, ranges, position, low, Seen)
  BY <1>1 DEF ScanInv, BlocksInv
<1>5. /\ rest \in Seq(Sections) /\ b \in ranges /\ position <= b.start /\ low <= b.start
      /\ b.start < End(b) /\ BlocksLeft(rest, ranges, End(b), low)
  BY <1>1, <1>2, <1>3, <1>4, BlockBegins
<1>6. Favours(s) => PassedBy(s, ranges, b.start, low, Seen)
  BY <1>1, <1>2, <1>3, <1>4, GapHoldsNothing
<1>7. b \in Sections /\ b.start \in Nat /\ End(b) \in Nat
  <2>1. b \in Sections
    BY <1>2, <1>5
  <2> QED BY <2>1, EndFacts
<1>8. start = position
  BY <1>1 DEF ScanInv, Shape
\* Nothing is left of a chunk that was begun.
<1>9. /\ position' = b.start /\ start' = b.start /\ from' = b.start
      /\ output' = (IF gap THEN <<>> ELSE output) \o <<>>
  <2>1. (IF gap THEN b.start ELSE position) = b.start
    BY <1>2, <1>5, <1>7
  <2>2. (IF gap THEN b.start ELSE start) = b.start
    BY <1>8, <2>1
  <2> DEFINE begun == IF gap THEN b.start ELSE start
             here == IF gap THEN b.start ELSE position
             half == here # begun
             size == Lower(here - begun, ChunkSize + Overlap)
  <2>3. /\ output' = (IF gap THEN <<>> ELSE output)
                       \o (IF half THEN <<Section(here, size)>> ELSE <<>>)
        /\ position' = (IF half THEN here + size ELSE here) /\ start' = position'
        /\ from' = position'
    BY Zenon DEF NextBlock
  <2>4. here = b.start /\ ~half
    BY <2>1, <2>2
  <2> HIDE DEF half, here, size, begun, gap
  <2> QED BY <2>3, <2>4
<1>10. output' = IF gap THEN <<>> ELSE output
  <2>1. <<>> \o <<>> = <<>> /\ output \o <<>> = output
    BY <1>2, EmptySeq, ConcatEmptySeq, Zenon
  <2> QED BY <1>9, <2>1, Zenon
<1>11. IF gap THEN yielded' = TRUE /\ pieces' = output /\ chunkEnd' = position /\ count' = count + 1
       ELSE yielded' = yielded /\ pieces' = pieces /\ chunkEnd' = chunkEnd /\ count' = count
  BY DEF NextBlock, Yield, yieldVars
<1>12. /\ Reported = reports /\ Seen = reports \cup Waits(s, output, count + 1)
       /\ pieces = <<>> /\ data = <<>>
       /\ \A e \in reports : \E n \in 1..count : e = <<n, s.at>>
  BY <1>1, Quiet
<1> HIDE DEF gap
<1>13. /\ gap => Reported' = Seen
       /\ ~gap => Reported' = reports
       /\ Seen' = Seen
  <2>1. CASE gap
    <3>1. Reported' = reports \cup Pends(s, output, position, <<>>, count + 1)
      BY <1>1, <1>11, <1>12, <2>1 DEF Reported
    <3>2. Pends(s, output, position, <<>>, count + 1) = Waits(s, output, count + 1)
      BY ShippedFinds
    <3>3. Waits(s, <<>>, count' + 1) = {}
      BY NoneWaits
    <3>4. Reported' = Seen
      BY <1>12, <3>1, <3>2
    <3> QED BY <1>1, <1>10, <2>1, <3>3, <3>4 DEF Seen
  <2>2. CASE ~gap
    <3>1. Reported' = Reported
      BY <1>1, <1>11, <1>12, <2>2 DEF Reported
    <3> QED BY <1>1, <1>10, <1>11, <1>12, <2>2, <3>1 DEF Seen
  <2> QED BY <2>1, <2>2
<1>14. <<>> \in Seq(Sections) /\ Len(<<>>) <= 1
  BY EmptySeq
<1>15. ScanTypes'
  <2>1. output' \in Seq(Sections) /\ Len(output') <= 1
    BY <1>2, <1>10, <1>14, Zenon
  <2>2. pieces' \in Seq(Sections) /\ Len(pieces') <= 1
    BY <1>2, <1>11, Zenon DEF ScanInv, ScanTypes
  <2>3. chunkEnd' \in Nat /\ count' \in Nat /\ yielded' \in BOOLEAN
    <3>1. /\ chunkEnd \in Nat /\ count \in Nat /\ yielded \in BOOLEAN
          /\ position \in Nat /\ count + 1 \in Nat
      BY ScanFacts
    <3> QED BY <1>11, <3>1, Zenon
  <2>4. /\ position' \in Nat /\ start' \in Nat /\ from' \in Nat /\ end' \in Nat
        /\ blocks' \in Seq(Sections)
    BY <1>1, <1>5, <1>7, <1>9, Zenon
  <2> QED BY <1>1, <2>1, <2>2, <2>3, <2>4 DEF ScanInv, ScanTypes
<1>16. Placed'
  BY <1>1, <1>2 DEF Placed, Coalesced
<1>17. Shape'
  <2>1. output' # <<>> => End(output'[1]) = position'
    <3> SUFFICES ASSUME output' # <<>> PROVE End(output'[1]) = position'
      OBVIOUS
    <3>1. ~gap /\ output' = output
      BY <1>10
    <3>2. position = b.start
      BY <1>2, <1>5, <1>7, <3>1 DEF gap
    <3>3. End(output[1]) = position
      BY <3>1 DEF ScanInv, Shape
    <3> QED BY <1>9, <3>1, <3>2, <3>3
  <2>2. pieces' # <<>> => data' = <<>> /\ End(pieces'[1]) = chunkEnd'
    BY <1>1, <1>11, <1>12, Zenon DEF ScanInv, Shape
  <2>3. ~yielded' => pieces' = <<>> /\ data' = <<>>
    BY <1>1, <1>11, <1>12
  <2> QED BY <1>1, <1>9, <2>1, <2>2, <2>3 DEF Shape
<1>18. Numbered'
  <2>1. ASSUME NEW e \in Reported'
        PROVE  \E n \in 1..count' : e = <<n, s.at>>
    <3>1. CASE e \in reports
      <4>1. PICK n \in 1..count : e = <<n, s.at>>
        BY <1>12, <3>1
      <4>2. n \in 1..count'
        BY <1>2, <1>11
      <4> QED BY <4>1, <4>2
    <3>2. CASE e \notin reports
      <4>1. gap /\ e \in Waits(s, output, count + 1)
        BY <1>12, <1>13, <2>1, <3>2
      <4>2. e = <<count + 1, s.at>>
        BY <4>1, HitFacts, Zenon DEF Waits
      <4>3. count' = count + 1 /\ count + 1 \in 1..count'
        BY <1>2, <1>11, <4>1
      <4> QED BY <4>2, <4>3
    <3> QED BY <3>1, <3>2
  <2> QED BY <1>1, <2>1 DEF Numbered
<1>19. Truth' /\ RangesBehind'
  BY <1>1, <1>3, <1>13 DEF ScanInv, Truth, RangesBehind
<1>20. PackInv'
  <2>1. Lower(b.start, End(b)) = b.start
    BY <1>5, <1>7 DEF Lower
  <2>2. \E g \in ranges : g.start <= b.start /\ low <= g.start /\ End(g) = End(b)
    BY <1>5, <1>7
  <2> QED BY <1>1, <1>3, <1>4, <1>5, <1>6, <1>9, <1>13, <2>1, <2>2 DEF PackInv
<1>21. SectionsInv' /\ LayerInv' /\ BlocksInv'
  BY <1>1 DEF SectionsInv, LayerInv, BlocksInv
<1> QED BY <1>15, <1>16, <1>17, <1>18, <1>19, <1>20, <1>21 DEF ScanInv

\* The chunk before is shipped, and the next one packed.
LEMMA PackKeeps ==
  ASSUME ScanInv, CoalesceInv', Pack
  PROVE  ScanInv'
<1> PICK s : s = search
  OBVIOUS
<1> PICK low : low = Current.start
  OBVIOUS
<1> PICK p : p = PackedAt(from, end)
  OBVIOUS
<1> DEFINE ships == output # <<>>
<1>1. /\ stage = "pack" /\ ~yielded /\ from < end
      /\ search' = search /\ stage' = stage /\ result' = result /\ scanned' = scanned
      /\ end' = end /\ blocks' = blocks /\ data' = data /\ reports' = reports
      /\ ranges' = ranges /\ from' = from + ChunkSize
  BY DEF Pack, PackStep, coalesceVars
<1>2. IF ships THEN yielded' = TRUE /\ pieces' = output /\ chunkEnd' = position /\ count' = count + 1
      ELSE yielded' = yielded /\ pieces' = pieces /\ chunkEnd' = chunkEnd /\ count' = count
  BY DEF Pack, Yield, yieldVars
<1>3. /\ s \in Search /\ ranges \in SUBSET Sections /\ position \in Nat /\ count \in Nat
      /\ from \in Nat /\ end \in Nat
      /\ output \in Seq(Sections) /\ Len(output) <= 1 /\ scanned > 0 /\ Current \in Sections
      /\ blocks \in Seq(Sections)
  <2>1. scanned > 0
    BY <1>1 DEF ScanInv, Placed
  <2> QED BY <2>1, ScanFacts
<1>4. low \in Nat /\ Current' = Current
  BY <1>1, <1>3, EndFacts DEF Current
<1>5. /\ s.translated /\ BlocksLeft(blocks, ranges, end, low)
      /\ \E g \in ranges : g.start <= from /\ low <= g.start /\ End(g) = end
      /\ position = from \/ ships
      /\ Favours(s) => PassedBy(s, ranges, Lower(from, end), low, Seen)
  BY <1>1 DEF ScanInv, PackInv
<1>6. PICK g \in ranges : g.start <= from /\ low <= g.start /\ End(g) = end
  BY <1>5
<1>7. /\ p \in Sections /\ p.start = from /\ End(p) = Lower(end, from + ChunkSize + Overlap)
      /\ End(p) <= end /\ End(p) \in Nat /\ End(p) = from + p.length
  BY <1>1, <1>3, PackedFacts
<1>8. output' = <<p>> /\ position' = End(p) /\ start' = End(p)
  <2> DEFINE here == IF ships THEN from ELSE position
             size == Lower(end - here, ChunkSize + Overlap - (here - from))
  <2>1. output' = <<Section(here, size)>> /\ position' = here + size /\ start' = here + size
    BY Zenon DEF Pack
  <2>2. here = from
    BY <1>5
  <2>3. ChunkSize + Overlap - (from - from) = ChunkSize + Overlap
    BY <1>3
  <2>4. size = Lower(end - from, ChunkSize + Overlap)
    BY <2>2, <2>3
  <2> HIDE DEF here, size
  <2>5. Section(here, size) = p
    BY <2>2, <2>4 DEF PackedAt
  <2>6. p.length = size
    BY <2>5 DEF Section
  <2> QED BY <1>7, <2>1, <2>2, <2>5, <2>6
<1>9. /\ Reported = reports /\ Seen = reports \cup Waits(s, output, count + 1)
      /\ pieces = <<>> /\ data = <<>>
      /\ \A e \in reports : \E n \in 1..count : e = <<n, s.at>>
  BY <1>1, Quiet
<1>10. <<count' + 1, s.at>> \notin Seen
  <2>1. <<count + 2, s.at>> \notin Seen /\ (output = <<>> => <<count + 1, s.at>> \notin Seen)
    BY <1>1, NextNumber
  <2>2. ships => count' + 1 = count + 2
    BY <1>2, <1>3
  <2>3. ~ships => count' + 1 = count + 1
    BY <1>2
  <2> QED BY <2>1, <2>2, <2>3
<1> PICK seen : seen = Seen \cup Hit(s, p, count' + 1)
  OBVIOUS
<1>11. Reported' = Seen /\ Seen' = seen
  <2>1. Reported' = Seen
    <3>1. CASE ships
      <4>1. Reported' = reports \cup Pends(s, output, position, <<>>, count + 1)
        BY <1>1, <1>2, <1>9, <3>1 DEF Reported
      <4>2. Pends(s, output, position, <<>>, count + 1) = Waits(s, output, count + 1)
        BY ShippedFinds
      <4> QED BY <1>9, <4>1, <4>2
    <3>2. CASE ~ships
      <4>1. Reported' = Reported
        BY <1>1, <1>2, <3>2 DEF Reported
      <4>2. Waits(s, output, count + 1) = {}
        BY <3>2, NoneWaits
      <4> QED BY <1>9, <4>1, <4>2
    <3> QED BY <3>1, <3>2
  <2>2. Waits(s, <<p>>, count' + 1) = Hit(s, p, count' + 1)
    BY OnePieceFinds
  <2> QED BY <1>1, <1>8, <2>1, <2>2 DEF Seen
<1>12. <<p>> # <<>> /\ Len(<<p>>) = 1 /\ <<p>>[1] = p /\ <<p>> \in Seq(Sections)
  BY <1>7
<1> HIDE DEF ships
<1>13. ScanTypes'
  <2>1. output' \in Seq(Sections) /\ Len(output') <= 1
    BY <1>8, <1>12
  <2>2. pieces' \in Seq(Sections) /\ Len(pieces') <= 1
    BY <1>2, <1>3, Zenon DEF ScanInv, ScanTypes
  <2>3. chunkEnd' \in Nat /\ count' \in Nat /\ yielded' \in BOOLEAN
    <3>1. /\ chunkEnd \in Nat /\ count \in Nat /\ yielded \in BOOLEAN
          /\ position \in Nat /\ count + 1 \in Nat
      BY ScanFacts
    <3> QED BY <1>2, <3>1, Zenon
  <2>4. position' \in Nat /\ start' \in Nat /\ from' \in Nat
    BY <1>1, <1>3, <1>7, <1>8
  <2> QED BY <1>1, <2>1, <2>2, <2>3, <2>4 DEF ScanInv, ScanTypes
<1>14. Placed'
  BY <1>1, <1>3 DEF Placed, Coalesced
<1>15. Shape'
  <2>1. End(output'[1]) = position'
    BY <1>8, <1>12
  <2>2. pieces' # <<>> => data' = <<>> /\ End(pieces'[1]) = chunkEnd'
    BY <1>1, <1>2, <1>9, Zenon DEF ScanInv, Shape
  <2>3. ~yielded' => pieces' = <<>> /\ data' = <<>>
    BY <1>1, <1>2, <1>9
  <2> QED BY <1>1, <1>8, <2>1, <2>2, <2>3 DEF Shape
<1>16. Numbered'
  <2>1. ASSUME NEW e \in Seen
        PROVE  \E n \in 1..count' : e = <<n, s.at>>
    <3>1. CASE e \in reports
      <4>1. PICK n \in 1..count : e = <<n, s.at>>
        BY <1>9, <3>1
      <4>2. n \in 1..count'
        BY <1>2, <1>3
      <4> QED BY <4>1, <4>2
    <3>2. CASE e \in Waits(s, output, count + 1)
      <4>1. ships /\ e = <<count + 1, s.at>>
        BY <3>2, HitFacts, Zenon DEF Waits, ships
      <4>2. count' = count + 1 /\ count + 1 \in 1..count'
        BY <1>2, <1>3, <4>1
      <4> QED BY <4>1, <4>2
    <3> QED BY <1>9, <3>1, <3>2
  <2> QED BY <1>1, <1>11, <2>1 DEF Numbered
<1>17. Truth'
  <2>1. seen # {} =>
          /\ \E h \in ranges : OccursIn(search, h)
          /\ \A a \in search.unreadable : ~Holds(Section(search.at, Width), a)
    <3> PICK n : n = count' + 1
      OBVIOUS
    <3>1. seen = Seen \cup Hit(search, p, n)
      OBVIOUS
    <3> QED BY <1>1, <1>6, <1>7, <3>1, SeenGrows
  <2> QED BY <1>1, <1>11, <2>1 DEF Truth
<1>18. RangesBehind'
  BY <1>1, <1>4 DEF ScanInv, RangesBehind
<1>19. PackInv'
  <2>1. g.start <= from' /\ low <= g.start /\ End(g) = end
    <3>1. g.start \in Nat
      BY <1>3, EndFacts
    <3> QED BY <1>1, <1>3, <1>6, <3>1
  <2>2. output' # <<>> /\ position' = Lower(end, from' + Overlap)
    BY <1>1, <1>7, <1>8, <1>12
  <2>3. ASSUME Favours(s) PROVE PassedBy(s, ranges, Lower(from', end), low, seen)
    <3> PICK n : n = count' + 1
      OBVIOUS
    <3>1. Lower(from, end) = from
      BY <1>1, <1>3 DEF Lower
    <3>2. PassedBy(s, ranges, from, low, Seen)
      BY <1>5, <2>3, <3>1
    <3>3. <<n, s.at>> \notin Seen
      BY <1>10
    <3>4. PassedBy(s, ranges, Lower(from + ChunkSize, end), low, Seen \cup Hit(s, PackedAt(from, end), n))
      BY <1>1, <1>3, <1>4, <1>5, <1>6, <2>3, <3>2, <3>3, BlockAdvances
    <3> QED BY <1>1, <3>4
  <2> QED BY <1>1, <1>4, <1>5, <1>11, <2>1, <2>2, <2>3 DEF PackInv
<1>20. SectionsInv' /\ LayerInv' /\ BlocksInv'
  BY <1>1 DEF SectionsInv, LayerInv, BlocksInv
<1> QED BY <1>13, <1>14, <1>15, <1>16, <1>17, <1>18, <1>19, <1>20 DEF ScanInv

LEMMA ScanStutters ==
  ASSUME ScanInv, CoalesceInv', UNCHANGED scanVars
  PROVE  ScanInv'
<1>1. /\ search' = search /\ stage' = stage /\ result' = result /\ scanned' = scanned
      /\ position' = position /\ start' = start /\ from' = from /\ end' = end
      /\ blocks' = blocks /\ output' = output /\ yielded' = yielded /\ pieces' = pieces
      /\ chunkEnd' = chunkEnd /\ count' = count /\ data' = data /\ reports' = reports
      /\ ranges' = ranges
  BY DEF scanVars, coalesceVars, cutVars, yieldVars
<1>2. Reported' = Reported /\ Seen' = Seen
  BY <1>1 DEF Reported, Seen
<1>3. ScanTypes' /\ Placed' /\ Shape'
  BY <1>1 DEF ScanInv, ScanTypes, Placed, Coalesced, Shape
<1>4. Numbered'
  BY <1>1, <1>2 DEF ScanInv, Numbered
<1>5. RangesBehind' /\ SectionsInv' /\ LayerInv' /\ BlocksInv' /\ PackInv' /\ Truth'
  BY <1>1, <1>2, ScannerLeaves
<1> QED BY <1>3, <1>4, <1>5 DEF ScanInv

LEMMA ScanStep == ScanInv /\ [ScanNext]_scanVars => ScanInv'
<1> SUFFICES ASSUME ScanInv, [ScanNext]_scanVars PROVE ScanInv'
  OBVIOUS
<1>0. CoalesceInv'
  BY CoalesceStep DEF ScanInv
<1>1. CASE Merge
  BY <1>0, <1>1, CoalescingScansNothing, Zenon DEF Merge, Coalesced
<1>2. CASE ClipBelow
  BY <1>0, <1>2, CoalescingScansNothing DEF ClipBelow, coalesceVars, Coalesced
<1>3. CASE ClipAbove
  BY <1>0, <1>3, CoalescingScansNothing DEF ClipAbove, coalesceVars, Coalesced
<1>4. CASE NextLoop
  BY <1>0, <1>4, CoalescingScansNothing DEF NextLoop, coalesceVars, Coalesced
<1>5. CASE NextSection
  BY <1>0, <1>5, NextSectionKeeps
<1>6. CASE LayerChunk
  BY <1>0, <1>6, LayerChunkKeeps
<1>7. CASE LayerEnds
  BY <1>0, <1>7, LayerEndsKeeps
<1>8. CASE NextBlock
  BY <1>0, <1>8, NextBlockKeeps
<1>9. CASE Pack
  BY <1>0, <1>9, PackKeeps
<1>10. CASE PackEnds
  BY <1>0, <1>10, PackEndsKeeps
<1>11. CASE Ship
  BY <1>0, <1>11, ShipKeeps
<1>12. CASE ReadPiece
  BY <1>0, <1>12, ReadPieceKeeps
<1>13. CASE Scan
  BY <1>0, <1>13, ScanKeeps
<1>14. CASE UNCHANGED scanVars
  BY <1>0, <1>14, ScanStutters
<1> QED BY <1>1, <1>2, <1>3, <1>4, <1>5, <1>6, <1>7, <1>8, <1>9, <1>10, <1>11, <1>12, <1>13,
           <1>14 DEF ScanNext

\* What is promised follows.
LEMMA ScanImplies == ScanInv => ScanFindsEachMatch
<1> SUFFICES ASSUME ScanInv PROVE ScanFindsEachMatch
  OBVIOUS
<1>1. \A g : Occurs(g) <=> OccursIn(search, g)
  BY DEF Occurs, OccursIn
<1>2. \A g : Repeated(g) <=> RepeatedIn(search, g)
  BY DEF Repeated, RepeatedIn
<1>3. CoalescingKeepsSections
  BY CoalesceImplies DEF ScanInv
<1>4. \A e \in reports : \E n \in 1..count : e = <<n, search.at>>
  BY DEF ScanInv, Numbered, Reported
<1>5. ReportsAreTrue
  <2> SUFFICES ASSUME reports # {}
               PROVE  /\ \A report \in reports : report[2] = search.at
                      /\ \E range \in ranges : Occurs(range)
                      /\ Readable(Section(search.at, Width))
    BY DEF ReportsAreTrue
  <2>1. \A report \in reports : report[2] = search.at
    BY <1>4
  <2>2. Seen # {}
    BY DEF Seen, Reported
  <2> QED BY <1>1, <2>1, <2>2 DEF ScanInv, Truth, Readable
<1>6. ReportedOnceButForTheTail
  <2> SUFFICES ASSUME stage = "sections", ~yielded, Width <= Overlap + 1, ReadableAround
               PROVE  IF \A range \in ranges : ~Occurs(range) THEN None(reports)
                      ELSE IF /\ ~search.translated
                              /\ \E range \in ranges : Occurs(range) /\ Repeated(range)
                      THEN Twice(reports)
                      ELSE Once(reports)
    BY DEF ReportedOnceButForTheTail
  <2>1. Favours(search)
    BY DEF Favours, ReadableAround
  <2>2. Seen = reports
    <3>1. output = <<>>
      BY DEF ScanInv, Shape
    <3> QED BY <3>1, Quiet, NoneWaits
  <2>3. Expect(search, ranges, reports)
    BY <2>1, <2>2 DEF ScanInv, SectionsInv
  <2>4. count \in Nat
    BY ScanFacts
  <2>5. Single(search, reports) => Once(reports)
    <3> SUFFICES ASSUME NEW n, reports = {<<n, search.at>>} PROVE Once(reports)
      BY DEF Single
    <3>1. n \in 1..count
      BY <1>4
    <3>2. n \in 1..count + 1
      BY <2>4, <3>1
    <3> QED BY <3>2 DEF Once
  <2>6. Pair(search, reports) => Twice(reports)
    <3> SUFFICES ASSUME NEW m, NEW n, m # n, reports = {<<m, search.at>>, <<n, search.at>>}
                 PROVE  Twice(reports)
      BY DEF Pair
    <3>1. m \in 1..count /\ n \in 1..count
      BY <1>4
    <3> QED BY <3>1 DEF Twice
  <2> QED BY <1>1, <1>2, <2>3, <2>5, <2>6, Zenon DEF Expect, None
<1> QED BY <1>3, <1>5, <1>6 DEF ScanFindsEachMatch

\* Whatever the chunk size and the overlap, the sections, the blocks that are mapped and
\* the bytes that cannot be read: coalescing loses and adds nothing of proper sections,
\* nothing false is reported, and an occurrence that fits the overlap is reported exactly
\* once, or twice in the end of a section that is searched again (layers.py:209-371,
\* 514-613).
THEOREM ScanAlwaysFindsEachMatch == ScanSpec => []ScanFindsEachMatch
<1>1. ScanInit => ScanInv
  BY ScanStarts
<1>2. ScanInv /\ [ScanNext]_scanVars => ScanInv'
  BY ScanStep
<1>3. ScanInv => ScanFindsEachMatch
  BY ScanImplies
<1> QED BY <1>1, <1>2, <1>3, PTL DEF ScanSpec
=============================================================================
