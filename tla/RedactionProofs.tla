---------------------------- MODULE RedactionProofs ----------------------------
(***************************************************************************)
(* What holds of a redacted document for any texts, entity types, detector *)
(* reports and edits: a placeholder stands for one value, the positions of *)
(* the spans remain right, the document can be had back from text and      *)
(* spans, a redaction leaves no copy in clear, and restoring is faithful.  *)
(***************************************************************************)
EXTENDS Redaction, TextProofs

----------------------------------------------------------------------------
(* Joined blocks *)

LEMMA JoinIsText ==
  ASSUME NEW blocks, IsText(blocks), \A b \in DOMAIN blocks : IsText(blocks[b])
  PROVE  IsText(Join(blocks))
  <1> DEFINE s == [b \in 1 .. Len(blocks) |->
                     IF b = 1 THEN blocks[b] ELSE <<Separator>> \o blocks[b]]
  <1>1. Len(blocks) \in Nat /\ DOMAIN blocks = 1 .. Len(blocks)
    BY TextHasLength
  <1>2. IsText(<<Separator>>)
    <2>1. <<Separator>> \in Seq({Separator})
      OBVIOUS
    <2> QED
      BY <2>1, SeqIsText
  <1>3. \A b \in 1 .. Len(blocks) : IsText(s[b])
    BY <1>1, <1>2, ConcatIsText DEF Cat
  <1>4. s = [b \in 1 .. Len(blocks) |-> s[b]] /\ DOMAIN s = 1 .. Len(blocks)
    OBVIOUS
  <1>5. Join(blocks) = FlattenSeq(s)
    BY DEF Join
  <1> HIDE DEF s
  <1> QED
    BY <1>1, <1>3, <1>4, <1>5, FunctionIsText, FlattenIsText
----------------------------------------------------------------------------
(* The indices of the pipeline's placeholders *)

\* Up to the first span with the value of span i, the values of its type.
SameType(found, i) == {j \in 1 .. i : found[j].type = found[i].type}
Value(found, i) == Key(found[i].original)
First(found, i) == Min({j \in SameType(found, i) : Value(found, j) = Value(found, i)})
Earlier(found, i) == {j \in SameType(found, i) : j <= First(found, i)}
Values(found, i) == {Value(found, j) : j \in Earlier(found, i)}

LEMMA FirstOfValue ==
  ASSUME NEW found, NEW i \in Nat \ {0}
  PROVE  /\ First(found, i) \in Earlier(found, i)
         /\ Value(found, First(found, i)) = Value(found, i)
         /\ \A j \in SameType(found, i) :
              Value(found, j) = Value(found, i) => First(found, i) <= j
  <1> DEFINE Equal == {j \in SameType(found, i) : Value(found, j) = Value(found, i)}
  <1>1. Equal \in SUBSET Nat /\ i \in Equal
    BY DEF SameType
  <1>2. Min(Equal) \in Equal /\ \A j \in Equal : Min(Equal) <= j
    <2> HIDE DEF Equal
    <2> QED
      BY <1>1, MinIsLeast
  <1>3. First(found, i) = Min(Equal)
    BY DEF First
  <1> HIDE DEF Equal
  <1>4. First(found, i) \in Equal /\ \A j \in Equal : First(found, i) <= j
    BY <1>2, <1>3
  <1>5. First(found, i) \in Nat
    BY <1>1, <1>4
  <1>6. First(found, i) \in Earlier(found, i)
    BY <1>4, <1>5 DEF Earlier, Equal
  <1> QED
    BY <1>4, <1>6 DEF Equal

LEMMA ValuesAreFinite ==
  ASSUME NEW found, NEW i \in Nat \ {0}
  PROVE  IsFiniteSet(Values(found, i)) /\ Cardinality(Values(found, i)) \in 1 .. i
  <1> DEFINE D == Earlier(found, i)
             f == [j \in 1 .. i |-> Value(found, j)]
             T == {f[j] : j \in D}
  <1>1. D \in SUBSET (1 .. i)
    BY DEF Earlier, SameType
  <1>2. IsFiniteSet(1 .. i) /\ Cardinality(1 .. i) = i
    <2>1. 1 \in Int /\ i \in Int /\ (IF 1 > i THEN 0 ELSE i - 1 + 1) = i
      OBVIOUS
    <2> QED
      BY <2>1, FS_Interval
  <1>3. IsFiniteSet(D) /\ Cardinality(D) <= i
    <2> HIDE DEF D
    <2> QED
      BY <1>1, <1>2, FS_Subset
  <1>4. IsFiniteSet(T) /\ Cardinality(T) <= Cardinality(D)
    <2> HIDE DEF D, f
    <2> QED
      BY <1>3, ImageIsFinite
  <1>5. T = Values(found, i)
    BY <1>1 DEF Values
  <1>6. Values(found, i) # {}
    BY FirstOfValue DEF Values
  <1>7. Cardinality(Values(found, i)) \in Nat /\ Cardinality(Values(found, i)) # 0
    BY <1>4, <1>5, <1>6, FS_CardinalityType, FS_EmptySet
  <1>8. Cardinality(D) \in Nat
    BY <1>3, FS_CardinalityType
  <1> HIDE DEF D, T
  <1> QED
    BY <1>3, <1>4, <1>5, <1>7, <1>8

LEMMA IndexIsCount ==
  ASSUME NEW found, NEW i
  PROVE  Index(found, i) = Cardinality(Values(found, i))
  BY DEF Index, Values, Earlier, First, SameType, Value

\* Two spans of one type with one index have one value.
LEMMA IndexSeparatesValues ==
  ASSUME NEW found, NEW i \in Nat \ {0}, NEW j \in Nat \ {0},
         found[i].type = found[j].type, Index(found, i) = Index(found, j)
  PROVE  Value(found, i) = Value(found, j)
  <1>1. ASSUME NEW x \in Nat \ {0}, NEW y \in Nat \ {0},
               found[x].type = found[y].type, Index(found, x) = Index(found, y)
        PROVE  ~(First(found, x) < First(found, y))
    <2> SUFFICES ASSUME First(found, x) < First(found, y) PROVE FALSE
      OBVIOUS
    <2> DEFINE p == First(found, x)
               q == First(found, y)
    <2>1. /\ p \in 1 .. x /\ q \in 1 .. y
          /\ found[p].type = found[x].type /\ found[q].type = found[y].type
          /\ Value(found, p) = Value(found, x) /\ Value(found, q) = Value(found, y)
      BY FirstOfValue DEF Earlier, SameType
    <2>2. Earlier(found, x) \subseteq Earlier(found, y)
      BY <1>1, <2>1 DEF Earlier, SameType
    <2>3. Values(found, x) \in SUBSET Values(found, y)
      BY <2>2 DEF Values
    <2>4. Value(found, y) \in Values(found, y)
      BY <2>1, FirstOfValue DEF Values
    <2>5. Value(found, y) \notin Values(found, x)
      <3> SUFFICES ASSUME NEW k \in Earlier(found, x), Value(found, k) = Value(found, y)
                   PROVE  FALSE
        BY DEF Values
      <3>1. k \in Earlier(found, y) /\ k <= p /\ k \in Nat
        BY <2>2 DEF Earlier, SameType
      <3>2. q <= k
        BY <3>1, FirstOfValue DEF Earlier
      <3> QED
        BY <2>1, <3>1, <3>2
    <2>6. Cardinality(Values(found, x)) = Cardinality(Values(found, y))
      BY <1>1, IndexIsCount
    <2>7. Values(found, x) = Values(found, y)
      BY <2>3, <2>6, ValuesAreFinite, FS_Subset
    <2> QED
      BY <2>4, <2>5, <2>7
  <1>2. First(found, i) \in Nat /\ First(found, j) \in Nat
    BY FirstOfValue DEF Earlier, SameType
  <1>3. First(found, i) = First(found, j)
    BY <1>1, <1>2
  <1> QED
    BY <1>3, FirstOfValue

----------------------------------------------------------------------------
(* The spans of the pipeline *)

LEMMA ReportsAreClean ==
  ASSUME NEW blocks, NEW reports \in Reports(blocks), NEW b \in DOMAIN blocks
  PROVE  /\ IsFiniteSet(reports[b])
         /\ \A s \in reports[b] : /\ s.start \in Nat /\ s.end \in Nat /\ s.start < s.end
                                   /\ s.end <= Len(blocks[b])
         /\ \A s, u \in reports[b] : s.start = u.start /\ s.end = u.end => s = u
  <1> DEFINE longest == Max({Len(blocks[c]) : c \in DOMAIN blocks})
             all == {s \in [start : 0 .. longest, end : 0 .. longest, type : Types \cup {Unlisted}] :
                       s.start < s.end}
             lists == {ToSet(l) : l \in UNION {[1 .. k -> all] : k \in 0 .. MaxFound}}
             clean == {r \in lists : \A s, u \in r : s.start = u.start /\ s.end = u.end => s = u}
  <1>1. reports[b] \in clean
    <2>1. reports \in [DOMAIN blocks -> clean]
      BY DEF Reports
    <2> QED
      BY <2>1
  <1>2. PICK k \in 0 .. MaxFound : \E l \in [1 .. k -> all] : reports[b] = ToSet(l)
    <2> HIDE DEF all
    <2> QED
      BY <1>1
  <1> PICK l \in [1 .. k -> all] : reports[b] = ToSet(l)
    <2> HIDE DEF all
    <2> QED
      BY <1>2
  <1>3. IsFiniteSet(reports[b])
    <2>1. IsFiniteSet(1 .. k)
      BY FS_Interval
    <2>2. reports[b] = {l[i] : i \in 1 .. k}
      BY DEF ToSet
    <2> HIDE DEF all
    <2> QED
      BY <2>1, <2>2, ImageIsFinite
  <1>4. reports[b] \subseteq all
    <2> HIDE DEF all
    <2> QED
      BY DEF ToSet
  <1>5. \A s \in all : s.start \in Nat /\ s.end \in Nat /\ s.start < s.end
    <2> HIDE DEF longest
    <2> QED
      OBVIOUS
  <1>6. \A s \in reports[b] : s.end <= Len(blocks[b])
    BY DEF Reports
  <1> HIDE DEF all, lists
  <1> QED
    BY <1>1, <1>3, <1>4, <1>5, <1>6

LEMMA ResolvedSpans ==
  ASSUME NEW blocks, NEW reports \in Reports(blocks), NEW b \in DOMAIN blocks, IsText(blocks[b])
  PROVE  LET R == Resolve(reports[b])
         IN  /\ R \in SUBSET reports[b]
             /\ \A s, u \in R : s.start < u.start => s.end <= u.start
             /\ \A s, u \in R : s.start = u.start => s = u
             /\ \A s \in R : s.type \in Types
  <1> DEFINE report == reports[b]
             R == Resolve(report)
             widest == [p \in {s.start : s \in report} |->
                          Max({s.end : s \in {u \in report : u.start = p}})]
             n == Len(blocks[b])
  <1>1. /\ \A s \in report : s.start \in Nat /\ s.end \in Nat /\ s.start < s.end /\ s.end <= n
        /\ \A s, u \in report : s.start = u.start /\ s.end = u.end => s = u
    BY ReportsAreClean
  <1>2. n \in Nat
    BY TextHasLength
  <1>3. R = {s \in report : s.start \in Leftmost(widest) /\ s.end = widest[s.start] /\ s.type \in Types}
    BY DEF Resolve
  <1>4. DOMAIN widest = {s.start : s \in report}
    OBVIOUS
  <1> HIDE DEF R, widest, report, n
  <1>5. DOMAIN widest \in SUBSET (0 .. n)
    BY <1>1, <1>2, <1>4
  <1>6. Leftmost(widest) \in SUBSET DOMAIN widest /\ Scanned(widest, Leftmost(widest))
    BY <1>2, <1>5, LeftmostIsScanned
  <1>7. ASSUME NEW s \in R, NEW u \in R, s.start < u.start PROVE s.end <= u.start
    BY <1>3, <1>6, <1>7 DEF Scanned
  <1>8. ASSUME NEW s \in R, NEW u \in R, s.start = u.start PROVE s = u
    BY <1>1, <1>3, <1>8
  <1>9. R \in SUBSET report /\ \A s \in R : s.type \in Types
    BY <1>3
  <1> QED
    BY <1>7, <1>8, <1>9 DEF R, report

\* A span of the pipeline stands in its block.
SpanInBlock(x, blocks) ==
  /\ x.block \in 1 .. Len(blocks)
  /\ x.start \in Nat /\ x.end \in Nat /\ x.start < x.end /\ x.end <= Len(blocks[x.block])
  /\ x.original = Slice(blocks[x.block], x.start, x.end) /\ IsText(x.original)
  /\ x.type \in Types

LEMMA DetectedSpans ==
  ASSUME NEW blocks, IsText(blocks), \A b \in DOMAIN blocks : IsText(blocks[b]),
         NEW reports \in Reports(blocks)
  PROVE  LET D == Detected(blocks, reports)
         IN  /\ IsFiniteSet(D)
             /\ \A x \in D : SpanInBlock(x, blocks)
             /\ \A x, y \in D : x = y \/ Precedes(x, y) \/ Precedes(y, x)
             /\ \A x, y \in D : x.block = y.block /\ x.start < y.start => x.end <= y.start
  <1> DEFINE record(b, s) == [block |-> b, start |-> s.start, end |-> s.end, type |-> s.type,
                              original |-> Slice(blocks[b], s.start, s.end)]
             inBlock(b) == {record(b, s) : s \in Resolve(reports[b])}
             D == Detected(blocks, reports)
  <1>1. Len(blocks) \in Nat /\ DOMAIN blocks = 1 .. Len(blocks)
    BY TextHasLength
  <1>2. D = UNION {inBlock(b) : b \in 1 .. Len(blocks)}
    BY DEF Detected
  <1>3. ASSUME NEW b \in 1 .. Len(blocks)
        PROVE  /\ Resolve(reports[b]) \in SUBSET reports[b]
               /\ \A s, u \in Resolve(reports[b]) : s.start < u.start => s.end <= u.start
               /\ \A s, u \in Resolve(reports[b]) : s.start = u.start => s = u
               /\ \A s \in Resolve(reports[b]) : s.type \in Types
    BY <1>1, ResolvedSpans
  <1>4. ASSUME NEW b \in 1 .. Len(blocks) PROVE IsFiniteSet(inBlock(b))
    <2> DEFINE f == [s \in Resolve(reports[b]) |-> record(b, s)]
    <2>1. IsFiniteSet(Resolve(reports[b]))
      BY <1>1, <1>3, ReportsAreClean, FS_Subset
    <2>2. inBlock(b) = {f[s] : s \in Resolve(reports[b])}
      OBVIOUS
    <2> HIDE DEF f, inBlock
    <2> QED
      BY <2>1, <2>2, ImageIsFinite
  <1>5. IsFiniteSet(D)
    <2> DEFINE f == [b \in 1 .. Len(blocks) |-> inBlock(b)]
               U == {f[b] : b \in 1 .. Len(blocks)}
    <2>1. IsFiniteSet(1 .. Len(blocks))
      BY <1>1, FS_Interval
    <2>2. \A u \in U : IsFiniteSet(u)
      BY <1>4
    <2>3. D = UNION U
      BY <1>2
    <2>4. IsFiniteSet(U)
      <3> HIDE DEF f
      <3> QED
        BY <2>1, ImageIsFinite
    <2> HIDE DEF U, D
    <2> QED
      BY <2>2, <2>3, <2>4, FS_UNION
  <1>6. ASSUME NEW x \in D
        PROVE  \E b \in 1 .. Len(blocks) : \E s \in Resolve(reports[b]) : x = record(b, s)
    BY <1>2
  <1>7. ASSUME NEW x \in D PROVE SpanInBlock(x, blocks)
    <2>1. PICK b \in 1 .. Len(blocks) : \E s \in Resolve(reports[b]) : x = record(b, s)
      BY <1>6
    <2> PICK s \in Resolve(reports[b]) : x = record(b, s)
      BY <2>1
    <2>2. s.start \in Nat /\ s.end \in Nat /\ s.start < s.end /\ s.end <= Len(blocks[b])
      BY <1>1, <1>3, ReportsAreClean
    <2>3. IsText(Slice(blocks[b], s.start, s.end))
      <3>1. s.start \in Int /\ s.end \in Int
        BY <2>2
      <3> QED
        BY <1>1, <3>1, SliceIsText
    <2>4. /\ x.block = b /\ x.start = s.start /\ x.end = s.end
          /\ x.original = Slice(blocks[b], s.start, s.end) /\ x.type = s.type
      OBVIOUS
    <2>5. s.type \in Types
      BY <1>3
    <2> HIDE DEF record
    <2> QED
      BY <2>1, <2>2, <2>3, <2>4, <2>5 DEF SpanInBlock
  <1>8. ASSUME NEW x \in D, NEW y \in D, x.block = y.block
        PROVE  /\ x.start < y.start => x.end <= y.start
               /\ x.start = y.start => x = y
    <2>1. PICK b \in 1 .. Len(blocks) : \E s \in Resolve(reports[b]) : x = record(b, s)
      BY <1>6
    <2> PICK s \in Resolve(reports[b]) : x = record(b, s)
      BY <2>1
    <2>2. PICK c \in 1 .. Len(blocks) : \E u \in Resolve(reports[c]) : y = record(c, u)
      BY <1>6
    <2> PICK u \in Resolve(reports[c]) : y = record(c, u)
      BY <2>2
    <2>3. b = c /\ x.start = s.start /\ x.end = s.end /\ y.start = u.start
      BY <1>8
    <2>4. /\ s.start < u.start => s.end <= u.start
          /\ s.start = u.start => s = u
      BY <1>3, <2>3
    <2>5. s = u => x = y
      BY <2>3
    <2> HIDE DEF record
    <2> QED
      BY <2>3, <2>4, <2>5
  <1> HIDE DEF D
  <1>9. \A x, y \in D : x = y \/ Precedes(x, y) \/ Precedes(y, x)
    <2> SUFFICES ASSUME NEW x \in D, NEW y \in D, ~Precedes(x, y), ~Precedes(y, x) PROVE x = y
      OBVIOUS
    <2>1. /\ x.block \in Int /\ y.block \in Int
          /\ x.start \in Int /\ y.start \in Int
      BY <1>7 DEF SpanInBlock
    <2>2. x.block = y.block /\ x.start = y.start
      BY <2>1 DEF Precedes
    <2> QED
      BY <1>8, <2>2
  <1> QED
    BY <1>5, <1>7, <1>8, <1>9 DEF D

LEMMA FoundSpans ==
  ASSUME NEW blocks, IsText(blocks), \A b \in DOMAIN blocks : IsText(blocks[b]),
         NEW reports \in Reports(blocks)
  PROVE  LET found == Found(blocks, reports)
         IN  /\ IsText(found)
             /\ \A i \in 1 .. Len(found) : SpanInBlock(found[i], blocks)
             /\ \A i, j \in 1 .. Len(found) : i < j =>
                  \/ found[i].block < found[j].block
                  \/ found[i].block = found[j].block /\ found[i].end <= found[j].start
  <1> DEFINE D == Detected(blocks, reports)
             found == Found(blocks, reports)
             n == Cardinality(D)
             R == {p \in D \X D : Precedes(p[1], p[2])}
             nth(k) == CHOOSE x \in D : Cardinality({y \in D : Precedes(y, x)}) = k - 1
  <1>1. /\ IsFiniteSet(D)
        /\ \A x \in D : SpanInBlock(x, blocks)
        /\ \A x, y \in D : x = y \/ Precedes(x, y) \/ Precedes(y, x)
        /\ \A x, y \in D : x.block = y.block /\ x.start < y.start => x.end <= y.start
    BY DetectedSpans
  <1>2. n \in Nat
    BY <1>1, FS_CardinalityType
  <1>3. found = [k \in 1 .. n |-> nth(k)]
    BY DEF Found, InOrder
  <1> HIDE DEF D, found
  <1>4. \A x, y \in D : <<x, y>> \in R <=> Precedes(x, y)
    OBVIOUS
  <1>5. \A x \in D : Below(D, R, x) = {y \in D : Precedes(y, x)}
    BY DEF Below
  <1>6. Orders(R, D)
    <2>1. \A x \in D : ~Precedes(x, x)
      BY <1>1 DEF Precedes, SpanInBlock
    <2>2. \A x, y, z \in D : Precedes(x, y) /\ Precedes(y, z) => Precedes(x, z)
      <3> SUFFICES ASSUME NEW x \in D, NEW y \in D, NEW z \in D, Precedes(x, y), Precedes(y, z)
                   PROVE  Precedes(x, z)
        OBVIOUS
      <3>1. /\ x.block \in Int /\ y.block \in Int /\ z.block \in Int
            /\ x.start \in Int /\ y.start \in Int /\ z.start \in Int
        BY <1>1 DEF SpanInBlock
      <3> QED
        BY <3>1 DEF Precedes
    <2> HIDE DEF R
    <2> QED
      BY <1>1, <1>4, <2>1, <2>2 DEF Orders
  <1> HIDE DEF R
  <1>7. ASSUME NEW k \in 1 .. n
        PROVE  nth(k) \in D /\ Cardinality({y \in D : Precedes(y, nth(k))}) = k - 1
    <2>1. PICK x \in D : Cardinality(Below(D, R, x)) = k - 1
      BY <1>1, <1>6, EveryRankOccurs
    <2>2. Cardinality({y \in D : Precedes(y, x)}) = k - 1
      BY <1>5, <2>1
    <2> QED
      BY <2>2
  <1> HIDE DEF nth
  <1>8. IsText(found) /\ Len(found) = n
    <2>1. found = [k \in 1 .. n |-> found[k]]
      BY <1>3
    <2> QED
      BY <1>2, <2>1, FunctionIsText
  <1>9. \A k \in 1 .. n : found[k] \in D /\ Cardinality(Below(D, R, found[k])) = k - 1
    <2> SUFFICES ASSUME NEW k \in 1 .. n
                 PROVE  found[k] \in D /\ Cardinality(Below(D, R, found[k])) = k - 1
      OBVIOUS
    <2>1. found[k] = nth(k)
      BY <1>3
    <2> QED
      BY <1>5, <1>7, <2>1
  <1>10. Ranks(found, D, R)
    BY <1>9 DEF Ranks
  <1>11. \A i, j \in 1 .. n : i < j => <<found[i], found[j]>> \in R
    <2> HIDE DEF n
    <2> QED
      BY <1>1, <1>6, <1>10, RanksAreAscending DEF n
  <1>12. ASSUME NEW i \in 1 .. n, NEW j \in 1 .. n, i < j
         PROVE  \/ found[i].block < found[j].block
                \/ found[i].block = found[j].block /\ found[i].end <= found[j].start
    <2>1. Precedes(found[i], found[j])
      BY <1>4, <1>9, <1>11, <1>12
    <2> QED
      BY <1>1, <1>9, <2>1 DEF Precedes
  <1>13. \A i \in 1 .. n : SpanInBlock(found[i], blocks)
    BY <1>1, <1>9
  <1> QED
    BY <1>8, <1>12, <1>13 DEF found

SpanTyped(s) ==
  /\ DOMAIN s = {"type", "original", "replacement", "start", "end", "manual", "reverted"}
  /\ s.start \in Int /\ s.end \in Int
  /\ IsText(s.original)
  /\ s.type \in Types

LEMMA MovedSpan ==
  ASSUME NEW s, SpanTyped(s), NEW d \in Int
  PROVE  LET q == Move(s, d)
         IN  /\ SpanTyped(q)
             /\ q.start = s.start + d /\ q.end = s.end + d
             /\ q.type = s.type /\ q.original = s.original /\ q.replacement = s.replacement
             /\ q.manual = s.manual /\ q.reverted = s.reverted
  BY DEF Move, SpanTyped

\* Every placeholder has the type of its span and an index that was given out.
Indexed ==
  \A i \in DOMAIN spans :
    \E n \in 1 .. Len(spans) : spans[i].replacement = Placeholder(spans[i].type, n)

IInv ==
  /\ IsText(text) /\ IsText(spans)
  /\ \A i \in DOMAIN spans : SpanTyped(spans[i])
  /\ Indexed
  /\ OneValuePerPlaceholder

LEMMA InitHolds == Init => IInv
  <1> SUFFICES ASSUME Init PROVE IInv
    OBVIOUS
  <1>1. PICK blocks \in Documents : \E reports \in Reports(blocks) :
          LET found == Found(blocks, reports)
          IN  /\ text = Join([b \in 1 .. Len(blocks) |-> RedactBlock(blocks, found, b)])
              /\ spans = [i \in 1 .. Len(found) |-> PipelineSpan(blocks, found, i)]
    BY DEF Init
  <1> PICK reports \in Reports(blocks) :
          LET found == Found(blocks, reports)
          IN  /\ text = Join([b \in 1 .. Len(blocks) |-> RedactBlock(blocks, found, b)])
              /\ spans = [i \in 1 .. Len(found) |-> PipelineSpan(blocks, found, i)]
    BY <1>1
  <1> DEFINE found == Found(blocks, reports)
             lines == [b \in 1 .. Len(blocks) |-> RedactBlock(blocks, found, b)]
  <1>2. IsText(blocks) /\ \A b \in DOMAIN blocks : IsText(blocks[b])
    BY DocumentsAreTexts
  <1>3. Len(blocks) \in Nat /\ DOMAIN blocks = 1 .. Len(blocks)
    BY <1>2, TextHasLength
  <1>4. /\ IsText(found)
        /\ \A i \in 1 .. Len(found) :
             /\ found[i].block \in 1 .. Len(blocks)
             /\ found[i].start \in Int /\ found[i].end \in Int
             /\ IsText(found[i].original)
             /\ found[i].type \in Types
    BY <1>2, FoundSpans DEF SpanInBlock
  <1>5. text = Join(lines) /\ spans = [i \in 1 .. Len(found) |-> PipelineSpan(blocks, found, i)]
    OBVIOUS
  <1> HIDE DEF found
  <1>6. Len(found) \in Nat /\ DOMAIN found = 1 .. Len(found)
    BY <1>4, TextHasLength
  <1>7. IsText(text)
    <2>1. ASSUME NEW b \in 1 .. Len(blocks) PROVE IsText(RedactBlock(blocks, found, b))
      <3> DEFINE changes == {[start |-> found[i].start, end |-> found[i].end,
                              with |-> Replacement(found, i)]
                               : i \in {j \in DOMAIN found : found[j].block = b}}
      <3>1. \A e \in changes : IsText(e.with)
        BY PlaceholderIsText DEF Replacement
      <3>2. RedactBlock(blocks, found, b) = Splice(blocks[b], changes)
        BY DEF RedactBlock
      <3> HIDE DEF changes
      <3> QED
        BY <1>2, <1>3, <3>1, <3>2, SpliceIsText
    <2>2. lines = [b \in 1 .. Len(blocks) |-> lines[b]] /\ DOMAIN lines = 1 .. Len(blocks)
      OBVIOUS
    <2>3. \A b \in DOMAIN lines : IsText(lines[b])
      BY <2>1
    <2> HIDE DEF lines
    <2> QED
      BY <1>3, <1>5, <2>2, <2>3, FunctionIsText, JoinIsText
  <1>8. IsText(spans) /\ Len(spans) = Len(found) /\ DOMAIN spans = 1 .. Len(found)
    <2>1. spans = [i \in 1 .. Len(found) |-> spans[i]]
      BY <1>5
    <2> QED
      BY <1>6, <2>1, FunctionIsText
  <1>9. ASSUME NEW i \in 1 .. Len(found) PROVE SpanTyped(spans[i])
    <2>1. Offset(blocks, found[i].block) \in Int
      <3> DEFINE g == [c \in DOMAIN blocks |-> Len(blocks[c]) + 1]
                 m == found[i].block - 1
      <3>1. m \in Nat /\ \A c \in 1 .. m : g[c] \in Int
        <4>1. m \in Nat /\ m <= Len(blocks)
          BY <1>3, <1>4
        <4>2. \A c \in DOMAIN blocks : Len(blocks[c]) \in Nat
          BY <1>2, TextHasLength
        <4> QED
          BY <1>3, <4>1, <4>2
      <3>2. Offset(blocks, found[i].block) = SumUpTo(m, g)
        BY DEF Offset
      <3> HIDE DEF g, m
      <3> QED
        BY <3>1, <3>2, SumIsInt
    <2>2. Shift(found, i) \in Int
      <3> DEFINE g == [j \in DOMAIN found |-> Growth(found, j)]
                 m == i - 1
      <3>1. m \in Nat /\ m <= Len(found)
        BY <1>6
      <3>2. \A j \in 1 .. Len(found) : Growth(found, j) \in Int
        BY <1>4, PlaceholderIsText DEF Growth, Replacement
      <3>3. \A j \in 1 .. m : g[j] \in Int
        BY <1>6, <3>1, <3>2
      <3>4. Shift(found, i) = SumUpTo(m, g)
        BY DEF Shift
      <3> HIDE DEF g, m
      <3> QED
        BY <3>1, <3>3, <3>4, SumIsInt
    <2>3. Len(Replacement(found, i)) = 2
      BY PlaceholderIsText DEF Replacement
    <2>4. spans[i] = PipelineSpan(blocks, found, i)
      BY <1>5
    <2> DEFINE start == Offset(blocks, found[i].block) + found[i].start + Shift(found, i)
    <2>5. start \in Int
      BY <1>4, <2>1, <2>2
    <2>6. spans[i] = [type |-> found[i].type, original |-> found[i].original,
                      replacement |-> Replacement(found, i),
                      start |-> start, end |-> start + Len(Replacement(found, i)),
                      manual |-> FALSE, reverted |-> FALSE]
      BY <2>4 DEF PipelineSpan
    <2> HIDE DEF start
    <2>7. DOMAIN spans[i] = {"type", "original", "replacement", "start", "end", "manual", "reverted"}
      BY <2>6
    <2>8. spans[i].start = start /\ spans[i].end = start + Len(Replacement(found, i))
      BY <2>6
    <2>9. spans[i].original = found[i].original
      BY <2>6
    <2>10. spans[i].start \in Int /\ spans[i].end \in Int
      BY <2>3, <2>5, <2>8
    <2>11. IsText(spans[i].original)
      BY <1>4, <2>9
    <2>12. spans[i].type \in Types
      BY <1>4, <2>6
    <2> QED
      BY <2>7, <2>10, <2>11, <2>12 DEF SpanTyped
  <1>10. ASSUME NEW i \in 1 .. Len(found)
         PROVE  /\ Index(found, i) \in 1 .. Len(found)
                /\ spans[i].type = found[i].type
                /\ spans[i].original = found[i].original
                /\ spans[i].replacement = Placeholder(found[i].type, Index(found, i))
    <2>1. i \in Nat \ {0}
      OBVIOUS
    <2>2. Index(found, i) \in 1 .. Len(found)
      BY <1>6, <2>1, ValuesAreFinite, IndexIsCount
    <2>3. spans[i] = PipelineSpan(blocks, found, i)
      BY <1>5
    <2> QED
      BY <2>2, <2>3 DEF PipelineSpan, Replacement
  <1>11. Indexed
    <2> SUFFICES ASSUME NEW i \in 1 .. Len(found)
                 PROVE  \E n \in 1 .. Len(spans) :
                          spans[i].replacement = Placeholder(spans[i].type, n)
      BY <1>8 DEF Indexed
    <2>1. Index(found, i) \in 1 .. Len(spans)
      BY <1>8, <1>10
    <2>2. spans[i].replacement = Placeholder(spans[i].type, Index(found, i))
      BY <1>10
    <2> QED
      BY <2>1, <2>2
  <1>12. OneValuePerPlaceholder
    <2> SUFFICES ASSUME NEW i \in 1 .. Len(found), NEW j \in 1 .. Len(found),
                        spans[i].replacement = spans[j].replacement
                 PROVE  Key(spans[i].original) = Key(spans[j].original)
      BY <1>8 DEF OneValuePerPlaceholder
    <2>1. found[i].type = found[j].type /\ Index(found, i) = Index(found, j)
      <3>1. spans[i].replacement = Placeholder(found[i].type, Index(found, i))
        BY <1>10
      <3>2. spans[j].replacement = Placeholder(found[j].type, Index(found, j))
        BY <1>10
      <3> QED
        BY <3>1, <3>2, PlaceholderIsInjective
    <2>2. i \in Nat \ {0} /\ j \in Nat \ {0}
      OBVIOUS
    <2>3. Value(found, i) = Value(found, j)
      BY <2>1, <2>2, IndexSeparatesValues
    <2> QED
      BY <1>10, <2>3 DEF Value
  <1> QED
    BY <1>7, <1>8, <1>9, <1>11, <1>12 DEF IInv

----------------------------------------------------------------------------
(* The edits *)

\* A manual redaction takes the placeholder of its value or one that no span has.
LEMMA ManualPlaceholderIsFree ==
  ASSUME IInv, NEW type, NEW f
  PROVE  LET r == ManualPlaceholder(type, f)
         IN  /\ \E n \in 1 .. (Len(spans) + 1) : r = Placeholder(type, n)
             /\ \A i \in DOMAIN spans : spans[i].replacement = r => Key(spans[i].original) = Key(f)
  <1> DEFINE r == ManualPlaceholder(type, f)
             known == {i \in DOMAIN spans : /\ spans[i].manual /\ spans[i].type = type
                                            /\ Key(spans[i].original) = Key(f)}
             taken == {n \in 1 .. Len(spans) : \E i \in DOMAIN spans :
                         spans[i].type = type /\ spans[i].replacement = Placeholder(type, n)}
  <1>1. Len(spans) \in Nat /\ DOMAIN spans = 1 .. Len(spans)
    BY TextHasLength DEF IInv
  <1>2. r = IF known # {} THEN spans[Min(known)].replacement
            ELSE Placeholder(type, 1 + Max({0} \cup taken))
    BY DEF ManualPlaceholder
  <1>3. CASE known # {}
    <2>1. known \in SUBSET Nat
      BY <1>1
    <2>2. Min(known) \in known
      <3> HIDE DEF known
      <3> QED
        BY <1>3, <2>1, MinIsLeast
    <2> PICK k \in known : k = Min(known)
      BY <2>2
    <2>3. k \in DOMAIN spans /\ spans[k].type = type /\ Key(spans[k].original) = Key(f)
      OBVIOUS
    <2>4. r = spans[k].replacement
      BY <1>2, <1>3
    <2>5. PICK n \in 1 .. Len(spans) : spans[k].replacement = Placeholder(spans[k].type, n)
      BY <2>3 DEF IInv, Indexed
    <2>6. n \in 1 .. (Len(spans) + 1) /\ r = Placeholder(type, n)
      BY <1>1, <2>3, <2>4, <2>5
    <2>7. \A i \in DOMAIN spans : spans[i].replacement = r => Key(spans[i].original) = Key(f)
      BY <2>3, <2>4 DEF IInv, OneValuePerPlaceholder
    <2> HIDE DEF r
    <2> QED
      BY <2>6, <2>7 DEF r
  <1>4. CASE known = {}
    <2> DEFINE S == {0} \cup taken
               m == Max(S)
    <2>1. S \in SUBSET Nat /\ S # {} /\ \A n \in S : n <= Len(spans)
      BY <1>1
    <2>2. m \in S /\ \A n \in S : n <= m
      <3> HIDE DEF S
      <3> QED
        BY <1>1, <2>1, MaxIsGreatest
    <2>3. m \in Nat /\ m <= Len(spans)
      BY <2>1, <2>2
    <2>4. r = Placeholder(type, 1 + m)
      BY <1>2, <1>4
    <2> HIDE DEF m, r, S
    <2>5. 1 + m \in 1 .. (Len(spans) + 1)
      BY <1>1, <2>3
    <2>6. ASSUME NEW i \in DOMAIN spans, spans[i].replacement = r PROVE FALSE
      <3>1. PICK n \in 1 .. Len(spans) : spans[i].replacement = Placeholder(spans[i].type, n)
        BY DEF IInv, Indexed
      <3>2. Placeholder(spans[i].type, n) = Placeholder(type, 1 + m)
        BY <2>4, <2>6, <3>1
      <3>3. spans[i].type = type /\ n = 1 + m
        BY <3>2, PlaceholderIsInjective
      <3>4. n \in S
        BY <3>1, <3>3 DEF S
      <3> QED
        BY <2>2, <2>3, <3>3, <3>4
    <2> QED
      BY <2>4, <2>5, <2>6 DEF r
  <1> QED
    BY <1>3, <1>4

\* A fragment is a text with a character in it.
LEMMA FragmentIsText ==
  ASSUME IInv, NEW f \in Fragments
  PROVE  IsText(f) /\ Len(f) \in Nat /\ Len(f) > 0
  <1>1. PICK p \in 0 .. Len(text), q \in 0 .. Len(text) : f = Slice(text, p, q)
    BY DEF Fragments
  <1>2. IsText(f)
    BY <1>1, SliceIsText DEF IInv
  <1>3. DOMAIN f # {}
    BY DEF Fragments, ToSet
  <1>4. Len(f) \in Nat /\ DOMAIN f = 1 .. Len(f)
    BY <1>2, TextHasLength
  <1> QED
    BY <1>2, <1>3, <1>4

\* How far a manual redaction of f by r moves what begins at p, and the span it
\* makes of the k-th occurrence.
Way(t, f, r, p) == (Len(r) - Len(f)) * Behind(Occurrences(t, f), Len(f), p)
ManualStart(t, f, r, k) == Ascending(Occurrences(t, f))[k] + (k - 1) * (Len(r) - Len(f))
ManualSpan(t, type, f, r, k) ==
  [type |-> type, original |-> f, replacement |-> r,
   start |-> ManualStart(t, f, r, k), end |-> ManualStart(t, f, r, k) + Len(r),
   manual |-> TRUE, reverted |-> FALSE]

\* The spans after a manual redaction: the old ones, moved, and one for each
\* occurrence.
LEMMA RedactedSpans ==
  ASSUME IInv, NEW f \in Fragments, NEW type \in Types, Redact(f, type)
  PROVE  LET r == ManualPlaceholder(type, f)
             n == Len(spans)
             m == Cardinality(Occurrences(text, f))
         IN  /\ n \in Nat /\ m \in Nat /\ m # 0
             /\ IsText(r) /\ Len(r) = 2
             /\ DOMAIN spans = 1 .. n
             /\ IsText(spans') /\ DOMAIN spans' = 1 .. (n + m) /\ Len(spans') = n + m
             /\ \A i \in 1 .. n : /\ Way(text, f, r, spans[i].start) \in Int
                                  /\ spans'[i] = Move(spans[i], Way(text, f, r, spans[i].start))
             /\ \A k \in 1 .. m : ManualStart(text, f, r, k) \in Int
             /\ \A i \in (n + 1) .. (n + m) : spans'[i] = ManualSpan(text, type, f, r, i - n)
  <1> DEFINE found == Occurrences(text, f)
             order == Ascending(found)
             r == ManualPlaceholder(type, f)
             grow == Len(r) - Len(f)
             by(i) == grow * Cardinality({p \in found : p + Len(f) <= spans[i].start})
             old == [i \in DOMAIN spans |-> Move(spans[i], by(i))]
             at(k) == order[k] + (k - 1) * grow
             new == [k \in 1 .. Len(order) |->
                       [type |-> type, original |-> f, replacement |-> r,
                        start |-> at(k), end |-> at(k) + Len(r),
                        manual |-> TRUE, reverted |-> FALSE]]
             n == Len(spans)
             m == Cardinality(found)
  <1>1. spans' = old \o new /\ found # {}
    BY DEF Redact
  <1>2. n \in Nat /\ DOMAIN spans = 1 .. n
    BY TextHasLength DEF IInv
  <1>3. IsText(f) /\ Len(f) \in Nat
    BY FragmentIsText
  <1>4. found \subseteq Int /\ IsFiniteSet(found)
    BY <1>3, OccurrencesAreFinite DEF IInv
  <1>5. m \in Nat /\ m # 0
    BY <1>1, <1>4, FS_CardinalityType, FS_EmptySet
  <1>6. IsText(r) /\ Len(r) = 2
    <2>1. PICK u \in 1 .. (n + 1) : r = Placeholder(type, u)
      BY ManualPlaceholderIsFree
    <2> QED
      BY <2>1, PlaceholderIsText
  <1>7. grow \in Int
    BY <1>3, <1>6
  <1>8. Len(order) = m /\ \A k \in 1 .. m : order[k] \in Int
    <2> HIDE DEF found
    <2> QED
      BY <1>4, AscendingOrder
  <1>9. \A i \in DOMAIN spans : by(i) \in Int
    <2> SUFFICES ASSUME NEW i \in DOMAIN spans PROVE by(i) \in Int
      OBVIOUS
    <2> DEFINE before == {p \in found : p + Len(f) <= spans[i].start}
    <2>1. before \in SUBSET found
      OBVIOUS
    <2>2. Cardinality(before) \in Nat
      <3> HIDE DEF before, found
      <3> QED
        BY <1>4, <2>1, FS_Subset, FS_CardinalityType
    <2> HIDE DEF before, grow
    <2>3. grow * Cardinality(before) \in Int
      BY <1>7, <2>2
    <2> QED
      BY <2>3 DEF before
  <1>10. \A k \in 1 .. m : at(k) \in Int
    <2> HIDE DEF grow, order, m
    <2> QED
      BY <1>5, <1>7, <1>8
  <1>11. IsText(old) /\ Len(old) = n /\ \A i \in 1 .. n : old[i] = Move(spans[i], by(i))
    <2>1. old = [i \in 1 .. n |-> old[i]] /\ \A i \in 1 .. n : old[i] = Move(spans[i], by(i))
      BY <1>2
    <2> HIDE DEF old, n, by
    <2> QED
      BY <1>2, <2>1, FunctionIsText
  <1>12. /\ IsText(new) /\ Len(new) = m
         /\ \A k \in 1 .. m : new[k] = ManualSpan(text, type, f, r, k)
    <2>1. \A k \in 1 .. m : at(k) = ManualStart(text, f, r, k)
      BY DEF ManualStart
    <2> HIDE DEF m, order, at, r
    <2>2. new = [k \in 1 .. m |-> new[k]]
      BY <1>8
    <2>3. \A k \in 1 .. m : new[k] = ManualSpan(text, type, f, r, k)
      BY <1>8, <2>1 DEF ManualSpan
    <2> HIDE DEF new
    <2> QED
      BY <1>5, <2>2, <2>3, FunctionIsText
  <1>13. \A i \in DOMAIN spans : by(i) = Way(text, f, r, spans[i].start)
    BY DEF Way, Behind
  <1>14. \A k \in 1 .. m : at(k) = ManualStart(text, f, r, k)
    BY DEF ManualStart
  <1> HIDE DEF old, new, m, n, r, by, at
  <1>15. spans' = Cat(old, new)
    BY <1>1 DEF Cat
  <1>16. IsText(spans') /\ Len(spans') = n + m
    BY <1>11, <1>12, <1>15, ConcatIsText
  <1>17. /\ \A i \in 1 .. n : spans'[i] = old[i]
         /\ \A i \in (n + 1) .. (n + m) : spans'[i] = new[i - n]
    BY <1>11, <1>12, <1>15, ConcatParts
  <1>18. \A i \in 1 .. n : /\ Way(text, f, r, spans[i].start) \in Int
                           /\ spans'[i] = Move(spans[i], Way(text, f, r, spans[i].start))
    BY <1>2, <1>9, <1>11, <1>13, <1>17
  <1>19. \A i \in (n + 1) .. (n + m) : spans'[i] = ManualSpan(text, type, f, r, i - n)
    <2> SUFFICES ASSUME NEW i \in (n + 1) .. (n + m)
                 PROVE  spans'[i] = ManualSpan(text, type, f, r, i - n)
      OBVIOUS
    <2>1. i - n \in 1 .. m
      BY <1>2, <1>5
    <2> QED
      BY <1>12, <1>17, <2>1
  <1>20. DOMAIN spans' = 1 .. (n + m)
    BY <1>16, TextHasLength
  <1> QED
    BY <1>2, <1>5, <1>6, <1>10, <1>14, <1>16, <1>18, <1>19, <1>20 DEF n, m, r

LEMMA RedactKeeps ==
  ASSUME IInv, NEW f \in Fragments, NEW type \in Types, Redact(f, type)
  PROVE  IInv'
  <1> DEFINE r == ManualPlaceholder(type, f)
             n == Len(spans)
             m == Cardinality(Occurrences(text, f))
  <1>1. /\ n \in Nat /\ m \in Nat /\ m # 0
        /\ IsText(r) /\ Len(r) = 2
        /\ DOMAIN spans = 1 .. n
        /\ IsText(spans') /\ DOMAIN spans' = 1 .. (n + m) /\ Len(spans') = n + m
        /\ \A i \in 1 .. n : /\ Way(text, f, r, spans[i].start) \in Int
                             /\ spans'[i] = Move(spans[i], Way(text, f, r, spans[i].start))
        /\ \A k \in 1 .. m : ManualStart(text, f, r, k) \in Int
        /\ \A i \in (n + 1) .. (n + m) : spans'[i] = ManualSpan(text, type, f, r, i - n)
    BY RedactedSpans
  <1>2. n \in Nat /\ DOMAIN spans = 1 .. n
    BY <1>1
  <1>3. IsText(f)
    BY FragmentIsText
  <1>6. m \in Nat /\ m # 0
    BY <1>1
  <1>7. PICK u \in 1 .. (n + 1) : r = Placeholder(type, u)
    BY ManualPlaceholderIsFree
  <1>8. \A i \in DOMAIN spans : spans[i].replacement = r => Key(spans[i].original) = Key(f)
    BY ManualPlaceholderIsFree
  <1>10. IsText(text')
    <2>1. text' = Substitute(text, f, r)
      BY DEF Redact
    <2> HIDE DEF r
    <2> QED
      BY <1>1, <2>1, SubstituteIsText DEF IInv
  <1>18. IsText(spans') /\ Len(spans') = n + m /\ DOMAIN spans' = 1 .. (n + m)
    BY <1>1
  <1> HIDE DEF n, m, r
  <1>20. ASSUME NEW i \in 1 .. (n + m)
         PROVE  /\ SpanTyped(spans'[i])
                /\ i <= n => /\ i \in DOMAIN spans
                             /\ spans'[i].type = spans[i].type
                             /\ spans'[i].original = spans[i].original
                             /\ spans'[i].replacement = spans[i].replacement
                /\ i > n => /\ spans'[i].type = type
                            /\ spans'[i].original = f
                            /\ spans'[i].replacement = r
    <2>1. CASE i <= n
      <3> DEFINE d == Way(text, f, r, spans[i].start)
      <3>1. i \in 1 .. n /\ i \in DOMAIN spans /\ d \in Int /\ spans'[i] = Move(spans[i], d)
        BY <1>1, <2>1
      <3>2. SpanTyped(spans[i])
        BY <3>1 DEF IInv
      <3> HIDE DEF d
      <3>3. /\ SpanTyped(spans'[i])
            /\ spans'[i].type = spans[i].type
            /\ spans'[i].original = spans[i].original
            /\ spans'[i].replacement = spans[i].replacement
        BY <3>1, <3>2, MovedSpan
      <3> QED
        BY <1>2, <2>1, <3>1, <3>3
    <2>2. CASE i > n
      <3> DEFINE at == ManualStart(text, f, r, i - n)
      <3>1. i \in (n + 1) .. (n + m) /\ i - n \in 1 .. m
        BY <1>1, <2>2
      <3>2. at \in Int /\ spans'[i] = ManualSpan(text, type, f, r, i - n)
        BY <1>1, <3>1
      <3> QED
        <4>1. spans'[i] = [type |-> type, original |-> f, replacement |-> r,
                           start |-> at, end |-> at + Len(r), manual |-> TRUE, reverted |-> FALSE]
          BY <3>2 DEF ManualSpan
        <4> HIDE DEF at
        <4>2. at + Len(r) \in Int
          BY <1>1, <3>2
        <4> QED
          BY <1>1, <1>3, <2>2, <3>2, <4>1, <4>2 DEF SpanTyped
    <2> QED
      BY <1>1, <2>1, <2>2
  <1>21. Indexed'
    <2> SUFFICES ASSUME NEW i \in 1 .. (n + m)
                 PROVE  \E v \in 1 .. (n + m) :
                          spans'[i].replacement = Placeholder(spans'[i].type, v)
      BY <1>18 DEF Indexed
    <2>1. CASE i <= n
      <3>1. PICK v \in 1 .. n : spans[i].replacement = Placeholder(spans[i].type, v)
        BY <1>20, <2>1 DEF IInv, Indexed, n
      <3>2. v \in 1 .. (n + m)
        BY <1>2, <1>6
      <3>3. spans'[i].replacement = Placeholder(spans'[i].type, v)
        BY <1>20, <2>1, <3>1
      <3> QED
        BY <3>2, <3>3
    <2>2. CASE i > n
      <3>1. u \in 1 .. (n + m)
        BY <1>2, <1>6
      <3>2. spans'[i].replacement = Placeholder(spans'[i].type, u)
        BY <1>7, <1>20, <2>2
      <3> QED
        BY <3>1, <3>2
    <2> QED
      BY <1>2, <2>1, <2>2
  <1>22. OneValuePerPlaceholder'
    <2>1. ASSUME NEW i \in 1 .. (n + m), spans'[i].replacement = r
          PROVE  Key(spans'[i].original) = Key(f)
      <3>1. CASE i <= n
        BY <1>8, <1>20, <2>1, <3>1
      <3>2. CASE i > n
        BY <1>20, <3>2
      <3> QED
        BY <1>2, <3>1, <3>2
    <2>2. ASSUME NEW i \in 1 .. (n + m), NEW j \in 1 .. (n + m),
                 spans'[i].replacement = spans'[j].replacement
          PROVE  Key(spans'[i].original) = Key(spans'[j].original)
      <3>1. CASE i <= n /\ j <= n
        <4>1. spans[i].replacement = spans[j].replacement /\ i \in DOMAIN spans /\ j \in DOMAIN spans
          BY <1>20, <2>2, <3>1
        <4>2. Key(spans[i].original) = Key(spans[j].original)
          BY <4>1 DEF IInv, OneValuePerPlaceholder
        <4>3. spans'[i].original = spans[i].original /\ spans'[j].original = spans[j].original
          BY <1>20, <3>1
        <4> QED
          BY <4>2, <4>3
      <3>2. CASE i > n \/ j > n
        <4>1. spans'[i].replacement = r /\ spans'[j].replacement = r
          BY <1>20, <2>2, <3>2
        <4> QED
          BY <2>1, <4>1
      <3> QED
        BY <1>2, <3>1, <3>2
    <2> QED
      BY <1>18, <2>2 DEF OneValuePerPlaceholder
  <1>23. \A i \in DOMAIN spans' : SpanTyped(spans'[i])
    BY <1>18, <1>20
  <1> QED
    BY <1>10, <1>18, <1>21, <1>22, <1>23 DEF IInv

LEMMA RevertKeeps ==
  ASSUME IInv, NEW i \in DOMAIN spans, Revert(i)
  PROVE  IInv'
  <1> DEFINE s == spans[i]
             grow == Len(s.original) - (s.end - s.start)
             moved(j) == IF j = i THEN [s EXCEPT !.reverted = TRUE, !.end = s.start + Len(s.original)]
                         ELSE IF spans[j].start >= s.end THEN Move(spans[j], grow) ELSE spans[j]
  <1>1. /\ text' = Slice(text, 0, s.start) \o s.original \o Slice(text, s.end, Len(text))
        /\ spans' = [j \in DOMAIN spans |-> moved(j)]
    BY DEF Revert
  <1>2. Len(spans) \in Nat /\ DOMAIN spans = 1 .. Len(spans)
    BY TextHasLength DEF IInv
  <1>3. \A j \in DOMAIN spans : SpanTyped(spans[j])
    BY DEF IInv
  <1>4. Len(s.original) \in Nat /\ grow \in Int
    BY <1>3, TextHasLength DEF SpanTyped
  <1>5. IsText(text')
    <2>1. IsText(Slice(text, 0, s.start)) /\ IsText(s.original)
      <3>1. s.start \in Int /\ IsText(s.original)
        BY <1>3 DEF SpanTyped
      <3>2. IsText(text)
        BY DEF IInv
      <3> QED
        BY <3>1, <3>2, SliceIsText
    <2>2. IsText(Slice(text, s.end, Len(text)))
      <3>1. Len(text) \in Int
        BY TextHasLength DEF IInv
      <3> QED
        BY <1>3, <3>1, SliceIsText DEF IInv, SpanTyped
    <2>3. IsText(Slice(text, 0, s.start) \o s.original)
      BY <2>1, ConcatIsText DEF Cat
    <2>4. IsText((Slice(text, 0, s.start) \o s.original) \o Slice(text, s.end, Len(text)))
      BY <2>2, <2>3, ConcatIsText DEF Cat
    <2> QED
      BY <1>1, <2>4
  <1>6. ASSUME NEW j \in DOMAIN spans
        PROVE  /\ SpanTyped(spans'[j])
               /\ spans'[j].type = spans[j].type
               /\ spans'[j].original = spans[j].original
               /\ spans'[j].replacement = spans[j].replacement
    <2>1. spans'[j] = moved(j) /\ SpanTyped(spans[j]) /\ SpanTyped(s)
      BY <1>1, <1>3
    <2>2. CASE j = i
      <3>1. s.start + Len(s.original) \in Int
        BY <1>4, <2>1 DEF SpanTyped
      <3>2. spans'[j] = [spans[j] EXCEPT !.reverted = TRUE, !.end = s.start + Len(s.original)]
        BY <2>1, <2>2
      <3> QED
        BY <2>1, <3>1, <3>2 DEF SpanTyped
    <2>3. CASE j # i
      <3>1. spans'[j] = Move(spans[j], grow) \/ spans'[j] = spans[j]
        BY <2>1, <2>3
      <3> HIDE DEF grow
      <3> QED
        BY <1>4, <2>1, <3>1 DEF Move, SpanTyped
    <2> QED
      BY <2>2, <2>3
  <1> HIDE DEF moved
  <1>7. IsText(spans') /\ Len(spans') = Len(spans) /\ DOMAIN spans' = DOMAIN spans
    <2>1. DOMAIN spans' = 1 .. Len(spans) /\ spans' = [j \in 1 .. Len(spans) |-> spans'[j]]
      BY <1>1, <1>2
    <2> QED
      BY <1>2, <2>1, FunctionIsText
  <1>8. Indexed'
    BY <1>6, <1>7 DEF IInv, Indexed
  <1>9. OneValuePerPlaceholder'
    BY <1>6, <1>7 DEF IInv, OneValuePerPlaceholder
  <1> QED
    BY <1>5, <1>6, <1>7, <1>8, <1>9 DEF IInv

\* OneValuePerPlaceholder for any documents, detections and edits: what the
\* pipeline and the reviewer replace by one placeholder is one value.
THEOREM PlaceholdersAreUnique == Spec => []OneValuePerPlaceholder
  <1>1. IInv /\ [Next]_vars => IInv'
    <2> SUFFICES ASSUME IInv, [Next]_vars PROVE IInv'
      OBVIOUS
    <2>1. ASSUME NEW f \in Fragments, NEW type \in Types, Redact(f, type) PROVE IInv'
      BY <2>1, RedactKeeps
    <2>2. ASSUME NEW i \in DOMAIN spans, Revert(i) PROVE IInv'
      BY <2>2, RevertKeeps
    <2>3. CASE UNCHANGED vars
      BY <2>3 DEF vars, IInv, Indexed, OneValuePerPlaceholder
    <2> QED
      BY <2>1, <2>2, <2>3 DEF Next
  <1>2. IInv => OneValuePerPlaceholder
    BY DEF IInv
  <1> QED
    BY <1>1, <1>2, InitHolds, PTL DEF Spec

----------------------------------------------------------------------------
(* Where the spans stand *)

Starts(q) == [i \in DOMAIN q |-> q[i].start]
Ends(q) == [i \in DOMAIN q |-> q[i].end]
Originals(q) == [i \in DOMAIN q |-> q[i].original]

\* What stands in the text in the place of a span.
Content(s) == IF s.reverted THEN s.original ELSE s.replacement

\* The spans L of q stand in t where they say, apart from each other, and with
\* their originals put back t is d.
Laid(d, t, q, L) ==
  /\ L \in SUBSET DOMAIN q
  /\ Places(t, L, Starts(q), Ends(q))
  /\ \A i \in L : /\ Slice(t, q[i].start, q[i].end) = Content(q[i])
                  /\ IsText(q[i].original) /\ IsText(q[i].replacement)
                  /\ Len(q[i].original) > 0
  /\ d = Splice(t, Changes(L, Starts(q), Ends(q), Originals(q)))

\* As long as no manual redaction cut into a span in force, such a set holds
\* all of these; and it holds every span if none was cut at all.
PInv ==
  "active" \notin hit =>
    \E L \in SUBSET DOMAIN spans :
      /\ Active \subseteq L
      /\ hit = {} => L = DOMAIN spans
      /\ Laid(document, text, spans, L)

LEMMA ChangesAgree ==
  ASSUME NEW I, NEW a, NEW z, NEW w, NEW b, NEW c, NEW u,
         \A i \in I : a[i] = b[i] /\ z[i] = c[i] /\ w[i] = u[i]
  PROVE  Changes(I, a, z, w) = Changes(I, b, c, u)
  BY DEF Changes

LEMMA PlacesAgree ==
  ASSUME NEW t, NEW I, NEW a, NEW z, NEW b, NEW c, Places(t, I, a, z),
         \A i \in I : a[i] = b[i] /\ z[i] = c[i]
  PROVE  Places(t, I, b, c)
  BY DEF Places

LEMMA FewerPlaces ==
  ASSUME NEW t, NEW J, NEW I \in SUBSET J, NEW a, NEW z, Places(t, J, a, z)
  PROVE  /\ Places(t, I, a, z)
         /\ \A k : Border(J, a, z, k) => Border(I, a, z, k)
  BY DEF Places, Border

\* S builds the text that R builds, on the places J instead of I, and the two
\* agree at every border.
BothBuild(t, J, I, a, z, w, S, R) ==
  /\ Builds(t, J, a, z, w, S)
  /\ Builds(t, I, a, z, w, R)
  /\ S[Len(t)] = R[Len(t)]
  /\ R[Len(t)] = Splice(t, Changes(I, a, z, w))
  /\ \A k \in 0 .. Len(t) : Border(J, a, z, k) => S[k] = R[k]

\* An edit of the places I of t builds the new text on any places J around
\* them whose content it leaves alone.
LEMMA EditIsBuilt ==
  ASSUME NEW t, IsText(t), NEW J, NEW I \in SUBSET J, NEW a, NEW z, NEW w,
         Places(t, J, a, z), \A j \in J : IsText(w[j]),
         \A j \in J \ I : w[j] = Slice(t, a[j], z[j])
  PROVE  \E S, R : BothBuild(t, J, I, a, z, w, S, R)
  <1>1. Places(t, I, a, z) /\ \A i \in I : IsText(w[i])
    BY FewerPlaces
  <1>2. PICK S : Builds(t, J, a, z, w, S)
    BY SpliceIsBuilt
  <1>3. PICK R : Builds(t, I, a, z, w, R) /\ R[Len(t)] = Splice(t, Changes(I, a, z, w))
    BY <1>1, SpliceIsBuilt
  <1>4. \A k \in 0 .. Len(t) : Border(J, a, z, k) => S[k] = R[k]
    BY <1>2, <1>3, PlainPlacesBuildNothing
  <1>5. Border(J, a, z, Len(t))
    BY EndsAreBorders
  <1>6. Len(t) \in 0 .. Len(t)
    BY TextHasLength
  <1> QED
    BY <1>2, <1>3, <1>4, <1>5, <1>6 DEF BothBuild

\* One place [p, q) of t gets another content: what lies before it stays, what
\* lies behind it moves.
LEMMA OneEdit ==
  ASSUME NEW t, NEW i, NEW a, NEW z, NEW w, NEW R,
         NEW I, i \in I, \A j \in I : j = i, Builds(t, I, a, z, w, R)
  PROVE  /\ R[Len(t)] = Cat(Cat(Slice(t, 0, a[i]), w[i]), Slice(t, z[i], Len(t)))
         /\ \A k \in 0 .. Len(t) : k <= a[i] => Len(R[k]) = k
         /\ \A k \in 0 .. Len(t) : z[i] <= k => Len(R[k]) = k + Len(w[i]) - (z[i] - a[i])
  <1>1. \A p, q \in 0 .. Len(t) :
          p <= q /\ (\A k \in (p + 1) .. q : Outside(I, a, z, k)) => R[q] = Cat(R[p], Slice(t, p, q))
    BY StretchIsCopied
  <1>2. \A j \in I : R[z[j]] = Cat(R[a[j]], w[j])
    BY PlaceIsBuilt
  <1>3. /\ IsText(t) /\ IsText(w[i]) /\ R[0] = <<>> /\ \A k \in 0 .. Len(t) : IsText(R[k])
        /\ a[i] \in Nat /\ z[i] \in Nat /\ a[i] < z[i] /\ z[i] <= Len(t)
    BY DEF Builds, Places
  <1>4. Len(t) \in Nat
    BY <1>3, TextHasLength
  <1>5. ASSUME NEW k \in 0 .. Len(t), k <= a[i] PROVE R[k] = Slice(t, 0, k) /\ Len(R[k]) = k
    <2>1. 0 \in 0 .. Len(t) /\ 0 <= k
      BY <1>4
    <2>2. \A x \in (0 + 1) .. k : Outside(I, a, z, x)
      BY <1>3, <1>5 DEF Outside
    <2>3. R[k] = Cat(R[0], Slice(t, 0, k))
      BY <1>1, <2>1, <2>2
    <2>4. IsText(Slice(t, 0, k)) /\ Len(Slice(t, 0, k)) = k - 0
      BY <1>3, <2>1, SliceParts
    <2> QED
      BY <1>3, <2>3, <2>4, EmptyAddsNothing
  <1>6. a[i] \in 0 .. Len(t) /\ z[i] \in 0 .. Len(t) /\ Len(t) \in 0 .. Len(t)
    BY <1>3, <1>4
  <1>7. R[a[i]] = Slice(t, 0, a[i]) /\ Len(R[a[i]]) = a[i]
    BY <1>3, <1>5, <1>6
  <1>8. R[z[i]] = Cat(R[a[i]], w[i]) /\ Len(R[z[i]]) = a[i] + Len(w[i])
    <2>1. R[z[i]] = Cat(R[a[i]], w[i])
      BY <1>2
    <2>2. IsText(R[a[i]])
      BY <1>3, <1>6
    <2> QED
      BY <1>3, <1>7, <2>1, <2>2, ConcatIsText
  <1>9. ASSUME NEW k \in 0 .. Len(t), z[i] <= k
        PROVE  R[k] = Cat(R[z[i]], Slice(t, z[i], k)) /\ Len(R[k]) = k + Len(w[i]) - (z[i] - a[i])
    <2>1. \A x \in (z[i] + 1) .. k : Outside(I, a, z, x)
      BY <1>3, <1>9 DEF Outside
    <2>2. R[k] = Cat(R[z[i]], Slice(t, z[i], k))
      BY <1>1, <1>6, <1>9, <2>1
    <2>3. IsText(Slice(t, z[i], k)) /\ Len(Slice(t, z[i], k)) = k - z[i]
      <3>1. k \in Nat /\ k <= Len(t)
        OBVIOUS
      <3> QED
        BY <1>3, <1>9, <3>1, SliceParts
    <2>4. IsText(R[z[i]])
      BY <1>3, <1>6
    <2>5. Len(R[k]) = Len(R[z[i]]) + Len(Slice(t, z[i], k))
      BY <2>2, <2>3, <2>4, ConcatIsText
    <2>6. Len(w[i]) \in Nat
      BY <1>3, TextHasLength
    <2>7. Len(R[k]) = (a[i] + Len(w[i])) + (k - z[i])
      BY <1>8, <2>3, <2>5
    <2>8. a[i] \in Nat /\ z[i] \in Nat /\ k \in Nat
      BY <1>3
    <2>9. Len(R[k]) = k + Len(w[i]) - (z[i] - a[i])
      BY <2>6, <2>7, <2>8
    <2> QED
      BY <2>2, <2>9
  <1>10. R[Len(t)] = Cat(Cat(Slice(t, 0, a[i]), w[i]), Slice(t, z[i], Len(t)))
    BY <1>3, <1>6, <1>7, <1>8, <1>9
  <1> QED
    BY <1>5, <1>9, <1>10

\* A reverted span has its original in its place, and the places of all others
\* move with their content.
LEMMA RevertKeepsPlaces ==
  ASSUME IInv, PInv, NEW i \in DOMAIN spans, Revert(i)
  PROVE  PInv'
  <1> SUFFICES ASSUME "active" \notin hit' PROVE PInv'
    BY DEF PInv
  <1> DEFINE s == spans[i]
             grow == Len(s.original) - (s.end - s.start)
             moved(j) == IF j = i THEN [s EXCEPT !.reverted = TRUE, !.end = s.start + Len(s.original)]
                         ELSE IF spans[j].start >= s.end THEN Move(spans[j], grow) ELSE spans[j]
  <1>1. /\ text' = Slice(text, 0, s.start) \o s.original \o Slice(text, s.end, Len(text))
        /\ spans' = [j \in DOMAIN spans |-> moved(j)]
        /\ hit' = hit /\ document' = document
        /\ i \in DOMAIN spans /\ i \in Active
    BY DEF Revert
  <1>2. PICK L \in SUBSET DOMAIN spans :
          Active \subseteq L /\ (hit = {} => L = DOMAIN spans) /\ Laid(document, text, spans, L)
    BY <1>1 DEF PInv
  <1> DEFINE a == Starts(spans)
             z == Ends(spans)
             u == Originals(spans)
             w == [j \in DOMAIN spans |-> IF j = i THEN s.original ELSE Content(spans[j])]
             b == Starts(spans')
             c == Ends(spans')
             I == {i}
  <1>3. DOMAIN spans' = DOMAIN spans
    BY <1>1
  <1>4. \A j \in DOMAIN spans : /\ a[j] = spans[j].start /\ z[j] = spans[j].end
                               /\ u[j] = spans[j].original
                               /\ b[j] = spans'[j].start /\ c[j] = spans'[j].end
    BY <1>3 DEF Starts, Ends, Originals
  <1>5. i \in L /\ i \in I /\ I \in SUBSET L
    BY <1>1, <1>2
  <1>6. IsText(text) /\ Places(text, L, a, z)
    BY <1>2 DEF Laid, IInv
  <1>7. \A j \in L : /\ Slice(text, a[j], z[j]) = Content(spans[j])
                    /\ IsText(Content(spans[j])) /\ IsText(u[j]) /\ Len(u[j]) > 0
                    /\ j \in DOMAIN spans
    BY <1>2, <1>4 DEF Laid, Content
  <1>8. /\ w[i] = u[i] /\ \A j \in L \ I : w[j] = Content(spans[j])
        /\ \A j \in L \ I : w[j] = Slice(text, a[j], z[j])
    <2>1. w[i] = u[i]
      BY <1>1, <1>4
    <2>2. \A j \in L \ I : w[j] = Content(spans[j])
      BY <1>7
    <2> QED
      BY <1>7, <2>1, <2>2
  <1>9. \A j \in L : IsText(w[j])
    BY <1>7, <1>8
  <1> HIDE DEF a, z, u, w, b, c, I
  <1>10. PICK S, R : BothBuild(text, L, I, a, z, w, S, R)
    BY <1>5, <1>6, <1>8, <1>9, EditIsBuilt
  <1>10a. /\ Builds(text, L, a, z, w, S)
          /\ Builds(text, I, a, z, w, R)
          /\ S[Len(text)] = R[Len(text)]
          /\ R[Len(text)] = Splice(text, Changes(I, a, z, w))
          /\ \A k \in 0 .. Len(text) : Border(L, a, z, k) => S[k] = R[k]
    BY <1>10 DEF BothBuild
  <1>11. /\ R[Len(text)] = Cat(Cat(Slice(text, 0, a[i]), w[i]), Slice(text, z[i], Len(text)))
         /\ \A k \in 0 .. Len(text) : k <= a[i] => Len(R[k]) = k
         /\ \A k \in 0 .. Len(text) : z[i] <= k => Len(R[k]) = k + Len(w[i]) - (z[i] - a[i])
    <2>1. i \in I /\ \A j \in I : j = i
      BY DEF I
    <2> QED
      BY <1>10a, <2>1, OneEdit
  <1>12. S[Len(text)] = text'
    BY <1>10a, <1>1, <1>4, <1>8, <1>11 DEF Cat
  <1>13. \A j \in L : /\ a[j] \in 0 .. Len(text) /\ z[j] \in 0 .. Len(text) /\ a[j] < z[j]
                     /\ S[a[j]] = R[a[j]] /\ S[z[j]] = R[z[j]]
    <2>1. \A j \in L : Border(L, a, z, a[j]) /\ Border(L, a, z, z[j])
      BY <1>6, EndsAreBorders
    <2>2. \A j \in L : a[j] \in 0 .. Len(text) /\ z[j] \in 0 .. Len(text) /\ a[j] < z[j]
      <3>1. Len(text) \in Nat
        BY <1>6, TextHasLength
      <3> QED
        BY <1>6, <3>1 DEF Places
    <2> QED
      BY <1>10a, <2>1, <2>2
  <1>14. Len(w[i]) \in Nat /\ Len(w[i]) > 0
    BY <1>5, <1>7, <1>8, TextHasLength
  <1>15. grow = Len(w[i]) - (z[i] - a[i]) /\ grow \in Int
    BY <1>1, <1>4, <1>5, <1>8, <1>13, <1>14
  <1>16. ASSUME NEW j \in L
         PROVE  /\ b[j] = Len(S[a[j]]) /\ c[j] = Len(S[z[j]])
                /\ Content(spans'[j]) = w[j]
                /\ spans'[j].original = spans[j].original
                /\ spans'[j].replacement = spans[j].replacement
    <2>1. j \in DOMAIN spans /\ spans'[j] = moved(j) /\ SpanTyped(spans[j]) /\ SpanTyped(s)
      BY <1>1, <1>2 DEF IInv
    <2>2. CASE j = i
      <3>1. spans'[i] = [s EXCEPT !.reverted = TRUE, !.end = s.start + Len(s.original)]
        BY <2>1, <2>2
      <3>2. /\ spans'[i].start = s.start /\ spans'[i].end = s.start + Len(s.original)
            /\ spans'[i].original = s.original /\ spans'[i].replacement = s.replacement
            /\ spans'[i].reverted
        BY <2>1, <3>1 DEF SpanTyped
      <3>3. /\ a[i] \in 0 .. Len(text) /\ z[i] \in 0 .. Len(text)
            /\ S[a[i]] = R[a[i]] /\ S[z[i]] = R[z[i]]
        BY <1>5, <1>13
      <3>4. a[i] \in Int /\ z[i] \in Int
        BY <1>1, <1>4, <2>1, <2>2 DEF SpanTyped
      <3>5. Len(R[a[i]]) = a[i] /\ Len(R[z[i]]) = z[i] + Len(w[i]) - (z[i] - a[i])
        BY <1>11, <3>3, <3>4
      <3>6. w[i] = s.original /\ a[i] = s.start
        BY <1>1, <1>4, <1>8
      <3>7. b[i] = a[i] /\ c[i] = a[i] + Len(w[i])
        BY <1>1, <1>4, <3>2, <3>6
      <3>8. b[i] = Len(S[a[i]]) /\ c[i] = Len(S[z[i]])
        BY <1>14, <3>3, <3>4, <3>5, <3>7
      <3>9. Content(spans'[i]) = w[i]
        BY <3>2, <3>6 DEF Content
      <3> QED
        BY <2>2, <3>2, <3>8, <3>9
    <2>3. CASE j # i
      <3>1. w[j] = Content(spans[j])
        BY <1>7, <1>8, <2>3 DEF I
      <3>2. z[j] <= a[i] \/ z[i] <= a[j]
        BY <1>5, <1>6, <2>3 DEF Places
      <3>3. CASE z[i] <= a[j]
        <4>1. spans'[j] = Move(spans[j], grow)
          BY <1>1, <1>4, <2>1, <2>3, <3>3
        <4> HIDE DEF grow, moved
        <4>2. /\ spans'[j].start = spans[j].start + grow /\ spans'[j].end = spans[j].end + grow
              /\ spans'[j].original = spans[j].original
              /\ spans'[j].replacement = spans[j].replacement
              /\ spans'[j].reverted = spans[j].reverted
          BY <2>1, <4>1 DEF SpanTyped, Move
        <4>3. z[i] <= z[j]
          BY <1>5, <1>13, <3>3
        <4>4. /\ Len(R[a[j]]) = a[j] + Len(w[i]) - (z[i] - a[i])
              /\ Len(R[z[j]]) = z[j] + Len(w[i]) - (z[i] - a[i])
          BY <1>11, <1>13, <3>3, <4>3
        <4>5. b[j] = Len(S[a[j]]) /\ c[j] = Len(S[z[j]])
          BY <1>4, <1>5, <1>13, <1>14, <1>15, <2>1, <4>2, <4>4
        <4> QED
          BY <3>1, <4>2, <4>5 DEF Content
      <3>4. CASE z[j] <= a[i]
        <4>1. a[j] < z[i] /\ a[j] <= a[i]
          BY <1>5, <1>13, <3>4
        <4>2. spans'[j] = spans[j]
          <5>1. spans[j].start < s.end
            BY <1>1, <1>4, <2>1, <4>1
          <5>2. ~(spans[j].start >= s.end)
            BY <2>1, <5>1 DEF SpanTyped
          <5> QED
            BY <2>1, <2>3, <5>2
        <4>3. Len(R[a[j]]) = a[j] /\ Len(R[z[j]]) = z[j]
          BY <1>11, <1>13, <3>4, <4>1
        <4> HIDE DEF moved
        <4> QED
          BY <1>4, <1>13, <2>1, <3>1, <4>2, <4>3
      <3> QED
        BY <3>2, <3>3, <3>4
    <2> QED
      BY <2>2, <2>3
  <1>17. Moved(L, a, z, S, b, c)
    BY <1>16 DEF Moved
  <1>18. \A j \in L : Len(w[j]) > 0
    <2> SUFFICES ASSUME NEW j \in L, j # i PROVE Len(w[j]) > 0
      BY <1>14
    <2>1. w[j] = Slice(text, a[j], z[j])
      BY <1>8 DEF I
    <2>2. Len(w[j]) = z[j] - a[j]
      <3>1. a[j] \in Nat /\ z[j] \in Nat /\ a[j] <= z[j] /\ z[j] <= Len(text)
        BY <1>6 DEF Places
      <3>2. Len(Slice(text, a[j], z[j])) = z[j] - a[j]
        BY <1>6, <3>1, SliceParts
      <3> QED
        BY <2>1, <3>2
    <2> QED
      BY <1>13, <2>2
  <1>19. /\ Places(text', L, b, c)
         /\ \A j \in L : Slice(text', b[j], c[j]) = w[j] /\ c[j] = b[j] + Len(w[j])
    BY <1>10a, <1>12, <1>17, <1>18, PlacesMove
  <1>20. Splice(text', Changes(L, b, c, u)) = Splice(text, Changes(L, a, z, u))
    BY <1>7, <1>10a, <1>12, <1>17, <1>18, SpliceTwice
  <1>21. \A j \in L : Originals(spans')[j] = u[j]
    BY <1>2, <1>3, <1>4, <1>16 DEF Originals
  <1>22. Changes(L, b, c, Originals(spans')) = Changes(L, b, c, u)
    BY <1>21, ChangesAgree
  <1>23. Laid(document', text', spans', L)
    <2>1. document' = Splice(text', Changes(L, b, c, Originals(spans')))
      BY <1>1, <1>2, <1>20, <1>22 DEF Laid, a, z, u
    <2>2. \A j \in L : /\ Slice(text', spans'[j].start, spans'[j].end) = Content(spans'[j])
                      /\ IsText(spans'[j].original) /\ IsText(spans'[j].replacement)
                      /\ Len(spans'[j].original) > 0
      BY <1>2, <1>4, <1>16, <1>19 DEF Laid
    <2> QED
      BY <1>3, <1>19, <2>1, <2>2 DEF Laid, b, c
  <1>24. Active' \subseteq L
    <2> SUFFICES ASSUME NEW j \in DOMAIN spans, j # i, ~spans'[j].reverted PROVE j \in Active
      BY <1>2, <1>3, <1>5 DEF Active
    <2>1. spans'[j] = moved(j) /\ SpanTyped(spans[j])
      BY <1>1 DEF IInv
    <2>2. spans'[j].reverted = spans[j].reverted
      <3>1. spans'[j] = Move(spans[j], grow) \/ spans'[j] = spans[j]
        BY <2>1
      <3> HIDE DEF grow, moved
      <3> QED
        BY <2>1, <3>1 DEF Move, SpanTyped
    <2> QED
      BY <2>2 DEF Active
  <1> QED
    BY <1>1, <1>2, <1>3, <1>23, <1>24 DEF PInv

\* I are the places of the occurrences of f in t, numbered from n + 1, and r is
\* what they get.
Numbered(t, f, r, n, I, a, z, w) ==
  LET q == Ascending(Occurrences(t, f))
  IN  /\ I = (n + 1) .. (n + Cardinality(Occurrences(t, f)))
      /\ \A i \in I : a[i] = q[i - n] /\ z[i] = a[i] + Len(f) /\ w[i] = r

\* The places of the occurrences, numbered from n + 1, and what replacing them
\* makes of the positions behind them.
LEMMA OccurrencesAreReplaced ==
  ASSUME NEW t, IsText(t), NEW f, IsText(f), Len(f) > 0, NEW r, IsText(r),
         NEW n \in Nat, NEW I, NEW a, NEW z, NEW w, Numbered(t, f, r, n, I, a, z, w)
  PROVE  /\ BeginAt(I, a, Occurrences(t, f))
         /\ IsFiniteSet(Occurrences(t, f))
         /\ Places(t, I, a, z)
         /\ \A i \in I : Slice(t, a[i], z[i]) = f /\ a[i] \in Occurrences(t, f)
         /\ \A i \in I : Way(t, f, r, a[i]) = (Len(r) - Len(f)) * (i - n - 1)
         /\ Splice(t, Changes(I, a, z, w)) = Substitute(t, f, r)
  <1> DEFINE F == Occurrences(t, f)
             m == Cardinality(F)
             q == Ascending(F)
             c == Len(f)
  <1>1. /\ F \in SUBSET Matches(t, f) /\ IsFiniteSet(F)
        /\ \A p \in Matches(t, f) : p \in Nat /\ p + c <= Len(t) /\ Slice(t, p, p + c) = f
        /\ \A x, y \in F : x = y \/ x + c <= y \/ y + c <= x
    BY OccurrencesArePlaces
  <1>2. c \in Nat /\ c > 0
    BY TextHasLength
  <1>3. I = (n + 1) .. (n + m) /\ \A i \in I : a[i] = q[i - n] /\ z[i] = a[i] + c /\ w[i] = r
    BY DEF Numbered
  <1>4. Substitute(t, f, r) = Splice(t, {[start |-> p, end |-> p + c, with |-> r] : p \in F})
    BY DEF Substitute
  <1>5. \A p : Way(t, f, r, p) = (Len(r) - c) * Cardinality({x \in F : x + c <= p})
    BY DEF Way, Behind
  <1> HIDE DEF F, c
  <1>6. F \in SUBSET Int /\ \A p \in F : p \in Nat /\ p + c <= Len(t) /\ Slice(t, p, p + c) = f
    BY <1>1
  <1>7. /\ m \in Nat
        /\ \A k \in 1 .. m : q[k] \in F /\ Cardinality({y \in F : y < q[k]}) = k - 1
        /\ \A j, k \in 1 .. m : j < k => q[j] < q[k]
        /\ \A x \in F : \E k \in 1 .. m : q[k] = x
    BY <1>1, <1>6, AscendingOrder
  <1> HIDE DEF m, q
  <1>8. \A i \in I : i - n \in 1 .. m /\ a[i] \in F /\ a[i] \in Nat
    <2> SUFFICES ASSUME NEW i \in I PROVE i - n \in 1 .. m /\ a[i] \in F /\ a[i] \in Nat
      OBVIOUS
    <2>1. i \in (n + 1) .. (n + m) /\ a[i] = q[i - n]
      BY <1>3
    <2>2. i - n \in 1 .. m
      BY <1>7, <2>1
    <2>3. q[i - n] \in F
      BY <1>7, <2>2
    <2> QED
      BY <1>6, <2>1, <2>2, <2>3
  <1>9. {a[i] : i \in I} = F
    <2>1. ASSUME NEW x \in F PROVE \E i \in I : a[i] = x
      <3>1. PICK k \in 1 .. m : q[k] = x
        BY <1>7
      <3>2. n + k \in I /\ (n + k) - n = k
        <4>1. n + k \in (n + 1) .. (n + m) /\ (n + k) - n = k
          BY <1>7
        <4> QED
          BY <1>3, <4>1
      <3>3. a[n + k] = x
        BY <1>3, <3>1, <3>2
      <3> QED
        BY <3>2, <3>3
    <2> QED
      BY <1>8, <2>1
  <1>10. Places(t, I, a, z)
    <2>1. \A i \in I : a[i] \in Nat /\ z[i] \in Nat /\ a[i] < z[i] /\ z[i] <= Len(t)
      BY <1>2, <1>3, <1>6, <1>8
    <2>2. ASSUME NEW i \in I, NEW j \in I, i # j PROVE z[i] <= a[j] \/ z[j] <= a[i]
      <3>1. i - n < j - n \/ j - n < i - n
        BY <1>3, <2>2
      <3>2. a[i] # a[j]
        <4>1. q[i - n] < q[j - n] \/ q[j - n] < q[i - n]
          BY <1>7, <1>8, <3>1
        <4> QED
          BY <1>3, <1>8, <4>1
      <3> QED
        BY <1>1, <1>3, <1>8, <3>2
    <2> QED
      BY <2>1, <2>2 DEF Places
  <1>11. \A i \in I : Slice(t, a[i], z[i]) = f
    BY <1>3, <1>6, <1>8
  <1>12. ASSUME NEW i \in I PROVE Way(t, f, r, a[i]) = (Len(r) - c) * (i - n - 1)
    <2>1. Cardinality({y \in F : y < q[i - n]}) = i - n - 1
      BY <1>7, <1>8
    <2>2. {x \in F : x + c <= a[i]} = {y \in F : y < q[i - n]}
      <3>1. ASSUME NEW x \in F PROVE x + c <= a[i] <=> x < a[i]
        BY <1>1, <1>2, <1>6, <1>8
      <3>2. a[i] = q[i - n]
        BY <1>3
      <3> QED
        BY <3>1, <3>2
    <2> QED
      BY <1>5, <2>1, <2>2
  <1>13. Changes(I, a, z, w) = {[start |-> p, end |-> p + c, with |-> r] : p \in F}
    <2>1. Changes(I, a, z, w) = {[start |-> a[i], end |-> a[i] + c, with |-> r] : i \in I}
      BY <1>3 DEF Changes
    <2> QED
      BY <1>9, <2>1
  <1> QED
    BY <1>1, <1>4, <1>8, <1>9, <1>10, <1>11, <1>12, <1>13 DEF F, c, BeginAt

LEMMA ReplacedPositions ==
  ASSUME NEW t, IsText(t), NEW f, IsText(f), Len(f) > 0, NEW r, IsText(r),
         NEW n \in Nat, NEW I, NEW a, NEW z, NEW w, Numbered(t, f, r, n, I, a, z, w),
         NEW R, Builds(t, I, a, z, w, R)
  PROVE  /\ \A k \in 0 .. Len(t) : Border(I, a, z, k) => Len(R[k]) = k + Way(t, f, r, k)
         /\ \A i \in I : /\ Len(R[a[i]]) = ManualStart(t, f, r, i - n)
                         /\ Len(R[z[i]]) = ManualStart(t, f, r, i - n) + Len(r)
  <1> DEFINE F == Occurrences(t, f)
             c == Len(f)
             m == Len(r)
  <1>1. c \in Nat /\ m \in Nat
    BY TextHasLength
  <1>2. /\ BeginAt(I, a, F) /\ IsFiniteSet(F)
        /\ \A i \in I : Way(t, f, r, a[i]) = (m - c) * (i - n - 1)
    BY OccurrencesAreReplaced
  <1>3. \A i \in I : a[i] = Ascending(F)[i - n] /\ z[i] = a[i] + c /\ w[i] = r
    BY DEF Numbered
  <1>4. \A i \in I : i \in Int /\ n \in Int
    BY DEF Numbered
  <1>5. \A p : Way(t, f, r, p) = (m - c) * Behind(F, c, p)
    BY DEF Way
  <1>6. \A i \in I : ManualStart(t, f, r, i - n) = Ascending(F)[i - n] + ((i - n) - 1) * (m - c)
    BY DEF ManualStart
  <1>7. Places(t, I, a, z)
    BY DEF Builds
  <1> HIDE DEF F, c
  <1>8. Sized(I, a, z, w, c, m) /\ \A i \in I : Len(w[i]) = m
    BY <1>3 DEF Sized
  <1> HIDE DEF m
  <1>9. \A k \in 0 .. Len(t) : Border(I, a, z, k) => Len(R[k]) = k + (m - c) * Behind(F, c, k)
    <2>1. BeginAt(I, a, F) /\ IsFiniteSet(F)
      BY <1>2
    <2> QED
      BY <1>1, <1>8, <2>1, PlacesShift
  <1>10. \A k \in 0 .. Len(t) : Border(I, a, z, k) => Len(R[k]) = k + Way(t, f, r, k)
    BY <1>5, <1>9
  <1>11. ASSUME NEW i \in I
         PROVE  /\ Len(R[a[i]]) = ManualStart(t, f, r, i - n)
                /\ Len(R[z[i]]) = ManualStart(t, f, r, i - n) + m
    <2>1. Border(I, a, z, a[i])
      BY <1>7, EndsAreBorders
    <2>2. a[i] \in 0 .. Len(t) /\ a[i] \in Int
      <3>1. Len(t) \in Nat
        BY TextHasLength
      <3> QED
        BY <1>7, <3>1 DEF Places
    <2>3. Len(R[a[i]]) = a[i] + (m - c) * (i - n - 1)
      BY <1>2, <1>10, <2>1, <2>2
    <2>4. (m - c) * (i - n - 1) = ((i - n) - 1) * (m - c)
      BY <1>1, <1>4
    <2>5. Len(R[a[i]]) = ManualStart(t, f, r, i - n)
      BY <1>3, <1>6, <2>3, <2>4
    <2>6. Len(R[z[i]]) = Len(R[a[i]]) + m
      <3>1. R[z[i]] = Cat(R[a[i]], w[i])
        BY PlaceIsBuilt
      <3>2. IsText(R[a[i]]) /\ IsText(w[i])
        BY <2>2 DEF Builds
      <3>3. Len(R[z[i]]) = Len(R[a[i]]) + Len(w[i])
        BY <3>1, <3>2, ConcatIsText
      <3> QED
        BY <1>8, <3>3
    <2> QED
      BY <2>5, <2>6
  <1> QED
    BY <1>10, <1>11 DEF m

\* A manual redaction moves the places of the spans it does not cut with their
\* contents, and its own spans stand in the places of the occurrences.
LEMMA RedactKeepsPlaces ==
  ASSUME IInv, PInv, NEW f \in Fragments, NEW type \in Types, Redact(f, type)
  PROVE  PInv'
  <1> SUFFICES ASSUME "active" \notin hit' PROVE PInv'
    BY DEF PInv
  <1> DEFINE F == Occurrences(text, f)
             r == ManualPlaceholder(type, f)
             n == Len(spans)
             m == Cardinality(F)
             cut == {i \in DOMAIN spans : \E p \in F : Cuts(p, p + Len(f), spans[i])}
  <1>1. /\ text' = Substitute(text, f, r) /\ document' = document
        /\ hit' = hit \cup {IF i \in Active THEN "active" ELSE "reverted" : i \in cut}
    BY DEF Redact
  <1>2. /\ n \in Nat /\ m \in Nat /\ m # 0
        /\ IsText(r) /\ Len(r) = 2
        /\ DOMAIN spans = 1 .. n
        /\ IsText(spans') /\ DOMAIN spans' = 1 .. (n + m) /\ Len(spans') = n + m
        /\ \A i \in 1 .. n : /\ Way(text, f, r, spans[i].start) \in Int
                             /\ spans'[i] = Move(spans[i], Way(text, f, r, spans[i].start))
        /\ \A k \in 1 .. m : ManualStart(text, f, r, k) \in Int
        /\ \A i \in (n + 1) .. (n + m) : spans'[i] = ManualSpan(text, type, f, r, i - n)
    BY RedactedSpans
  <1>3. IsText(text) /\ IsText(f) /\ Len(f) \in Nat /\ Len(f) > 0
    BY FragmentIsText DEF IInv
  <1>4. "active" \notin hit /\ (hit' = {} => hit = {} /\ cut = {}) /\ \A i \in cut : i \notin Active
    BY <1>1
  <1>5. PICK L \in SUBSET DOMAIN spans :
          Active \subseteq L /\ (hit = {} => L = DOMAIN spans) /\ Laid(document, text, spans, L)
    BY <1>4 DEF PInv
  <1> DEFINE K == L \ cut
             I == (n + 1) .. (n + m)
             J == K \cup I
             q == Ascending(F)
             a == [j \in J |-> IF j \in K THEN spans[j].start ELSE q[j - n]]
             z == [j \in J |-> IF j \in K THEN spans[j].end ELSE q[j - n] + Len(f)]
             w == [j \in J |-> IF j \in K THEN Content(spans[j]) ELSE r]
             u == [j \in J |-> IF j \in K THEN spans[j].original ELSE f]
             b == Starts(spans')
             c == Ends(spans')
  <1>6. /\ K \in SUBSET (1 .. n) /\ K \in SUBSET L /\ K \cap I = {} /\ I \in SUBSET J
        /\ J \in SUBSET DOMAIN spans' /\ J \ I = K
    BY <1>2
  <1>7. \A j \in K : /\ a[j] = spans[j].start /\ z[j] = spans[j].end
                     /\ w[j] = Content(spans[j]) /\ u[j] = spans[j].original
    OBVIOUS
  <1>8. \A j \in I : a[j] = q[j - n] /\ z[j] = a[j] + Len(f) /\ w[j] = r /\ u[j] = f
    BY <1>6
  <1>9. \A j \in J : b[j] = spans'[j].start /\ c[j] = spans'[j].end
    BY <1>6 DEF Starts, Ends
  <1>10. Numbered(text, f, r, n, I, a, z, w)
    BY <1>8 DEF Numbered
  <1>11. \A j \in L : \A p \in F :
           j \in K => ~Cuts(p, p + Len(f), spans[j])
    BY <1>5
  <1> HIDE DEF F, n, m, r, cut, K, I, J, q, a, z, w, u, b, c
  <1>12. /\ BeginAt(I, a, F)
         /\ Places(text, I, a, z)
         /\ \A i \in I : Slice(text, a[i], z[i]) = f /\ a[i] \in F
         /\ Splice(text, Changes(I, a, z, w)) = Substitute(text, f, r)
    BY <1>2, <1>3, <1>10, OccurrencesAreReplaced DEF F
  <1>13. /\ Places(text, L, Starts(spans), Ends(spans))
         /\ \A j \in L : /\ j \in DOMAIN spans
                         /\ Starts(spans)[j] = spans[j].start /\ Ends(spans)[j] = spans[j].end
                         /\ Originals(spans)[j] = spans[j].original
                         /\ Slice(text, spans[j].start, spans[j].end) = Content(spans[j])
                         /\ IsText(Content(spans[j])) /\ IsText(spans[j].original)
                         /\ Len(spans[j].original) > 0
    BY <1>5 DEF Laid, Starts, Ends, Originals, Content
  <1>14. Places(text, K, a, z)
    <2>1. Places(text, K, Starts(spans), Ends(spans))
      BY <1>6, <1>13, FewerPlaces
    <2>2. \A j \in K : Starts(spans)[j] = a[j] /\ Ends(spans)[j] = z[j]
      BY <1>6, <1>7, <1>13
    <2> QED
      BY <2>1, <2>2, PlacesAgree
  <1>15. Places(text, J, a, z)
    <2>1. ASSUME NEW j \in K, NEW i \in I PROVE z[j] <= a[i] \/ z[i] <= a[j]
      <3>1. ~Cuts(a[i], a[i] + Len(f), spans[j])
        BY <1>6, <1>11, <1>12
      <3>2. a[i] \in Nat /\ a[j] \in Nat /\ z[j] \in Nat
        BY <1>12, <1>14 DEF Places
      <3>3. ~(a[i] < z[j] /\ a[j] < a[i] + Len(f))
        BY <1>7, <3>1 DEF Cuts
      <3> QED
        BY <1>3, <1>8, <3>2, <3>3
    <2>2. J = K \cup I
      BY DEF J
    <2> QED
      BY <1>12, <1>14, <2>1, <2>2 DEF Places
  <1>16. \A j \in J : IsText(w[j]) /\ IsText(u[j]) /\ Len(w[j]) > 0 /\ Len(u[j]) > 0
    <2>1. ASSUME NEW j \in K PROVE Len(w[j]) > 0
      <3>1. a[j] \in Nat /\ z[j] \in Nat /\ a[j] < z[j] /\ a[j] <= z[j] /\ z[j] <= Len(text)
        BY <1>14 DEF Places
      <3>2. Len(Slice(text, a[j], z[j])) = z[j] - a[j]
        BY <1>3, <3>1, SliceParts
      <3>3. w[j] = Slice(text, a[j], z[j])
        BY <1>6, <1>7, <1>13
      <3> QED
        BY <3>1, <3>2, <3>3
    <2>2. \A j \in K : IsText(w[j]) /\ IsText(u[j]) /\ Len(u[j]) > 0
      BY <1>6, <1>7, <1>13
    <2>3. IsText(r) /\ Len(r) > 0
      BY <1>2
    <2>4. \A j \in I : IsText(w[j]) /\ IsText(u[j]) /\ Len(w[j]) > 0 /\ Len(u[j]) > 0
      BY <1>3, <1>8, <2>3
    <2> QED
      BY <2>1, <2>2, <2>4 DEF J
  <1>17. \A j \in J \ I : w[j] = Slice(text, a[j], z[j])
    BY <1>6, <1>7, <1>13
  <1>18. PICK S, R : BothBuild(text, J, I, a, z, w, S, R)
    <2>1. IsText(text) /\ I \in SUBSET J /\ \A j \in J : IsText(w[j])
      BY <1>3, <1>6, <1>16
    <2> QED
      BY <2>1, <1>15, <1>17, EditIsBuilt
  <1>19. /\ Builds(text, J, a, z, w, S)
         /\ Builds(text, I, a, z, w, R)
         /\ S[Len(text)] = R[Len(text)]
         /\ R[Len(text)] = Splice(text, Changes(I, a, z, w))
         /\ \A k \in 0 .. Len(text) : Border(J, a, z, k) => S[k] = R[k]
    BY <1>18 DEF BothBuild
  <1>20. S[Len(text)] = text'
    BY <1>1, <1>12, <1>19
  <1>21. /\ \A k \in 0 .. Len(text) : Border(I, a, z, k) => Len(R[k]) = k + Way(text, f, r, k)
         /\ \A i \in I : /\ Len(R[a[i]]) = ManualStart(text, f, r, i - n)
                         /\ Len(R[z[i]]) = ManualStart(text, f, r, i - n) + Len(r)
    <2>1. n \in Nat /\ IsText(r)
      BY <1>2
    <2>2. Builds(text, I, a, z, w, R)
      BY <1>19
    <2> QED
      BY <1>3, <1>10, <2>1, <2>2, ReplacedPositions
  <1>22. \A j \in J : /\ a[j] \in 0 .. Len(text) /\ z[j] \in 0 .. Len(text)
                      /\ S[a[j]] = R[a[j]] /\ S[z[j]] = R[z[j]]
                      /\ Border(I, a, z, a[j])
    <2>1. \A j \in J : Border(J, a, z, a[j]) /\ Border(J, a, z, z[j])
      BY <1>3, <1>15, EndsAreBorders
    <2>2. \A j \in J : a[j] \in 0 .. Len(text) /\ z[j] \in 0 .. Len(text)
      <3>1. Len(text) \in Nat
        BY <1>3, TextHasLength
      <3> QED
        BY <1>15, <3>1 DEF Places
    <2>3. \A k : Border(J, a, z, k) => Border(I, a, z, k)
      BY <1>6, <1>15, FewerPlaces
    <2> QED
      BY <1>19, <2>1, <2>2, <2>3
  <1>23. ASSUME NEW j \in J
         PROVE  /\ b[j] = Len(S[a[j]]) /\ c[j] = Len(S[z[j]])
                /\ Content(spans'[j]) = w[j]
                /\ spans'[j].original = u[j] /\ IsText(spans'[j].replacement)
    <2>1. CASE j \in K
      <3> DEFINE d == Way(text, f, r, spans[j].start)
      <3>1. /\ d \in Int /\ spans'[j] = Move(spans[j], d) /\ SpanTyped(spans[j])
            /\ IsText(spans[j].replacement)
        BY <1>2, <1>5, <1>6, <2>1 DEF IInv, Laid
      <3>2. /\ spans'[j].start = spans[j].start + d /\ spans'[j].end = spans[j].end + d
            /\ spans'[j].original = spans[j].original
            /\ spans'[j].replacement = spans[j].replacement
            /\ spans'[j].reverted = spans[j].reverted
        <4> HIDE DEF d
        <4> QED
          BY <3>1, MovedSpan
      <3>3. Len(R[a[j]]) = a[j] + d
        BY <1>7, <1>21, <1>22, <2>1
      <3>4. b[j] = Len(S[a[j]])
        BY <1>7, <1>9, <1>22, <2>1, <3>2, <3>3
      <3>5. Len(S[z[j]]) = Len(S[a[j]]) + Len(w[j])
        <4>1. S[z[j]] = Cat(S[a[j]], w[j])
          BY <1>19, PlaceIsBuilt
        <4>2. IsText(S[a[j]]) /\ IsText(w[j])
          BY <1>16, <1>19, <1>22 DEF Builds
        <4> QED
          BY <4>1, <4>2, ConcatIsText
      <3>6. Len(w[j]) = z[j] - a[j]
        <4>1. a[j] \in Nat /\ z[j] \in Nat /\ a[j] <= z[j] /\ z[j] <= Len(text)
          BY <1>15 DEF Places
        <4>2. Len(Slice(text, a[j], z[j])) = z[j] - a[j]
          BY <1>3, <4>1, SliceParts
        <4>3. w[j] = Slice(text, a[j], z[j])
          BY <1>6, <1>7, <1>13, <2>1
        <4> QED
          BY <4>2, <4>3
      <3>7. c[j] = Len(S[z[j]])
        <4>1. c[j] = z[j] + d /\ b[j] = a[j] + d
          BY <1>7, <1>9, <2>1, <3>2
        <4>2. a[j] \in Int /\ z[j] \in Int /\ d \in Int
          BY <1>15, <3>1 DEF Places
        <4> HIDE DEF d
        <4> QED
          BY <3>4, <3>5, <3>6, <4>1, <4>2
      <3>8. Content(spans'[j]) = w[j] /\ spans'[j].original = u[j]
        BY <1>7, <2>1, <3>2 DEF Content
      <3> QED
        BY <3>1, <3>2, <3>4, <3>7, <3>8
    <2>2. CASE j \in I
      <3>1. /\ spans'[j].start = ManualStart(text, f, r, j - n)
            /\ spans'[j].end = ManualStart(text, f, r, j - n) + Len(r)
            /\ spans'[j].original = f /\ spans'[j].replacement = r /\ ~spans'[j].reverted
        <4>1. spans'[j] = ManualSpan(text, type, f, r, j - n)
          BY <1>2, <2>2 DEF I
        <4> QED
          BY <4>1 DEF ManualSpan
      <3>2. b[j] = Len(S[a[j]]) /\ c[j] = Len(S[z[j]])
        BY <1>9, <1>21, <1>22, <2>2, <3>1
      <3> QED
        BY <1>2, <1>8, <2>2, <3>1, <3>2 DEF Content
    <2> QED
      BY <2>1, <2>2 DEF J
  <1>24. Moved(J, a, z, S, b, c)
    BY <1>23 DEF Moved
  <1>25. /\ Places(text', J, b, c)
         /\ \A j \in J : Slice(text', b[j], c[j]) = w[j] /\ c[j] = b[j] + Len(w[j])
    BY <1>16, <1>19, <1>20, <1>24, PlacesMove
  <1>26. Splice(text', Changes(J, b, c, u)) = Splice(text, Changes(J, a, z, u))
    BY <1>16, <1>19, <1>20, <1>24, SpliceTwice
  <1>27. Splice(text, Changes(J, a, z, u)) = Splice(text, Changes(K, a, z, u))
    <2>1. \A j \in J \ K : u[j] = Slice(text, a[j], z[j])
      BY <1>8, <1>12 DEF J
    <2>2. K \in SUBSET J
      BY DEF J
    <2> QED
      BY <1>3, <1>15, <1>16, <2>1, <2>2, PlainPlacesStay
  <1>28. document = Splice(text, Changes(K, Starts(spans), Ends(spans), Originals(spans)))
    <2>1. \A j \in L \ K : Originals(spans)[j] = Slice(text, Starts(spans)[j], Ends(spans)[j])
      <3> SUFFICES ASSUME NEW j \in L \ K
                   PROVE  Originals(spans)[j] = Slice(text, Starts(spans)[j], Ends(spans)[j])
        OBVIOUS
      <3>1. j \in DOMAIN spans /\ j \notin Active
        BY <1>4, <1>5 DEF K
      <3>2. Content(spans[j]) = spans[j].original
        BY <3>1 DEF Active, Content
      <3> QED
        BY <1>13, <3>2
    <2>2. \A j \in L : IsText(Originals(spans)[j])
      BY <1>13
    <2>3. Splice(text, Changes(L, Starts(spans), Ends(spans), Originals(spans)))
            = Splice(text, Changes(K, Starts(spans), Ends(spans), Originals(spans)))
      BY <1>3, <1>6, <1>13, <2>1, <2>2, PlainPlacesStay
    <2> QED
      BY <1>5, <2>3 DEF Laid
  <1>29. Changes(K, Starts(spans), Ends(spans), Originals(spans)) = Changes(K, a, z, u)
    <2>1. \A j \in K : /\ Starts(spans)[j] = a[j] /\ Ends(spans)[j] = z[j]
                       /\ Originals(spans)[j] = u[j]
      BY <1>6, <1>7, <1>13
    <2> QED
      BY <2>1, ChangesAgree
  <1>30. Changes(J, b, c, Originals(spans')) = Changes(J, b, c, u)
    <2>1. \A j \in J : Originals(spans')[j] = u[j]
      BY <1>6, <1>23 DEF Originals
    <2> QED
      BY <2>1, ChangesAgree
  <1>31. Laid(document', text', spans', J)
    <2>1. document' = Splice(text', Changes(J, b, c, Originals(spans')))
      BY <1>1, <1>26, <1>27, <1>28, <1>29, <1>30
    <2>2. \A j \in J : /\ Slice(text', spans'[j].start, spans'[j].end) = Content(spans'[j])
                       /\ IsText(spans'[j].original) /\ IsText(spans'[j].replacement)
                       /\ Len(spans'[j].original) > 0
      BY <1>9, <1>16, <1>23, <1>25
    <2> QED
      BY <1>6, <1>25, <2>1, <2>2 DEF Laid, b, c
  <1>32. Active' \subseteq J
    <2> SUFFICES ASSUME NEW j \in 1 .. (n + m), ~spans'[j].reverted, j \notin I PROVE j \in K
      BY <1>2 DEF Active, J
    <2>1. j \in 1 .. n
      BY <1>2 DEF I
    <2>2. spans'[j].reverted = spans[j].reverted
      <3> DEFINE d == Way(text, f, r, spans[j].start)
      <3>1. d \in Int /\ spans'[j] = Move(spans[j], d) /\ SpanTyped(spans[j])
        BY <1>2, <2>1 DEF IInv
      <3> HIDE DEF d
      <3> QED
        BY <3>1, MovedSpan
    <2>3. j \in Active
      BY <1>2, <2>1, <2>2 DEF Active
    <2> QED
      BY <1>4, <1>5, <2>3 DEF K
  <1>33. hit' = {} => J = DOMAIN spans'
    <2> SUFFICES ASSUME hit' = {} PROVE J = 1 .. (n + m)
      BY <1>2
    <2>1. K = 1 .. n
      BY <1>2, <1>4, <1>5 DEF K
    <2> QED
      BY <1>2, <2>1 DEF I, J
  <1> QED
    BY <1>6, <1>31, <1>32, <1>33 DEF PInv

----------------------------------------------------------------------------
(* No copy in the clear *)

\* After a manual redaction the last span has its fragment, and whatever still
\* reads like the fragment shares a character with one of its new spans.
LEMMA RedactLeavesNoCopy ==
  ASSUME IInv, NEW f \in Fragments, NEW type \in Types, Redact(f, type)
  PROVE  /\ spans'[Len(spans')].original = f
         /\ \A p \in Matches(text', f) : \E i \in DOMAIN spans' :
              ~spans'[i].reverted /\ Cuts(p, p + Len(f), spans'[i])
  <1> DEFINE r == ManualPlaceholder(type, f)
             n == Len(spans)
             m == Cardinality(Occurrences(text, f))
             I == (n + 1) .. (n + m)
             q == Ascending(Occurrences(text, f))
             a == [j \in I |-> q[j - n]]
             z == [j \in I |-> q[j - n] + Len(f)]
             w == [j \in I |-> r]
             b == Starts(spans')
             c == Ends(spans')
  <1>1. text' = Substitute(text, f, r)
    BY DEF Redact
  <1>2. /\ n \in Nat /\ m \in Nat /\ m # 0
        /\ IsText(r) /\ Len(r) = 2
        /\ DOMAIN spans = 1 .. n
        /\ IsText(spans') /\ DOMAIN spans' = 1 .. (n + m) /\ Len(spans') = n + m
        /\ \A i \in 1 .. n : /\ Way(text, f, r, spans[i].start) \in Int
                             /\ spans'[i] = Move(spans[i], Way(text, f, r, spans[i].start))
        /\ \A k \in 1 .. m : ManualStart(text, f, r, k) \in Int
        /\ \A i \in (n + 1) .. (n + m) : spans'[i] = ManualSpan(text, type, f, r, i - n)
    BY RedactedSpans
  <1>3. IsText(text) /\ IsText(f) /\ Len(f) \in Nat /\ Len(f) > 0
    BY FragmentIsText DEF IInv
  <1>4. \A j \in I : a[j] = q[j - n] /\ z[j] = a[j] + Len(f) /\ w[j] = r
    OBVIOUS
  <1>5. Numbered(text, f, r, n, I, a, z, w)
    BY <1>4 DEF Numbered
  <1>6. \A j \in I : j \in DOMAIN spans' /\ b[j] = spans'[j].start /\ c[j] = spans'[j].end
    BY <1>2 DEF Starts, Ends
  <1> HIDE DEF n, m, r, I, q, a, z, w, b, c
  <1>7. n \in Nat /\ IsText(r) /\ Len(r) > 0
    BY <1>2
  <1>8. /\ BeginAt(I, a, Occurrences(text, f))
        /\ Places(text, I, a, z)
        /\ Splice(text, Changes(I, a, z, w)) = Substitute(text, f, r)
    <2> DEFINE F == Occurrences(text, f)
    <2>1. n \in Nat /\ IsText(r) /\ IsText(text) /\ IsText(f) /\ Len(f) > 0
      BY <1>3, <1>7
    <2>2. /\ BeginAt(I, a, F)
          /\ Places(text, I, a, z)
          /\ Splice(text, Changes(I, a, z, w)) = Substitute(text, f, r)
      <3> HIDE DEF F
      <3> QED
        BY <1>5, <2>1, OccurrencesAreReplaced DEF F
    <2> QED
      BY <2>2
  <1>9. \A j \in I : IsText(w[j])
    BY <1>4, <1>7
  <1>10. PICK R : Builds(text, I, a, z, w, R) /\ Splice(text, Changes(I, a, z, w)) = R[Len(text)]
    BY <1>3, <1>8, <1>9, SpliceIsBuilt
  <1>11. \A i \in I : /\ Len(R[a[i]]) = ManualStart(text, f, r, i - n)
                      /\ Len(R[z[i]]) = ManualStart(text, f, r, i - n) + Len(r)
    <2>1. Builds(text, I, a, z, w, R)
      BY <1>10
    <2> QED
      BY <1>3, <1>5, <1>7, <2>1, ReplacedPositions
  <1>12. ASSUME NEW i \in I
         PROVE  /\ spans'[i].original = f /\ ~spans'[i].reverted
                /\ b[i] = Len(R[a[i]]) /\ c[i] = Len(R[z[i]])
    <2>1. spans'[i] = ManualSpan(text, type, f, r, i - n)
      BY <1>2 DEF I
    <2>2. /\ spans'[i].start = ManualStart(text, f, r, i - n)
          /\ spans'[i].end = ManualStart(text, f, r, i - n) + Len(r)
          /\ spans'[i].original = f /\ ~spans'[i].reverted
      BY <2>1 DEF ManualSpan
    <2> QED
      BY <1>6, <1>11, <2>2
  <1>13. Moved(I, a, z, R, b, c)
    BY <1>12 DEF Moved
  <1>14. R[Len(text)] = text'
    BY <1>1, <1>8, <1>10
  <1>15. \A i \in I : z[i] = a[i] + Len(f) /\ Len(w[i]) > 0
    BY <1>4, <1>7
  <1>16. \A p \in Matches(R[Len(text)], f) : \E i \in I : p < c[i] /\ b[i] < p + Len(f)
    BY <1>3, <1>8, <1>10, <1>13, <1>15, NoOtherOccurrence
  <1>17. ASSUME NEW p \in Matches(text', f)
         PROVE  \E i \in DOMAIN spans' : ~spans'[i].reverted /\ Cuts(p, p + Len(f), spans'[i])
    <2>1. PICK i \in I : p < c[i] /\ b[i] < p + Len(f)
      BY <1>14, <1>16
    <2> QED
      BY <1>6, <1>12, <2>1 DEF Cuts
  <1>18. spans'[Len(spans')].original = f
    <2>1. Len(spans') \in I
      BY <1>2 DEF I
    <2> QED
      BY <1>12, <2>1
  <1> QED
    BY <1>17, <1>18

----------------------------------------------------------------------------
(* The document and its blocks *)

\* What stands before block b, and what has been joined after each block.
Lead(h, b) == IF b = 1 THEN <<>> ELSE Cat(h[b - 1], <<Separator>>)
Chained(blocks, h) ==
  /\ \A b \in 0 .. Len(blocks) : IsText(h[b])
  /\ h[0] = <<>> /\ \A b \in 1 .. Len(blocks) : h[b] = Cat(Lead(h, b), blocks[b])

Blocks(blocks) == IsText(blocks) /\ \A b \in 1 .. Len(blocks) : IsText(blocks[b])

LEMMA JoinIsChained ==
  ASSUME NEW blocks, Blocks(blocks)
  PROVE  \E h : Chained(blocks, h) /\ Join(blocks) = h[Len(blocks)]
  <1> DEFINE n == Len(blocks)
             s == [b \in 1 .. n |-> IF b = 1 THEN blocks[b] ELSE <<Separator>> \o blocks[b]]
  <1>1. n \in Nat /\ \A b \in 1 .. n : IsText(blocks[b])
    BY TextHasLength DEF Blocks
  <1>2. IsText(<<Separator>>)
    BY OneIsText
  <1>3. \A b \in 1 .. n : s[b] = IF b = 1 THEN blocks[b] ELSE Cat(<<Separator>>, blocks[b])
    BY DEF Cat
  <1>4. Join(blocks) = FlattenSeq(s)
    BY DEF Join
  <1>5. s = [b \in 1 .. n |-> s[b]] /\ DOMAIN s = 1 .. n
    OBVIOUS
  <1> HIDE DEF s, n
  <1>6. ASSUME NEW b \in 1 .. n PROVE IsText(s[b])
    <2>1. IsText(blocks[b])
      BY <1>1
    <2>2. IsText(Cat(<<Separator>>, blocks[b]))
      BY <1>2, <2>1, ConcatIsText
    <2> QED
      BY <1>3, <2>1, <2>2
  <1>7. IsText(s) /\ Len(s) = n
    BY <1>1, <1>5, FunctionIsText
  <1>8. PICK h : Joins(s, h) /\ FlattenSeq(s) = h[Len(s)]
    BY <1>5, <1>6, <1>7, FlattenIsBuilt
  <1>9. /\ \A b \in 0 .. n : IsText(h[b])
        /\ h[0] = <<>> /\ \A b \in 1 .. n : h[b] = Cat(h[b - 1], s[b])
    BY <1>7, <1>8 DEF Joins
  <1>10. ASSUME NEW b \in 1 .. n PROVE h[b] = Cat(Lead(h, b), blocks[b])
    <2>1. CASE b = 1
      <3>1. h[1] = Cat(h[0], s[1]) /\ s[1] = blocks[1] /\ b - 1 = 0
        BY <1>3, <1>9, <2>1
      <3>2. h[1] = Cat(<<>>, blocks[1])
        BY <1>9, <3>1
      <3> QED
        BY <2>1, <3>2 DEF Lead
    <2>2. CASE b # 1
      <3> DEFINE x == h[b - 1]
                 y == <<Separator>>
                 v == blocks[b]
      <3>1. IsText(x) /\ IsText(y) /\ IsText(v)
        BY <1>1, <1>2, <1>9
      <3>2. h[b] = Cat(x, s[b]) /\ s[b] = Cat(y, v)
        BY <1>3, <1>9, <2>2
      <3>3. Lead(h, b) = Cat(x, y)
        BY <2>2 DEF Lead
      <3> HIDE DEF x, y
      <3>4. Cat(Cat(x, y), v) = Cat(x, Cat(y, v))
        BY <3>1, ConcatAssociates
      <3> QED
        BY <3>2, <3>3, <3>4
    <2> QED
      BY <2>1, <2>2
  <1> QED
    BY <1>4, <1>7, <1>8, <1>9, <1>10 DEF Chained, n

LEMMA OffsetsAreNext ==
  ASSUME NEW blocks, Blocks(blocks)
  PROVE  /\ Offset(blocks, 1) = 0
         /\ \A b \in 1 .. Len(blocks) : b > 1 =>
              Offset(blocks, b) = Offset(blocks, b - 1) + (Len(blocks[b - 1]) + 1)
  <1> DEFINE g == [c \in DOMAIN blocks |-> Len(blocks[c]) + 1]
             n == Len(blocks)
  <1>1. /\ n \in Nat /\ DOMAIN blocks = 1 .. n
        /\ \A b \in 1 .. n : Len(blocks[b]) \in Nat
    BY TextHasLength DEF Blocks
  <1>2. \A b \in 1 .. n : g[b] = Len(blocks[b]) + 1 /\ g[b] \in Int
    BY <1>1
  <1>3. \A b : Offset(blocks, b) = SumUpTo(b - 1, g)
    BY DEF Offset
  <1> HIDE DEF g, n
  <1>4. Offset(blocks, 1) = 0
    <2>1. 1 - 1 = 0 /\ SumUpTo(0, g) = 0
      BY SumOfNone
    <2> QED
      BY <1>3, <2>1
  <1>5. ASSUME NEW b \in 1 .. n, b > 1
        PROVE  Offset(blocks, b) = Offset(blocks, b - 1) + (Len(blocks[b - 1]) + 1)
    <2> DEFINE m == b - 2
    <2>1. /\ m \in Nat /\ m + 1 = b - 1 /\ (b - 1) - 1 = m /\ b - 1 \in 1 .. n
          /\ \A i \in 1 .. (m + 1) : g[i] \in Int
      BY <1>1, <1>2, <1>5
    <2> HIDE DEF m
    <2>2. SumUpTo(m + 1, g) = SumUpTo(m, g) + g[m + 1]
      BY <2>1, SumGoesOn
    <2>3. Offset(blocks, b) = SumUpTo(m + 1, g) /\ Offset(blocks, b - 1) = SumUpTo(m, g)
      BY <1>3, <2>1
    <2>4. g[m + 1] = Len(blocks[b - 1]) + 1
      BY <1>2, <2>1
    <2> QED
      BY <2>2, <2>3, <2>4
  <1> QED
    BY <1>4, <1>5 DEF n

LEMMA ChainLengths ==
  ASSUME NEW blocks, Blocks(blocks), NEW h, Chained(blocks, h)
  PROVE  \A b \in 1 .. Len(blocks) :
           /\ IsText(Lead(h, b)) /\ Len(Lead(h, b)) = Offset(blocks, b)
           /\ Offset(blocks, b) \in Nat /\ Len(h[b]) = Offset(blocks, b) + Len(blocks[b])
  <1> DEFINE n == Len(blocks)
             T == {b \in 0 .. n : b > 0 =>
                     /\ IsText(Lead(h, b)) /\ Len(Lead(h, b)) = Offset(blocks, b)
                     /\ Offset(blocks, b) \in Nat
                     /\ Len(h[b]) = Offset(blocks, b) + Len(blocks[b])}
  <1>1. n \in Nat /\ \A b \in 1 .. n : IsText(blocks[b]) /\ Len(blocks[b]) \in Nat
    BY TextHasLength DEF Blocks
  <1>2. /\ Offset(blocks, 1) = 0
        /\ \A b \in 1 .. n : b > 1 =>
             Offset(blocks, b) = Offset(blocks, b - 1) + (Len(blocks[b - 1]) + 1)
    BY OffsetsAreNext
  <1>3. /\ \A b \in 0 .. n : IsText(h[b])
        /\ \A b \in 1 .. n : h[b] = Cat(Lead(h, b), blocks[b])
    BY DEF Chained
  <1> HIDE DEF n
  <1>4. 0 \in T
    BY <1>1
  <1>5. ASSUME NEW b \in 1 .. n, b - 1 \in T PROVE b \in T
    <2>1. IsText(Lead(h, b)) /\ Len(Lead(h, b)) = Offset(blocks, b) /\ Offset(blocks, b) \in Nat
      <3>1. CASE b = 1
        BY <1>2, <3>1, EmptyIsText DEF Lead
      <3>2. CASE b # 1
        <4> DEFINE x == h[b - 1]
                   y == <<Separator>>
        <4>1. b - 1 > 0 /\ b - 1 \in 1 .. n /\ b > 1
          BY <1>1, <3>2
        <4>2. IsText(x) /\ IsText(y) /\ Len(y) = 1
          BY <1>3, <4>1, OneIsText
        <4>3. /\ Len(x) = Offset(blocks, b - 1) + Len(blocks[b - 1])
              /\ Offset(blocks, b - 1) \in Nat
          BY <1>5, <4>1
        <4>4. Lead(h, b) = Cat(x, y)
          BY <3>2 DEF Lead
        <4> HIDE DEF x, y
        <4>5. IsText(Cat(x, y)) /\ Len(Cat(x, y)) = Len(x) + Len(y)
          BY <4>2, ConcatIsText
        <4>6. Offset(blocks, b) = Offset(blocks, b - 1) + (Len(blocks[b - 1]) + 1)
          BY <1>2, <4>1
        <4>7. Len(blocks[b - 1]) \in Nat
          BY <1>1, <4>1
        <4> QED
          BY <4>2, <4>3, <4>4, <4>5, <4>6, <4>7
      <3> QED
        BY <3>1, <3>2
    <2>2. Len(h[b]) = Len(Lead(h, b)) + Len(blocks[b])
      BY <1>1, <1>3, <2>1, ConcatIsText
    <2> QED
      BY <2>1, <2>2
  <1>6. 0 .. n \subseteq T
    <2> HIDE DEF T
    <2> QED
      BY <1>1, <1>4, <1>5, IntervalInduction
  <1>7. \A b \in 1 .. n : b \in 0 .. n /\ b > 0
    BY <1>1
  <1> QED
    BY <1>6, <1>7 DEF n

\* Where the blocks stand in the document.
Standing(blocks, d) ==
  /\ IsText(d)
  /\ \A b \in 1 .. Len(blocks) : Within(blocks[b], d, Offset(blocks, b))
  /\ \A b \in 1 .. Len(blocks) : b > 1 =>
       /\ Offset(blocks, b) = Offset(blocks, b - 1) + (Len(blocks[b - 1]) + 1)
       /\ d[Offset(blocks, b)] = Separator
  /\ \A b, c \in 1 .. Len(blocks) : b < c =>
       Offset(blocks, b) + Len(blocks[b]) < Offset(blocks, c)
  /\ Offset(blocks, 1) = 0
  /\ Len(d) = IF Len(blocks) = 0 THEN 0
              ELSE Offset(blocks, Len(blocks)) + Len(blocks[Len(blocks)])

LEMMA BlocksStand ==
  ASSUME NEW blocks, Blocks(blocks)
  PROVE  Standing(blocks, Join(blocks))
  <1> DEFINE n == Len(blocks)
             d == Join(blocks)
             o(b) == Offset(blocks, b)
  <1>1. n \in Nat /\ \A b \in 1 .. n : IsText(blocks[b]) /\ Len(blocks[b]) \in Nat
    BY TextHasLength DEF Blocks
  <1>2. PICK h : Chained(blocks, h) /\ d = h[n]
    BY JoinIsChained
  <1>3. /\ o(1) = 0
        /\ \A b \in 1 .. n : b > 1 => o(b) = o(b - 1) + (Len(blocks[b - 1]) + 1)
    BY OffsetsAreNext
  <1>4. \A b \in 1 .. n : /\ IsText(Lead(h, b)) /\ Len(Lead(h, b)) = o(b)
                          /\ o(b) \in Nat /\ Len(h[b]) = o(b) + Len(blocks[b])
    BY <1>2, ChainLengths
  <1>5. /\ \A b \in 0 .. n : IsText(h[b])
        /\ h[0] = <<>> /\ \A b \in 1 .. n : h[b] = Cat(Lead(h, b), blocks[b])
    BY <1>2 DEF Chained
  <1> HIDE DEF n, d, o
  <1>6. ASSUME NEW b \in 1 .. n
        PROVE  /\ \A k \in 1 .. o(b) : h[b][k] = Lead(h, b)[k]
               /\ \A k \in (o(b) + 1) .. (o(b) + Len(blocks[b])) : h[b][k] = blocks[b][k - o(b)]
    <2> DEFINE x == Lead(h, b)
               y == blocks[b]
    <2>1. IsText(x) /\ IsText(y) /\ Len(x) = o(b) /\ h[b] = Cat(x, y)
      BY <1>1, <1>4, <1>5
    <2> HIDE DEF x, y
    <2>2. /\ \A k \in 1 .. Len(x) : Cat(x, y)[k] = x[k]
          /\ \A k \in (Len(x) + 1) .. (Len(x) + Len(y)) : Cat(x, y)[k] = y[k - Len(x)]
      BY <2>1, ConcatParts
    <2>3. /\ \A k \in 1 .. o(b) : h[b][k] = x[k]
          /\ \A k \in (o(b) + 1) .. (o(b) + Len(y)) : h[b][k] = y[k - o(b)]
      BY <2>1, <2>2
    <2> QED
      BY <2>3 DEF x, y
  <1>7. ASSUME NEW b \in 1 .. n, b > 1
        PROVE  /\ \A k \in 1 .. Len(h[b - 1]) : h[b][k] = h[b - 1][k]
               /\ Len(h[b - 1]) + 1 = o(b) /\ h[b][o(b)] = Separator
    <2> DEFINE x == h[b - 1]
               y == <<Separator>>
    <2>1. b - 1 \in 1 .. n /\ b - 1 \in 0 .. n
      BY <1>1, <1>7
    <2>1a. IsText(x) /\ IsText(y) /\ Len(y) = 1 /\ y[1] = Separator
      BY <1>5, <2>1, OneIsText
    <2>2. Len(x) + 1 = o(b) /\ Len(x) \in Nat
      <3>1. Len(x) = o(b - 1) + Len(blocks[b - 1]) /\ o(b - 1) \in Nat
        BY <1>4, <2>1
      <3>2. o(b) = o(b - 1) + (Len(blocks[b - 1]) + 1)
        BY <1>3, <1>7
      <3>3. Len(blocks[b - 1]) \in Nat
        BY <1>1, <2>1
      <3> HIDE DEF x
      <3> QED
        BY <3>1, <3>2, <3>3
    <2>3. Lead(h, b) = Cat(x, y)
      BY <1>7 DEF Lead
    <2> HIDE DEF x, y
    <2>4. /\ \A k \in 1 .. Len(x) : Cat(x, y)[k] = x[k]
          /\ \A k \in (Len(x) + 1) .. (Len(x) + Len(y)) : Cat(x, y)[k] = y[k - Len(x)]
      BY <2>1a, ConcatParts
    <2>5. ASSUME NEW k \in 1 .. Len(x) PROVE h[b][k] = x[k]
      <3>1. k \in 1 .. o(b)
        BY <2>2
      <3> QED
        BY <1>6, <2>3, <2>4, <3>1
    <2>6. h[b][o(b)] = Separator
      <3>1. o(b) \in 1 .. o(b) /\ o(b) \in (Len(x) + 1) .. (Len(x) + Len(y)) /\ o(b) - Len(x) = 1
        BY <2>1a, <2>2
      <3> QED
        BY <1>6, <2>1a, <2>3, <2>4, <3>1
    <2> QED
      BY <2>2, <2>5, <2>6 DEF x
  <1>8. ASSUME NEW b \in 1 .. n, NEW m \in Nat
        PROVE  b + m <= n => /\ Len(h[b]) <= Len(h[b + m])
                             /\ \A k \in 1 .. Len(h[b]) : h[b + m][k] = h[b][k]
    <2> DEFINE T == {i \in 0 .. m : b + i <= n => /\ Len(h[b]) <= Len(h[b + i])
                                                  /\ \A k \in 1 .. Len(h[b]) : h[b + i][k] = h[b][k]}
    <2>1. \A c \in 1 .. n : Len(h[c]) \in Nat
      BY <1>1, <1>4
    <2>2. 0 \in T
      BY <2>1
    <2>3. ASSUME NEW i \in 1 .. m, i - 1 \in T, b + i <= n
          PROVE  /\ Len(h[b]) <= Len(h[b + i])
                 /\ \A k \in 1 .. Len(h[b]) : h[b + i][k] = h[b][k]
      <3> DEFINE c == b + i
      <3>1. c \in 1 .. n /\ c > 1 /\ c - 1 = b + (i - 1) /\ b + (i - 1) <= n /\ c - 1 \in 1 .. n
        BY <1>1, <2>3
      <3>2. /\ Len(h[b]) <= Len(h[b + (i - 1)])
            /\ \A k \in 1 .. Len(h[b]) : h[b + (i - 1)][k] = h[b][k]
        BY <2>3, <3>1
      <3> HIDE DEF c
      <3>3. /\ Len(h[b]) <= Len(h[c - 1])
            /\ \A k \in 1 .. Len(h[b]) : h[c - 1][k] = h[b][k]
        BY <3>1, <3>2
      <3>4. /\ \A k \in 1 .. Len(h[c - 1]) : h[c][k] = h[c - 1][k]
            /\ Len(h[c - 1]) + 1 = o(c)
        BY <1>7, <3>1
      <3>5. Len(h[c - 1]) <= Len(h[c])
        BY <1>1, <1>4, <2>1, <3>1, <3>4
      <3>6. Len(h[b]) <= Len(h[c])
        BY <2>1, <3>1, <3>3, <3>5
      <3>7. ASSUME NEW k \in 1 .. Len(h[b]) PROVE h[c][k] = h[b][k]
        <4>1. k \in 1 .. Len(h[c - 1])
          BY <2>1, <3>1, <3>3
        <4> QED
          BY <3>3, <3>4, <4>1
      <3> QED
        BY <3>6, <3>7 DEF c
    <2>4. \A i \in 1 .. m : i - 1 \in T => i \in T
      BY <2>3
    <2>5. 0 .. m \subseteq T
      <3> HIDE DEF T
      <3> QED
        BY <2>2, <2>4, IntervalInduction
    <2>6. m \in 0 .. m
      OBVIOUS
    <2> QED
      BY <2>5, <2>6
  <1>9. ASSUME NEW b \in 1 .. n, NEW c \in 1 .. n, b <= c
        PROVE  /\ Len(h[b]) <= Len(h[c])
               /\ \A k \in 1 .. Len(h[b]) : h[c][k] = h[b][k]
    <2> DEFINE m == c - b
    <2>1. m \in Nat /\ b + m = c /\ b + m <= n
      BY <1>9
    <2> HIDE DEF m
    <2> QED
      BY <1>8, <2>1
  <1>10. ASSUME NEW b \in 1 .. n PROVE Within(blocks[b], d, o(b))
    <2>1. n \in 1 .. n /\ b <= n
      BY <1>1
    <2>2. Len(h[b]) <= Len(d) /\ \A k \in 1 .. Len(h[b]) : d[k] = h[b][k]
      BY <1>2, <1>9, <2>1
    <2>3. ASSUME NEW k \in 1 .. Len(blocks[b]) PROVE d[o(b) + k] = blocks[b][k]
      <3> DEFINE p == o(b) + k
      <3>1. p \in 1 .. Len(h[b]) /\ p \in (o(b) + 1) .. (o(b) + Len(blocks[b])) /\ p - o(b) = k
        BY <1>1, <1>4
      <3> HIDE DEF p
      <3>2. d[p] = blocks[b][k]
        BY <1>6, <2>2, <3>1
      <3> QED
        BY <3>2 DEF p
    <2>4. o(b) \in Nat /\ o(b) + Len(blocks[b]) <= Len(d)
      BY <1>4, <2>2
    <2> QED
      BY <2>3, <2>4 DEF Within
  <1>11. ASSUME NEW b \in 1 .. n, b > 1 PROVE d[o(b)] = Separator
    <2>1. n \in 1 .. n /\ b <= n
      BY <1>1
    <2>2. o(b) \in 1 .. Len(h[b])
      <3>1. b - 1 \in 1 .. n
        BY <1>1, <1>11
      <3>2. Len(h[b - 1]) \in Nat /\ Len(h[b - 1]) + 1 = o(b)
        BY <1>1, <1>4, <1>7, <1>11, <3>1
      <3>3. o(b) <= Len(h[b]) /\ o(b) \in Nat
        BY <1>1, <1>4
      <3> QED
        BY <3>2, <3>3
    <2> QED
      BY <1>2, <1>7, <1>9, <1>11, <2>1, <2>2
  <1>12. ASSUME NEW b \in 1 .. n, NEW c \in 1 .. n, b < c
         PROVE  o(b) + Len(blocks[b]) < o(c)
    <2>1. c - 1 \in 1 .. n /\ b <= c - 1 /\ c > 1
      BY <1>1, <1>12
    <2>2. Len(h[b]) <= Len(h[c - 1]) /\ Len(h[c - 1]) + 1 = o(c)
      BY <1>7, <1>9, <2>1
    <2> QED
      BY <1>1, <1>4, <2>1, <2>2
  <1>13. IsText(d) /\ Len(d) = IF n = 0 THEN 0 ELSE o(n) + Len(blocks[n])
    <2>1. CASE n = 0
      BY <1>2, <1>5, <2>1, EmptyIsText
    <2>2. CASE n # 0
      <3>1. n \in 1 .. n /\ n \in 0 .. n
        BY <1>1, <2>2
      <3> QED
        BY <1>2, <1>4, <1>5, <2>2, <3>1
    <2> QED
      BY <2>1, <2>2
  <1> QED
    BY <1>3, <1>10, <1>11, <1>12, <1>13 DEF Standing, n, d, o

----------------------------------------------------------------------------
(* What the pipeline makes of the document *)

FoundIn(found, blocks) ==
  /\ IsText(found)
  /\ \A i \in 1 .. Len(found) : SpanInBlock(found[i], blocks)
  /\ \A i, j \in 1 .. Len(found) : i < j =>
       \/ found[i].block < found[j].block
       \/ found[i].block = found[j].block /\ found[i].end <= found[j].start

\* The places of the spans in their blocks and in the document, and what they get.
BlockStarts(found) == [i \in 1 .. Len(found) |-> found[i].start]
BlockEnds(found) == [i \in 1 .. Len(found) |-> found[i].end]
FoundStarts(blocks, found) ==
  [i \in 1 .. Len(found) |-> Offset(blocks, found[i].block) + found[i].start]
FoundEnds(blocks, found) ==
  [i \in 1 .. Len(found) |-> Offset(blocks, found[i].block) + found[i].end]
Replacements(found) == [i \in 1 .. Len(found) |-> Replacement(found, i)]
FoundOf(found, b) == {j \in 1 .. Len(found) : found[j].block = b}

LEMMA FoundArePlaces ==
  ASSUME NEW blocks, Blocks(blocks), NEW d, Standing(blocks, d), NEW found, FoundIn(found, blocks)
  PROVE  LET a == FoundStarts(blocks, found)
             z == FoundEnds(blocks, found)
             I == 1 .. Len(found)
         IN  /\ Places(d, I, a, z)
             /\ \A i, j \in I : i < j => z[i] <= a[j]
             /\ \A i \in I : Slice(d, a[i], z[i]) = found[i].original
             /\ \A i \in I : /\ found[i].block \in 1 .. Len(blocks)
                             /\ Offset(blocks, found[i].block) <= a[i]
                             /\ z[i] <= Offset(blocks, found[i].block) + Len(blocks[found[i].block])
  <1> DEFINE a == FoundStarts(blocks, found)
             z == FoundEnds(blocks, found)
             I == 1 .. Len(found)
             n == Len(blocks)
             o(b) == Offset(blocks, b)
  <1>1. /\ IsText(d)
        /\ \A b \in 1 .. n : Within(blocks[b], d, o(b))
        /\ \A b, c \in 1 .. n : b < c => o(b) + Len(blocks[b]) < o(c)
    BY DEF Standing
  <1>2. \A b \in 1 .. n : /\ IsText(blocks[b]) /\ Len(blocks[b]) \in Nat
                          /\ o(b) \in Nat /\ o(b) + Len(blocks[b]) <= Len(d)
    BY <1>1, TextHasLength DEF Blocks, Within
  <1>3. \A i \in I : /\ found[i].block \in 1 .. n
                     /\ found[i].start \in Nat /\ found[i].end \in Nat
                     /\ found[i].start < found[i].end
                     /\ found[i].end <= Len(blocks[found[i].block])
                     /\ found[i].original = Slice(blocks[found[i].block], found[i].start, found[i].end)
    BY DEF FoundIn, SpanInBlock
  <1>4. \A i \in I : a[i] = o(found[i].block) + found[i].start /\ z[i] = o(found[i].block) + found[i].end
    BY DEF FoundStarts, FoundEnds
  <1>5. \A i, j \in I : i < j =>
          \/ found[i].block < found[j].block
          \/ found[i].block = found[j].block /\ found[i].end <= found[j].start
    BY DEF FoundIn
  <1>6. \A i \in I : i \in Int
    OBVIOUS
  <1> HIDE DEF a, z, I, n, o
  <1>7. ASSUME NEW i \in I
        PROVE  /\ a[i] \in Nat /\ z[i] \in Nat /\ a[i] < z[i]
               /\ z[i] <= o(found[i].block) + Len(blocks[found[i].block])
               /\ z[i] <= Len(d) /\ o(found[i].block) <= a[i]
    <2> DEFINE b == found[i].block
               p == found[i].start
               q == found[i].end
    <2>1. b \in 1 .. n /\ p \in Nat /\ q \in Nat /\ p < q /\ q <= Len(blocks[b])
      BY <1>3
    <2>2. a[i] = o(b) + p /\ z[i] = o(b) + q
      BY <1>4
    <2>3. o(b) \in Nat /\ o(b) + Len(blocks[b]) <= Len(d) /\ Len(blocks[b]) \in Nat
      BY <1>2, <2>1
    <2>4. Len(d) \in Nat
      BY <1>1, TextHasLength
    <2> HIDE DEF b, p, q
    <2>5. /\ a[i] \in Nat /\ z[i] \in Nat /\ a[i] < z[i] /\ z[i] <= o(b) + Len(blocks[b])
          /\ z[i] <= Len(d) /\ o(b) <= a[i]
      BY <2>1, <2>2, <2>3, <2>4
    <2> QED
      BY <2>5 DEF b
  <1>8. ASSUME NEW i \in I, NEW j \in I, i < j PROVE z[i] <= a[j]
    <2>1. CASE found[i].block < found[j].block
      <3>1. o(found[i].block) + Len(blocks[found[i].block]) < o(found[j].block)
        BY <1>1, <1>3, <2>1
      <3>2. /\ o(found[i].block) \in Nat /\ Len(blocks[found[i].block]) \in Nat
            /\ o(found[j].block) \in Nat
        BY <1>2, <1>3
      <3> QED
        BY <1>7, <3>1, <3>2
    <2>2. CASE found[i].block = found[j].block /\ found[i].end <= found[j].start
      BY <1>2, <1>3, <1>4, <2>2
    <2> QED
      BY <1>5, <1>8, <2>1, <2>2
  <1>9. Places(d, I, a, z)
    <2>1. \A i, j \in I : i = j \/ z[i] <= a[j] \/ z[j] <= a[i]
      BY <1>6, <1>8
    <2> QED
      BY <1>7, <2>1 DEF Places
  <1>10. ASSUME NEW i \in I PROVE Slice(d, a[i], z[i]) = found[i].original
    <2> DEFINE b == found[i].block
               p == found[i].start
               q == found[i].end
    <2>1. b \in 1 .. n /\ p \in Nat /\ q \in Nat /\ p <= q /\ q <= Len(blocks[b])
      BY <1>3
    <2>2. a[i] = o(b) + p /\ z[i] = o(b) + q /\ found[i].original = Slice(blocks[b], p, q)
      BY <1>3, <1>4
    <2>3. IsText(blocks[b]) /\ Within(blocks[b], d, o(b))
      BY <1>1, <1>2, <2>1
    <2> HIDE DEF b, p, q
    <2>4. Slice(d, o(b) + p, o(b) + q) = Slice(blocks[b], p, q)
      BY <1>1, <2>1, <2>3, SliceOfPart
    <2> QED
      BY <2>2, <2>4
  <1> QED
    BY <1>3, <1>7, <1>8, <1>9, <1>10 DEF a, z, I, n, o

\* The spans of a block are the places in it.
LEMMA BlockIsPart ==
  ASSUME NEW blocks, Blocks(blocks), NEW d, Standing(blocks, d), NEW found, FoundIn(found, blocks),
         NEW b \in 1 .. Len(blocks)
  PROVE  LET J == FoundOf(found, b)
         IN  /\ Places(blocks[b], J, BlockStarts(found), BlockEnds(found))
             /\ PartOf(blocks[b], J, BlockStarts(found), BlockEnds(found), d, 1 .. Len(found),
                       FoundStarts(blocks, found), FoundEnds(blocks, found), Offset(blocks, b))
             /\ RedactBlock(blocks, found, b) =
                  Splice(blocks[b], Changes(J, BlockStarts(found), BlockEnds(found), Replacements(found)))
  <1> DEFINE a == FoundStarts(blocks, found)
             z == FoundEnds(blocks, found)
             p == BlockStarts(found)
             q == BlockEnds(found)
             I == 1 .. Len(found)
             J == FoundOf(found, b)
             n == Len(blocks)
             o(c) == Offset(blocks, c)
  <1>1. /\ \A c \in 1 .. n : Within(blocks[c], d, o(c))
        /\ \A c, e \in 1 .. n : c < e => o(c) + Len(blocks[c]) < o(e)
    BY DEF Standing
  <1>2. \A c \in 1 .. n : Len(blocks[c]) \in Nat /\ o(c) \in Nat
    BY <1>1, TextHasLength DEF Blocks, Within
  <1>3. \A i \in I : /\ found[i].block \in 1 .. n
                     /\ found[i].start \in Nat /\ found[i].end \in Nat
                     /\ found[i].start < found[i].end
                     /\ found[i].end <= Len(blocks[found[i].block])
    BY DEF FoundIn, SpanInBlock
  <1>4. \A i \in I : /\ a[i] = o(found[i].block) + found[i].start
                     /\ z[i] = o(found[i].block) + found[i].end
                     /\ p[i] = found[i].start /\ q[i] = found[i].end
    BY DEF FoundStarts, FoundEnds, BlockStarts, BlockEnds
  <1>5. \A i, j \in I : i < j =>
          \/ found[i].block < found[j].block
          \/ found[i].block = found[j].block /\ found[i].end <= found[j].start
    BY DEF FoundIn
  <1>6. J \in SUBSET I /\ \A j \in J : found[j].block = b
    BY DEF FoundOf
  <1>7. \A i \in I \ J : found[i].block # b
    BY DEF FoundOf
  <1>8. \A i \in I : i \in Int
    OBVIOUS
  <1>9. /\ RedactBlock(blocks, found, b) =
             Splice(blocks[b], {[start |-> found[i].start, end |-> found[i].end,
                                 with |-> Replacement(found, i)]
                                  : i \in {j \in DOMAIN found : found[j].block = b}})
        /\ J = {j \in DOMAIN found : found[j].block = b}
        /\ \A j \in I : Replacements(found)[j] = Replacement(found, j)
    <2>1. DOMAIN found = 1 .. Len(found)
      BY TextHasLength DEF FoundIn
    <2> QED
      BY <2>1 DEF RedactBlock, FoundOf, Replacements
  <1> HIDE DEF a, z, p, q, I, J, n, o
  <1>10. b \in 1 .. n
    BY DEF n
  <1>11. Places(blocks[b], J, p, q)
    <2>1. \A i \in J : p[i] \in Nat /\ q[i] \in Nat /\ p[i] < q[i] /\ q[i] <= Len(blocks[b])
      BY <1>3, <1>4, <1>6
    <2>2. ASSUME NEW i \in J, NEW j \in J, i < j PROVE q[i] <= p[j]
      <3>1. i \in I /\ j \in I /\ found[i].block = b /\ found[j].block = b
        BY <1>6
      <3>2. b \in Int
        BY <1>10
      <3> QED
        BY <1>4, <1>5, <2>2, <3>1, <3>2
    <2>3. \A i, j \in J : i = j \/ q[i] <= p[j] \/ q[j] <= p[i]
      BY <1>6, <1>8, <2>2
    <2> QED
      BY <2>1, <2>3 DEF Places
  <1>12. PartOf(blocks[b], J, p, q, d, I, a, z, o(b))
    <2>1. \A j \in J : a[j] = o(b) + p[j] /\ z[j] = o(b) + q[j]
      BY <1>4, <1>6
    <2>2. ASSUME NEW i \in I \ J PROVE z[i] <= o(b) \/ o(b) + Len(blocks[b]) <= a[i]
      <3> DEFINE c == found[i].block
                 x == found[i].start
                 y == found[i].end
      <3>1. /\ c \in 1 .. n /\ x \in Nat /\ y \in Nat /\ y <= Len(blocks[c]) /\ c # b
            /\ a[i] = o(c) + x /\ z[i] = o(c) + y
        BY <1>3, <1>4, <1>7
      <3> HIDE DEF c, x, y
      <3>2. /\ Len(blocks[c]) \in Nat /\ o(c) \in Nat /\ Len(blocks[b]) \in Nat /\ o(b) \in Nat
            /\ (c < b \/ b < c)
        BY <1>2, <1>10, <3>1
      <3>3. CASE c < b
        <4>1. o(c) + Len(blocks[c]) < o(b)
          BY <1>1, <1>10, <3>1, <3>3
        <4> QED
          BY <3>1, <3>2, <4>1
      <3>4. CASE b < c
        <4>1. o(b) + Len(blocks[b]) < o(c)
          BY <1>1, <1>10, <3>1, <3>4
        <4> QED
          BY <3>1, <3>2, <4>1
      <3> QED
        BY <3>2, <3>3, <3>4
    <2> QED
      BY <1>1, <1>6, <1>10, <2>1, <2>2 DEF PartOf
  <1>13. RedactBlock(blocks, found, b) = Splice(blocks[b], Changes(J, p, q, Replacements(found)))
    <2>1. Changes(J, p, q, Replacements(found)) =
            {[start |-> found[i].start, end |-> found[i].end, with |-> Replacement(found, i)] : i \in J}
      BY <1>4, <1>6, <1>9 DEF Changes
    <2> QED
      BY <1>9, <2>1
  <1> QED
    BY <1>11, <1>12, <1>13 DEF a, z, p, q, I, J, o

\* The text of the pipeline is the document with every span replaced.
LEMMA PipelineText ==
  ASSUME NEW blocks, Blocks(blocks), NEW d, Standing(blocks, d), NEW found, FoundIn(found, blocks),
         NEW lines, lines = [b \in 1 .. Len(blocks) |-> RedactBlock(blocks, found, b)],
         NEW S, Builds(d, 1 .. Len(found), FoundStarts(blocks, found), FoundEnds(blocks, found),
                       Replacements(found), S)
  PROVE  Blocks(lines) /\ Join(lines) = S[Len(d)]
  <1> DEFINE a == FoundStarts(blocks, found)
             z == FoundEnds(blocks, found)
             w == Replacements(found)
             I == 1 .. Len(found)
             n == Len(blocks)
             o(c) == Offset(blocks, c)
             last(b) == o(b) + Len(blocks[b])
  <1>1. n \in Nat /\ \A b \in 1 .. n : IsText(blocks[b]) /\ Len(blocks[b]) \in Nat
    BY TextHasLength DEF Blocks
  <1>2. /\ IsText(d)
        /\ \A b \in 1 .. n : Within(blocks[b], d, o(b))
        /\ \A b \in 1 .. n : b > 1 => o(b) = o(b - 1) + (Len(blocks[b - 1]) + 1) /\ d[o(b)] = Separator
        /\ \A b, c \in 1 .. n : b < c => o(b) + Len(blocks[b]) < o(c)
        /\ o(1) = 0
        /\ Len(d) = IF n = 0 THEN 0 ELSE o(n) + Len(blocks[n])
    BY DEF Standing
  <1>3. \A b \in 1 .. n : o(b) \in Nat /\ last(b) <= Len(d)
    BY <1>2 DEF Within
  <1>4. \A i \in I : /\ found[i].block \in 1 .. n
                     /\ o(found[i].block) <= a[i] /\ z[i] <= last(found[i].block)
    BY FoundArePlaces
  <1>5. Builds(d, I, a, z, w, S)
    OBVIOUS
  <1>6. \A b \in 1 .. n : lines[b] = RedactBlock(blocks, found, b)
    OBVIOUS
  <1>7. lines = [b \in 1 .. n |-> lines[b]]
    OBVIOUS
  <1>8. IsText(lines) /\ Len(lines) = n
    <2> HIDE DEF n
    <2> QED
      BY <1>1, <1>7, FunctionIsText
  <1>9. \A i \in I : IsText(w[i])
    BY <1>5 DEF Builds
  <1>10. ASSUME NEW b \in 1 .. n
         PROVE  IsText(lines[b]) /\ S[last(b)] = Cat(S[o(b)], lines[b])
    <2> DEFINE J == FoundOf(found, b)
               p == BlockStarts(found)
               q == BlockEnds(found)
               u == blocks[b]
    <2>1. /\ Places(u, J, p, q)
          /\ PartOf(u, J, p, q, d, I, a, z, o(b))
          /\ lines[b] = Splice(u, Changes(J, p, q, w))
      BY <1>6, BlockIsPart
    <2>2. IsText(u) /\ \A j \in J : IsText(w[j])
      BY <1>1, <1>9 DEF FoundOf
    <2> HIDE DEF a, z, w, I, J, p, q, u, n, o
    <2>3. PICK R : Builds(u, J, p, q, w, R) /\ Splice(u, Changes(J, p, q, w)) = R[Len(u)]
      BY <2>1, <2>2, SpliceIsBuilt
    <2>4. \A k \in 0 .. Len(u) : S[o(b) + k] = Cat(S[o(b)], R[k])
      BY <1>5, <2>1, <2>3, PartIsBuilt
    <2>5. Len(u) \in 0 .. Len(u)
      BY <2>2, TextHasLength
    <2>6. IsText(R[Len(u)])
      BY <2>3, <2>5 DEF Builds
    <2> QED
      BY <2>1, <2>3, <2>4, <2>5, <2>6 DEF u
  <1>20. \A b \in 1 .. n : o(b) \in Nat /\ last(b) \in Nat /\ o(b) <= last(b)
    BY <1>1, <1>3
  <1>21. \A b, c \in 1 .. n : b < c => last(b) < o(c)
    BY <1>2
  <1>11. ASSUME NEW b \in 1 .. n, b > 1
         PROVE  S[o(b)] = Cat(S[last(b - 1)], <<Separator>>)
    <2>1. b - 1 \in 1 .. n /\ n \in Nat
      BY <1>1, <1>11
    <2> HIDE DEF n
    <2>2. o(b) = last(b - 1) + 1 /\ d[o(b)] = Separator
      <3>1. o(b) = o(b - 1) + (Len(blocks[b - 1]) + 1) /\ d[o(b)] = Separator
        BY <1>2, <1>11
      <3>2. o(b - 1) \in Nat /\ Len(blocks[b - 1]) \in Nat
        BY <1>1, <1>20, <2>1
      <3> HIDE DEF o
      <3> QED
        BY <3>1, <3>2
    <2>3. o(b) \in 1 .. Len(d) /\ o(b) - 1 = last(b - 1)
      <3> HIDE DEF o, last
      <3>1. o(b) \in Nat /\ last(b) \in Nat /\ o(b) <= last(b) /\ last(b) <= Len(d)
        BY <1>3, <1>20
      <3>2. last(b - 1) \in Nat
        BY <1>20, <2>1
      <3>3. Len(d) \in Nat
        BY <1>2, TextHasLength
      <3> QED
        BY <2>2, <3>1, <3>2, <3>3
    <2>4. ASSUME NEW i \in I PROVE ~(a[i] < o(b) /\ o(b) <= z[i])
      <3> DEFINE c == found[i].block
      <3>1. c \in 1 .. n /\ o(c) <= a[i] /\ z[i] <= last(c)
        BY <1>4
      <3>2. a[i] \in Nat /\ z[i] \in Nat
        BY <1>5 DEF Builds, Places
      <3>3. n \in Nat
        BY <1>1
      <3> HIDE DEF a, z, w, I, n, c, o, last
      <3>4. c < b \/ c = b \/ b < c
        BY <3>1, <3>3
      <3>5. o(b) \in Nat /\ last(b) \in Nat /\ o(c) \in Nat /\ last(c) \in Nat /\ o(b) <= last(b)
        BY <1>20, <3>1
      <3>6. CASE c < b
        <4>1. last(c) < o(b)
          BY <1>21, <3>1, <3>6
        <4> QED
          BY <3>1, <3>2, <3>5, <4>1
      <3>7. CASE c = b
        BY <3>1, <3>2, <3>5, <3>7
      <3>8. CASE b < c
        <4>1. last(b) < o(c)
          BY <1>21, <3>1, <3>8
        <4> QED
          BY <3>1, <3>2, <3>5, <4>1
      <3> QED
        BY <3>4, <3>6, <3>7, <3>8
    <2>5. Outside(I, a, z, o(b))
      BY <2>4 DEF Outside
    <2> HIDE DEF o, last, a, z, w, I
    <2> QED
      BY <1>5, <2>2, <2>3, <2>5 DEF Builds
  <1>12. Blocks(lines)
    BY <1>8, <1>10 DEF Blocks
  <1>13. PICK g : Chained(lines, g) /\ Join(lines) = g[Len(lines)]
    BY <1>12, JoinIsChained
  <1>14. g[0] = <<>> /\ \A b \in 1 .. n : g[b] = Cat(Lead(g, b), lines[b])
    BY <1>8, <1>13 DEF Chained
  <1>15. S[0] = <<>>
    BY <1>5 DEF Builds
  <1> HIDE DEF a, z, w, I, n, o, last
  <1> DEFINE T == {b \in 0 .. n : b > 0 => g[b] = S[last(b)]}
  <1>16. 0 \in T
    BY <1>1
  <1>17. ASSUME NEW b \in 1 .. n, b - 1 \in T PROVE b \in T
    <2>1. Lead(g, b) = S[o(b)]
      <3>1. CASE b = 1
        BY <1>2, <1>15, <3>1 DEF Lead
      <3>2. CASE b # 1
        <4>1. b > 1 /\ b - 1 > 0
          BY <1>1, <3>2
        <4>2. g[b - 1] = S[last(b - 1)]
          BY <1>17, <4>1
        <4>3. Lead(g, b) = Cat(g[b - 1], <<Separator>>)
          BY <3>2 DEF Lead
        <4> QED
          BY <1>11, <4>1, <4>2, <4>3
      <3> QED
        BY <3>1, <3>2
    <2>2. g[b] = S[last(b)]
      BY <1>10, <1>14, <2>1
    <2> QED
      BY <1>1, <2>2
  <1>18. 0 .. n \subseteq T
    <2> HIDE DEF T
    <2> QED
      BY <1>1, <1>16, <1>17, IntervalInduction
  <1>19. g[n] = S[Len(d)]
    <2>1. CASE n = 0
      BY <1>2, <1>14, <1>15, <2>1
    <2>2. CASE n # 0
      <3>1. n \in 0 .. n /\ n > 0
        BY <1>1, <2>2
      <3>2. g[n] = S[last(n)]
        BY <1>18, <3>1
      <3>3. Len(d) = last(n)
        BY <1>2, <2>2 DEF last
      <3> QED
        BY <3>2, <3>3
    <2> QED
      BY <2>1, <2>2
  <1> QED
    BY <1>8, <1>12, <1>13, <1>19

\* The spans of the pipeline stand in its text where they say.
LEMMA PipelineIsLaid ==
  ASSUME NEW blocks, Blocks(blocks), NEW d, Standing(blocks, d), NEW found, FoundIn(found, blocks),
         NEW lines, lines = [b \in 1 .. Len(blocks) |-> RedactBlock(blocks, found, b)],
         NEW q, q = [i \in 1 .. Len(found) |-> PipelineSpan(blocks, found, i)]
  PROVE  Laid(d, Join(lines), q, DOMAIN q)
  <1> DEFINE a == FoundStarts(blocks, found)
             z == FoundEnds(blocks, found)
             w == Replacements(found)
             I == 1 .. Len(found)
             b == Starts(q)
             c == Ends(q)
             u == Originals(q)
             g == [j \in DOMAIN found |-> Growth(found, j)]
  <1>1. /\ Places(d, I, a, z)
        /\ \A i, j \in I : i < j => z[i] <= a[j]
        /\ \A i \in I : Slice(d, a[i], z[i]) = found[i].original
    BY FoundArePlaces
  <1>2. IsText(d) /\ Len(found) \in Nat /\ DOMAIN found = I
    BY TextHasLength DEF Standing, FoundIn
  <1>3. \A i \in I : w[i] = Replacement(found, i)
    BY DEF Replacements
  <1>4. \A i \in I : IsText(w[i]) /\ Len(w[i]) = 2
    BY <1>3, PlaceholderIsText DEF Replacement
  <1>5. \A i \in I : a[i] = Offset(blocks, found[i].block) + found[i].start
                     /\ z[i] - a[i] = found[i].end - found[i].start
    <2>1. ASSUME NEW i \in I
          PROVE  a[i] = Offset(blocks, found[i].block) + found[i].start
                 /\ z[i] - a[i] = found[i].end - found[i].start
      <3> DEFINE o == Offset(blocks, found[i].block)
                 x == found[i].start
                 y == found[i].end
      <3>1. a[i] = o + x /\ z[i] = o + y
        BY DEF FoundStarts, FoundEnds
      <3>2. found[i].block \in 1 .. Len(blocks) /\ x \in Nat /\ y \in Nat
        BY DEF FoundIn, SpanInBlock
      <3>3. o \in Nat
        BY <3>2 DEF Standing, Within
      <3> HIDE DEF a, z, o, x, y
      <3>4. a[i] = o + x /\ z[i] - a[i] = y - x
        BY <3>1, <3>2, <3>3
      <3> QED
        BY <3>4 DEF o, x, y
    <2> QED
      BY <2>1
  <1>6. \A i \in I : /\ q[i].original = found[i].original /\ q[i].replacement = w[i]
                     /\ q[i].reverted = FALSE
                     /\ q[i].start = a[i] + SumUpTo(i - 1, g)
                     /\ q[i].end = q[i].start + Len(w[i])
    <2>1. \A i \in I : Shift(found, i) = SumUpTo(i - 1, g)
      BY DEF Shift
    <2>2. \A i \in I : q[i] = PipelineSpan(blocks, found, i)
      OBVIOUS
    <2> HIDE DEF a, z, w, g, I
    <2>3. ASSUME NEW i \in I
          PROVE  /\ q[i].original = found[i].original /\ q[i].replacement = w[i]
                 /\ q[i].reverted = FALSE
                 /\ q[i].start = a[i] + SumUpTo(i - 1, g)
                 /\ q[i].end = q[i].start + Len(w[i])
      <3> DEFINE k == Offset(blocks, found[i].block) + found[i].start + Shift(found, i)
      <3>1. k = a[i] + SumUpTo(i - 1, g)
        BY <1>5, <2>1
      <3>2. q[i] = [type |-> found[i].type, original |-> found[i].original,
                    replacement |-> Replacement(found, i),
                    start |-> k, end |-> k + Len(Replacement(found, i)),
                    manual |-> FALSE, reverted |-> FALSE]
        BY <2>2 DEF PipelineSpan
      <3> HIDE DEF k
      <3>3. /\ q[i].original = found[i].original /\ q[i].replacement = Replacement(found, i)
            /\ q[i].reverted = FALSE /\ q[i].start = k /\ q[i].end = k + Len(Replacement(found, i))
        BY <3>2
      <3> QED
        BY <1>3, <3>1, <3>3
    <2> QED
      BY <2>3
  <1>7. PICK S : Builds(d, I, a, z, w, S)
    <2> HIDE DEF a, z, w, I
    <2> QED
      BY <1>1, <1>2, <1>4, SpliceIsBuilt
  <1>8. Join(lines) = S[Len(d)]
    BY <1>7, PipelineText
  <1>9. DOMAIN q = I
    OBVIOUS
  <1>10. \A i \in I : Len(S[a[i]]) = a[i] + SumUpTo(i - 1, g)
    <2>1. \A i \in I : g[i] = Len(w[i]) - (z[i] - a[i])
      <3>1. \A i \in I : g[i] = Len(Replacement(found, i)) - (found[i].end - found[i].start)
        BY <1>2 DEF Growth
      <3> HIDE DEF a, z, w, g, I
      <3> QED
        BY <1>3, <1>5, <3>1
    <2>2. Grows(g, Len(found), a, z, w)
      BY <2>1 DEF Grows
    <2>3. I = 1 .. Len(found)
      OBVIOUS
    <2>4. \A i, j \in I : i < j => z[i] <= a[j]
      BY <1>1
    <2>5. Len(found) \in Nat
      BY <1>2
    <2> HIDE DEF a, z, w, g, I
    <2> QED
      BY <1>7, <2>2, <2>3, <2>4, <2>5, PlacesInOrderShift
  <1> HIDE DEF a, z, w, I, g
  <1>11. \A i \in I : b[i] = q[i].start /\ c[i] = q[i].end /\ u[i] = q[i].original
    BY <1>9 DEF Starts, Ends, Originals
  <1> HIDE DEF b, c, u
  <1>12. \A i \in I : a[i] \in 0 .. Len(d) /\ a[i] \in Nat /\ z[i] \in Nat /\ a[i] < z[i] /\ z[i] <= Len(d)
    <2>1. Len(d) \in Nat
      BY <1>2, TextHasLength
    <2> QED
      BY <1>1, <2>1 DEF Places
  <1>13. Moved(I, a, z, S, b, c)
    <2>1. ASSUME NEW i \in I PROVE b[i] = Len(S[a[i]]) /\ c[i] = Len(S[z[i]])
      <3>1. b[i] = Len(S[a[i]])
        BY <1>6, <1>10, <1>11
      <3>2. S[z[i]] = Cat(S[a[i]], w[i])
        BY <1>7, PlaceIsBuilt
      <3>3. IsText(S[a[i]])
        BY <1>7, <1>12 DEF Builds
      <3>4. Len(S[z[i]]) = Len(S[a[i]]) + Len(w[i])
        BY <1>4, <3>2, <3>3, ConcatIsText
      <3>5. c[i] = b[i] + Len(w[i])
        BY <1>6, <1>11
      <3>6. c[i] = Len(S[z[i]])
        BY <3>1, <3>4, <3>5
      <3> QED
        BY <3>1, <3>6
    <2> QED
      BY <2>1 DEF Moved
  <1>14. \A i \in I : Len(w[i]) > 0
    BY <1>4
  <1>15. /\ Places(S[Len(d)], I, b, c)
         /\ \A i \in I : Slice(S[Len(d)], b[i], c[i]) = w[i]
    BY <1>7, <1>13, <1>14, PlacesMove
  <1>16. \A i \in I : u[i] = Slice(d, a[i], z[i])
    BY <1>1, <1>6, <1>11
  <1>17. \A i \in I : IsText(u[i]) /\ Len(u[i]) > 0
    <2>1. ASSUME NEW i \in I PROVE IsText(u[i]) /\ Len(u[i]) > 0
      <3>1. a[i] \in Nat /\ z[i] \in Nat /\ a[i] < z[i] /\ z[i] <= Len(d)
        BY <1>12
      <3>2. a[i] <= z[i] /\ z[i] - a[i] > 0
        BY <3>1
      <3>3. IsText(Slice(d, a[i], z[i])) /\ Len(Slice(d, a[i], z[i])) = z[i] - a[i]
        BY <1>2, <3>1, <3>2, SliceParts
      <3> QED
        BY <1>16, <3>2, <3>3
    <2> QED
      BY <2>1
  <1>18. Splice(S[Len(d)], Changes(I, b, c, u)) = Splice(d, Changes(I, a, z, u))
    BY <1>7, <1>13, <1>14, <1>17, SpliceTwice
  <1>19. Splice(d, Changes(I, a, z, u)) = d
    BY <1>1, <1>2, <1>16, PlainPlacesAlone
  <1>20. \A i \in I : Content(q[i]) = w[i]
    BY <1>6 DEF Content
  <1>21. \A i \in I : /\ Slice(S[Len(d)], q[i].start, q[i].end) = Content(q[i])
                      /\ IsText(q[i].original) /\ IsText(q[i].replacement)
                      /\ Len(q[i].original) > 0
    BY <1>4, <1>6, <1>11, <1>15, <1>17, <1>20
  <1> QED
    BY <1>8, <1>9, <1>15, <1>18, <1>19, <1>21 DEF Laid, b, c, u

\* When the pipeline has run every span stands in the text.
LEMMA InitPlaces == Init => PInv
  <1> SUFFICES ASSUME Init PROVE PInv
    OBVIOUS
  <1>1. PICK blocks \in Documents :
          /\ document = Join(blocks)
          /\ \E reports \in Reports(blocks) :
               LET found == Found(blocks, reports)
               IN  /\ text = Join([b \in 1 .. Len(blocks) |-> RedactBlock(blocks, found, b)])
                   /\ spans = [i \in 1 .. Len(found) |-> PipelineSpan(blocks, found, i)]
    BY DEF Init
  <1>2. PICK reports \in Reports(blocks) :
          LET found == Found(blocks, reports)
          IN  /\ text = Join([b \in 1 .. Len(blocks) |-> RedactBlock(blocks, found, b)])
              /\ spans = [i \in 1 .. Len(found) |-> PipelineSpan(blocks, found, i)]
    BY <1>1
  <1> DEFINE found == Found(blocks, reports)
             lines == [b \in 1 .. Len(blocks) |-> RedactBlock(blocks, found, b)]
  <1>3. IsText(blocks) /\ \A b \in DOMAIN blocks : IsText(blocks[b])
    BY DocumentsAreTexts
  <1>4. Blocks(blocks)
    <2>1. DOMAIN blocks = 1 .. Len(blocks)
      BY <1>3, TextHasLength
    <2> QED
      BY <1>3, <2>1 DEF Blocks
  <1>5. FoundIn(found, blocks)
    BY <1>3, FoundSpans DEF FoundIn
  <1>6. text = Join(lines) /\ spans = [i \in 1 .. Len(found) |-> PipelineSpan(blocks, found, i)]
    BY <1>2
  <1>7. lines = [b \in 1 .. Len(blocks) |-> RedactBlock(blocks, found, b)]
    OBVIOUS
  <1> HIDE DEF found, lines
  <1>8. Standing(blocks, document)
    BY <1>1, <1>4, BlocksStand
  <1>9. Laid(document, Join(lines), spans, DOMAIN spans)
    BY <1>4, <1>5, <1>6, <1>7, <1>8, PipelineIsLaid
  <1>10. Active \subseteq DOMAIN spans
    BY DEF Active
  <1> QED
    BY <1>6, <1>9, <1>10 DEF PInv

\* Both invariants hold of every state of every behaviour.
LEMMA PlacesAreKept == Spec => [](IInv /\ PInv)
  <1>1. Init => IInv /\ PInv
    BY InitHolds, InitPlaces
  <1>2. IInv /\ PInv /\ [Next]_vars => (IInv /\ PInv)'
    <2> SUFFICES ASSUME IInv, PInv, [Next]_vars PROVE IInv' /\ PInv'
      OBVIOUS
    <2>1. ASSUME NEW f \in Fragments, NEW type \in Types, Redact(f, type) PROVE IInv' /\ PInv'
      BY <2>1, RedactKeeps, RedactKeepsPlaces
    <2>2. ASSUME NEW i \in DOMAIN spans, Revert(i) PROVE IInv' /\ PInv'
      BY <2>2, RevertKeeps, RevertKeepsPlaces
    <2>3. CASE UNCHANGED vars
      <3>1. IInv'
        BY <2>3 DEF vars, IInv, Indexed, OneValuePerPlaceholder
      <3>2. /\ document' = document /\ text' = text /\ spans' = spans /\ hit' = hit
            /\ Active' = Active
        BY <2>3 DEF vars, Active
      <3>3. PInv'
        BY <3>2 DEF PInv
      <3> QED
        BY <3>1, <3>3
    <2> QED
      BY <2>1, <2>2, <2>3 DEF Next
  <1> QED
    BY <1>1, <1>2, PTL DEF Spec

\* HighlightsAligned for any documents, detections and edits: the positions in
\* spans.json, moved by every manual redaction and every revert, remain those of
\* what the span put into the text.
THEOREM PositionsStayAligned == Spec => []HighlightsAligned
  <1>1. PInv => HighlightsAligned
    <2> SUFFICES ASSUME PInv, NEW i \in DOMAIN spans,
                        IF spans[i].reverted THEN hit = {} ELSE "active" \notin hit
                 PROVE  Slice(text, spans[i].start, spans[i].end) = Content(spans[i])
      BY DEF HighlightsAligned, Content
    <2>1. "active" \notin hit
      OBVIOUS
    <2>2. PICK L \in SUBSET DOMAIN spans :
            Active \subseteq L /\ (hit = {} => L = DOMAIN spans) /\ Laid(document, text, spans, L)
      BY <2>1 DEF PInv
    <2>3. i \in L
      BY <2>2 DEF Active
    <2> QED
      BY <2>2, <2>3 DEF Laid
  <1> QED
    BY <1>1, PlacesAreKept, PTL

\* DocumentIsRecoverable for any documents, detections and edits: a text and its
\* spans lose nothing of the document, however they were edited.
THEOREM DocumentIsNeverLost == Spec => []DocumentIsRecoverable
  <1>1. IInv /\ PInv => DocumentIsRecoverable
    <2> SUFFICES ASSUME IInv, PInv, "active" \notin hit
                 PROVE  document = Splice(text, {[start |-> spans[i].start, end |-> spans[i].end,
                                                  with |-> spans[i].original] : i \in Active})
      BY DEF DocumentIsRecoverable
    <2> DEFINE a == Starts(spans)
               z == Ends(spans)
               u == Originals(spans)
    <2>1. PICK L \in SUBSET DOMAIN spans : Active \subseteq L /\ Laid(document, text, spans, L)
      BY DEF PInv
    <2>2. /\ Places(text, L, a, z)
          /\ document = Splice(text, Changes(L, a, z, u))
          /\ \A j \in L : /\ Slice(text, spans[j].start, spans[j].end) = Content(spans[j])
                          /\ IsText(spans[j].original)
      BY <2>1 DEF Laid
    <2>3. \A j \in L : a[j] = spans[j].start /\ z[j] = spans[j].end /\ u[j] = spans[j].original
      BY DEF Starts, Ends, Originals
    <2>4. Changes(Active, a, z, u) = {[start |-> spans[i].start, end |-> spans[i].end,
                                       with |-> spans[i].original] : i \in Active}
      <3>1. \A j \in Active : /\ a[j] = spans[j].start /\ z[j] = spans[j].end
                              /\ u[j] = spans[j].original
        BY <2>1, <2>3
      <3> HIDE DEF a, z, u
      <3> QED
        BY <3>1 DEF Changes
    <2>5. \A j \in L \ Active : u[j] = Slice(text, a[j], z[j])
      BY <2>2, <2>3 DEF Active, Content
    <2>6. IsText(text) /\ \A j \in L : IsText(u[j])
      BY <2>2, <2>3 DEF IInv
    <2>7. Active \in SUBSET L
      BY <2>1
    <2> HIDE DEF a, z, u
    <2>8. Splice(text, Changes(L, a, z, u)) = Splice(text, Changes(Active, a, z, u))
      BY <2>2, <2>5, <2>6, <2>7, PlainPlacesStay
    <2> QED
      BY <2>2, <2>4, <2>8
  <1> QED
    BY <1>1, PlacesAreKept, PTL

\* NoClearCopyLeft for any documents, detections and edits: whatever a manual
\* redaction leaves of its fragment is within reach of a span in force.
THEOREM RedactionIsThorough == Spec => NoClearCopyLeft
  <1> DEFINE Thorough ==
        Len(spans') > Len(spans) =>
          LET f == spans'[Len(spans')].original
          IN  \A p \in Matches(text', f) : \E i \in DOMAIN spans' :
                ~spans'[i].reverted /\ Cuts(p, p + Len(f), spans'[i])
  <1>1. IInv /\ [Next]_vars => Thorough
    <2> SUFFICES ASSUME IInv, [Next]_vars PROVE Thorough
      OBVIOUS
    <2>1. ASSUME NEW f \in Fragments, NEW type \in Types, Redact(f, type) PROVE Thorough
      BY <2>1, RedactLeavesNoCopy
    <2>2. Len(spans) \in Nat /\ DOMAIN spans = 1 .. Len(spans)
      BY TextHasLength DEF IInv
    <2>3. ASSUME NEW i \in DOMAIN spans, Revert(i) PROVE Thorough
      <3>1. spans' = [j \in 1 .. Len(spans) |-> spans'[j]]
        BY <2>2, <2>3 DEF Revert
      <3>2. Len(spans') = Len(spans)
        BY <2>2, <3>1, FunctionIsText
      <3> QED
        BY <2>2, <3>2
    <2>4. CASE UNCHANGED vars
      <3>1. Len(spans') = Len(spans)
        BY <2>4 DEF vars
      <3> QED
        BY <2>2, <3>1
    <2> QED
      BY <2>1, <2>3, <2>4 DEF Next
  <1> QED
    BY <1>1, PlacesAreKept, PTL DEF Spec, NoClearCopyLeft

----------------------------------------------------------------------------
(* Restoring *)

\* No character of a document could stand in a placeholder for its type: an
\* index is none, the separator is none, and the blocks have none.
PlainDocuments ==
  /\ Types \cap Nat = {} /\ Separator \notin Types
  /\ \A blocks \in Documents : \A b \in DOMAIN blocks : ToSet(blocks[b]) \cap Types = {}

\* The document of every behaviour is then without characters of placeholders.
LEMMA DocumentStaysPlain == ASSUME PlainDocuments PROVE Spec => [](ToSet(document) \cap Types = {})
  <1>1. ASSUME Init PROVE ToSet(document) \cap Types = {}
    <2>1. PICK blocks \in Documents : document = Join(blocks)
      BY <1>1 DEF Init
    <2>2. Blocks(blocks)
      <3>1. IsText(blocks) /\ \A b \in DOMAIN blocks : IsText(blocks[b])
        BY DocumentsAreTexts
      <3>2. DOMAIN blocks = 1 .. Len(blocks)
        BY <3>1, TextHasLength
      <3> QED
        BY <3>1, <3>2 DEF Blocks
    <2>3. PICK h : Chained(blocks, h) /\ Join(blocks) = h[Len(blocks)]
      BY <2>2, JoinIsChained
    <2> DEFINE n == Len(blocks)
               K == {k \in 0 .. n : ToSet(h[k]) \cap Types = {}}
    <2>4. n \in Nat /\ DOMAIN blocks = 1 .. n /\ \A b \in 1 .. n : IsText(blocks[b])
      BY <2>2, TextHasLength DEF Blocks
    <2>5. /\ \A b \in 0 .. n : IsText(h[b])
          /\ h[0] = <<>> /\ \A b \in 1 .. n : h[b] = Cat(Lead(h, b), blocks[b])
      BY <2>3 DEF Chained
    <2>6. \A b \in 1 .. n : ToSet(blocks[b]) \cap Types = {}
      BY <2>4 DEF PlainDocuments
    <2> HIDE DEF n
    <2>7. 0 \in K
      <3>1. ToSet(h[0]) = {}
        BY <2>5 DEF ToSet
      <3> QED
        BY <2>4, <3>1
    <2>8. ASSUME NEW k \in 1 .. n, k - 1 \in K PROVE k \in K
      <3>1. k \in 0 .. n /\ k - 1 \in 0 .. n
        BY <2>4
      <3>2. IsText(h[k - 1]) /\ ToSet(h[k - 1]) \cap Types = {}
        BY <2>5, <2>8, <3>1
      <3>3. IsText(Lead(h, k)) /\ ToSet(Lead(h, k)) \cap Types = {}
        <4>1. CASE k = 1
          <5>1. IsText(<<>>) /\ ToSet(<<>>) = {}
            BY EmptyIsText DEF ToSet
          <5> QED
            BY <4>1, <5>1 DEF Lead
        <4>2. CASE k # 1
          <5>1. IsText(<<Separator>>) /\ ToSet(<<Separator>>) = {Separator}
            BY OneIsText DEF ToSet
          <5>2. Lead(h, k) = Cat(h[k - 1], <<Separator>>)
            BY <4>2 DEF Lead
          <5> DEFINE u == <<Separator>>
          <5>3. IsText(u) /\ ToSet(u) \cap Types = {} /\ Lead(h, k) = Cat(h[k - 1], u)
            BY <5>1, <5>2 DEF PlainDocuments
          <5> HIDE DEF u
          <5>4. ToSet(Cat(h[k - 1], u)) = ToSet(h[k - 1]) \cup ToSet(u)
            BY <3>2, <5>3, ConcatCharacters
          <5>5. IsText(Cat(h[k - 1], u))
            BY <3>2, <5>3, ConcatIsText
          <5> QED
            BY <3>2, <5>3, <5>4, <5>5
        <4> QED
          BY <4>1, <4>2
      <3>4. h[k] = Cat(Lead(h, k), blocks[k]) /\ IsText(blocks[k])
        BY <2>4, <2>5
      <3>5. ToSet(h[k]) = ToSet(Lead(h, k)) \cup ToSet(blocks[k])
        BY <3>3, <3>4, ConcatCharacters
      <3> QED
        BY <2>6, <3>1, <3>3, <3>5
    <2>9. n \in K
      <3>1. 0 .. n \subseteq K
        <4> HIDE DEF K
        <4> QED
          BY <2>4, <2>7, <2>8, IntervalInduction
      <3>2. n \in 0 .. n
        BY <2>4
      <3> HIDE DEF K
      <3> QED
        BY <3>1, <3>2
    <2> QED
      BY <2>1, <2>3, <2>9 DEF n
  <1>2. ToSet(document) \cap Types = {} /\ [Next]_vars => (ToSet(document) \cap Types = {})'
    BY DEF Next, Redact, Revert, vars
  <1> QED
    BY <1>1, <1>2, PTL DEF Spec

\* The first span in force with the placeholder of span i.
Firsts == {i \in Active : \A j \in Active : spans[j].replacement = spans[i].replacement => i <= j}
FirstLike(i) == CHOOSE j \in Firsts : spans[j].replacement = spans[i].replacement

LEMMA FirstsAreThere ==
  ASSUME IInv
  PROVE  /\ Active \subseteq DOMAIN spans /\ Firsts \subseteq Active
         /\ Firsts \in SUBSET Int /\ IsFiniteSet(Firsts)
         /\ \A i \in Active : /\ FirstLike(i) \in Firsts
                              /\ spans[FirstLike(i)].replacement = spans[i].replacement
         /\ \A i, j \in Firsts : spans[i].replacement = spans[j].replacement => i = j
  <1> DEFINE n == Len(spans)
  <1>1. n \in Nat /\ DOMAIN spans = 1 .. n
    BY TextHasLength DEF IInv
  <1>2. Active \subseteq 1 .. n /\ Firsts \subseteq Active
    BY <1>1 DEF Active, Firsts
  <1>3. IsFiniteSet(Firsts)
    <2>1. IsFiniteSet(1 .. n)
      BY <1>1, FS_Interval
    <2> QED
      BY <1>2, <2>1, FS_Subset
  <1> HIDE DEF n
  <1>4. ASSUME NEW i \in Active
        PROVE  \E j \in Firsts : spans[j].replacement = spans[i].replacement
    <2> DEFINE same == {j \in Active : spans[j].replacement = spans[i].replacement}
    <2>1. same \in SUBSET Nat /\ same # {}
      <3>1. \A j \in Active : j \in Nat
        BY <1>1, <1>2
      <3>2. i \in same
        OBVIOUS
      <3> QED
        BY <3>1, <3>2
    <2>2. PICK j \in same : \A k \in same : j <= k
      <3> HIDE DEF same
      <3> QED
        BY <2>1, LeastExists
    <2>3. j \in Active /\ spans[j].replacement = spans[i].replacement
      BY <2>2
    <2>4. ASSUME NEW k \in Active, spans[k].replacement = spans[j].replacement PROVE j <= k
      BY <2>2, <2>3, <2>4
    <2> QED
      BY <2>3, <2>4 DEF Firsts
  <1>5. \A i \in Active : /\ FirstLike(i) \in Firsts
                          /\ spans[FirstLike(i)].replacement = spans[i].replacement
    BY <1>4 DEF FirstLike
  <1>6. ASSUME NEW i \in Firsts, NEW j \in Firsts, spans[i].replacement = spans[j].replacement
        PROVE  i = j
    <2>1. i \in Nat /\ j \in Nat /\ i \in Active /\ j \in Active
      BY <1>1, <1>2
    <2>2. i <= j /\ j <= i
      BY <1>6, <2>1 DEF Firsts
    <2> QED
      BY <2>1, <2>2
  <1>7. Firsts \in SUBSET Int
    BY <1>1, <1>2
  <1> QED
    BY <1>1, <1>2, <1>3, <1>5, <1>6, <1>7

\* What restoring replaces, and by what.
Order == Ascending(Firsts)
Sought == [k \in 1 .. Len(Order) |-> spans[Order[k]].replacement]
Given == [k \in 1 .. Len(Order) |-> spans[Order[k]].original]

LEMMA RestoredInTurn ==
  ASSUME IInv
  PROVE  \E g : Replaces(g, text, Len(Order), Sought, Given) /\ Restored = g[Len(Order)]
  <1> DEFINE n == Len(Order)
             r == Sought
             o == Given
  <1>1. n \in Nat
    <2>1. Firsts \in SUBSET Int /\ IsFiniteSet(Firsts)
      BY FirstsAreThere
    <2>2. Len(Ascending(Firsts)) = Cardinality(Firsts) /\ Cardinality(Firsts) \in Nat
      BY <2>1, AscendingOrder
    <2> QED
      BY <2>2 DEF Order
  <1>2. Restored = ReplacedInTurn(text, r, o)
    BY DEF Restored, Order, Firsts, Sought, Given
  <1>3. r = [k \in 1 .. n |-> r[k]]
    BY DEF Sought
  <1> HIDE DEF n, r, o
  <1>4. Len(r) = n
    BY <1>1, <1>3, FunctionIsText
  <1>5. \E g : Replaces(g, text, Len(r), r, o) /\ ReplacedInTurn(text, r, o) = g[Len(r)]
    BY <1>1, <1>4, ReplacingInTurn
  <1> QED
    BY <1>2, <1>4, <1>5 DEF n, r, o

LEMMA RestoringGivesTheDocument ==
  ASSUME PlainDocuments, IInv, PInv, ToSet(document) \cap Types = {}, "active" \notin hit
  PROVE  Letters(Restored) = Letters(document)
  <1> DEFINE I == Active
             a == Starts(spans)
             z == Ends(spans)
             p == Originals(spans)
             v == [i \in DOMAIN spans |-> spans[i].replacement]
             w == [i \in I |-> spans[FirstLike(i)].original]
             u == Splice(text, Changes(I, a, z, w))
             n == Len(Order)
             r == Sought
             o == Given
  <1>1. /\ I \subseteq DOMAIN spans /\ Firsts \subseteq I
        /\ Firsts \in SUBSET Int /\ IsFiniteSet(Firsts)
        /\ \A i \in I : /\ FirstLike(i) \in Firsts
                        /\ spans[FirstLike(i)].replacement = spans[i].replacement
        /\ \A i, j \in Firsts : spans[i].replacement = spans[j].replacement => i = j
    BY FirstsAreThere
  <1>2. PICK L \in SUBSET DOMAIN spans : I \subseteq L /\ Laid(document, text, spans, L)
    BY DEF PInv
  <1>3. /\ Places(text, L, a, z)
        /\ \A i \in L : /\ Slice(text, spans[i].start, spans[i].end) = Content(spans[i])
                        /\ IsText(spans[i].original) /\ Len(spans[i].original) > 0
        /\ document = Splice(text, Changes(L, a, z, p))
    BY <1>2 DEF Laid
  <1>4. IsText(text)
    BY DEF IInv
  <1>5. \A i \in DOMAIN spans : /\ a[i] = spans[i].start /\ z[i] = spans[i].end
                                /\ p[i] = spans[i].original /\ v[i] = spans[i].replacement
    BY DEF Starts, Ends, Originals
  <1>6. \A i \in I : w[i] = p[FirstLike(i)] /\ FirstLike(i) \in I
    BY <1>1, <1>5
  <1>7. \A k \in 1 .. n : r[k] = spans[Order[k]].replacement /\ o[k] = spans[Order[k]].original
    BY DEF Sought, Given
  <1>8. ASSUME NEW i \in DOMAIN spans
        PROVE  IsText(v[i]) /\ Len(v[i]) = 2 /\ v[i][1] \in Types /\ v[i][2] \notin Types
    <2>1. PICK m \in 1 .. Len(spans) : v[i] = Placeholder(spans[i].type, m)
      BY <1>5 DEF IInv, Indexed
    <2>2. spans[i].type \in Types
      BY DEF IInv, SpanTyped
    <2>3. m \notin Types
      <3>1. Len(spans) \in Nat
        BY TextHasLength DEF IInv
      <3>2. m \in Nat
        BY <3>1
      <3> QED
        BY <3>2 DEF PlainDocuments
    <2> DEFINE t == Placeholder(spans[i].type, m)
    <2>4. IsText(t) /\ Len(t) = 2
      BY PlaceholderIsText
    <2>5. t[1] = spans[i].type /\ t[2] = m
      BY DEF Placeholder
    <2> HIDE DEF t, v
    <2> QED
      BY <2>1, <2>2, <2>3, <2>4, <2>5 DEF t
  <1> HIDE DEF a, z, p, v, w, n, r, o, I
  <1>9. Places(text, I, a, z)
    BY <1>2, <1>3, FewerPlaces
  <1>10. \A i \in L : IsText(p[i]) /\ Len(p[i]) > 0
    BY <1>3, <1>5
  <1>11. document = Splice(text, Changes(I, a, z, p))
    <2>1. \A j \in L \ I : p[j] = Slice(text, a[j], z[j])
      BY <1>3, <1>5 DEF I, Active, Content
    <2>2. \A j \in L : IsText(p[j])
      BY <1>10
    <2>3. I \in SUBSET L
      BY <1>2
    <2> QED
      BY <1>3, <1>4, <2>1, <2>2, <2>3, PlainPlacesStay
  <1>12. \A i \in I : IsText(p[i]) /\ Len(p[i]) > 0 /\ IsText(w[i]) /\ Len(w[i]) > 0
    BY <1>2, <1>6, <1>10
  <1>13. PICK R : Builds(text, I, a, z, p, R) /\ document = R[Len(text)]
    <2>1. \A i \in I : IsText(p[i])
      BY <1>12
    <2> QED
      BY <1>4, <1>9, <1>11, <2>1, SpliceIsBuilt
  <1>14. PICK S : Builds(text, I, a, z, w, S) /\ u = S[Len(text)]
    <2>1. \A i \in I : IsText(w[i])
      BY <1>12
    <2> QED
      BY <1>4, <1>9, <2>1, SpliceIsBuilt
  <1> HIDE DEF u
  <1>15. Letters(u) = Letters(document)
    <2>1. \A i \in I : Letters(w[i]) = Letters(p[i])
      <3> SUFFICES ASSUME NEW i \in I PROVE Letters(w[i]) = Letters(p[i])
        OBVIOUS
      <3>1. i \in DOMAIN spans /\ FirstLike(i) \in DOMAIN spans
        BY <1>1, <1>6
      <3>2. Key(spans[FirstLike(i)].original) = Key(spans[i].original)
        BY <1>1, <3>1 DEF IInv, OneValuePerPlaceholder
      <3> QED
        BY <1>5, <1>6, <3>1, <3>2, KeyTellsLetters
    <2>2. Letters(S[Len(text)]) = Letters(R[Len(text)])
      BY <1>13, <1>14, <2>1, LettersStay
    <2> QED
      BY <1>13, <1>14, <2>2
  <1>16. ToSet(u) \cap Types = {}
    <2> DEFINE C == ToSet(R[Len(text)])
    <2>1. \A i \in I : Len(p[i]) > 0
      BY <1>12
    <2>2. /\ \A k \in 1 .. Len(text) : Outside(I, a, z, k) => text[k] \in C
          /\ \A i \in I : ToSet(p[i]) \subseteq C
      BY <1>13, <2>1, CharactersStay
    <2>3. \A i \in I : ToSet(w[i]) \subseteq C
      BY <1>6, <2>2
    <2>4. C \cap Types = {}
      BY <1>13
    <2> HIDE DEF C
    <2>5. ToSet(S[Len(text)]) \subseteq C
      BY <1>14, <2>2, <2>3, NoOtherCharacters
    <2> QED
      BY <1>14, <2>4, <2>5
  <1>17. Stands(text, I, a, z, v, w, u)
    <2>1. \A i \in I : Slice(text, a[i], z[i]) = v[i]
      <3> SUFFICES ASSUME NEW i \in I PROVE Slice(text, a[i], z[i]) = v[i]
        OBVIOUS
      <3>1. i \in L /\ i \in DOMAIN spans /\ ~spans[i].reverted
        BY <1>2 DEF I, Active
      <3>2. Content(spans[i]) = spans[i].replacement
        BY <3>1 DEF Content
      <3> QED
        BY <1>3, <1>5, <3>1, <3>2
    <2>2. \A i \in I : IsText(v[i]) /\ Len(v[i]) > 0
      BY <1>1, <1>8
    <2> QED
      BY <1>4, <1>9, <1>12, <2>1, <2>2 DEF Stands, u
  <1>18. \A i \in I : Len(v[i]) = 2 /\ v[i][1] \in Types /\ v[i][2] \notin Types
    BY <1>1, <1>8
  <1>19. /\ n \in Nat /\ \A k \in 1 .. n : Order[k] \in Firsts
         /\ \A i \in Firsts : \E k \in 1 .. n : Order[k] = i
    <2>1. /\ Len(Ascending(Firsts)) = Cardinality(Firsts) /\ Cardinality(Firsts) \in Nat
          /\ \A k \in 1 .. Cardinality(Firsts) : Ascending(Firsts)[k] \in Firsts
          /\ \A x \in Firsts : \E k \in 1 .. Cardinality(Firsts) : Ascending(Firsts)[k] = x
      BY <1>1, AscendingOrder
    <2> QED
      BY <2>1 DEF Order, n
  <1>20. \A k \in 1 .. n : /\ IsText(r[k]) /\ Len(r[k]) = 2 /\ r[k][1] \in Types
                           /\ IsText(o[k]) /\ Len(o[k]) > 0
                           /\ \A i \in I : v[i] = r[k] => w[i] = o[k]
    <2> SUFFICES ASSUME NEW k \in 1 .. n
                 PROVE  /\ IsText(r[k]) /\ Len(r[k]) = 2 /\ r[k][1] \in Types
                        /\ IsText(o[k]) /\ Len(o[k]) > 0
                        /\ \A i \in I : v[i] = r[k] => w[i] = o[k]
      OBVIOUS
    <2> DEFINE j == Order[k]
    <2>1. j \in Firsts /\ j \in I /\ j \in DOMAIN spans
      BY <1>1, <1>19
    <2>2. r[k] = v[j] /\ o[k] = p[j]
      BY <1>5, <1>7, <2>1
    <2> HIDE DEF j
    <2>3. ASSUME NEW i \in I, v[i] = r[k] PROVE w[i] = o[k]
      <3>1. FirstLike(i) \in Firsts /\ FirstLike(i) \in DOMAIN spans /\ i \in DOMAIN spans
        BY <1>1, <1>6
      <3>2. spans[FirstLike(i)].replacement = spans[j].replacement
        BY <1>1, <1>5, <2>1, <2>2, <2>3, <3>1
      <3>3. FirstLike(i) = j
        BY <1>1, <2>1, <3>1, <3>2
      <3> QED
        BY <1>6, <2>2, <3>3
    <2> QED
      BY <1>8, <1>12, <2>1, <2>2, <2>3
  <1>21. \A i \in I : \E k \in 1 .. n : v[i] = r[k]
    <2> SUFFICES ASSUME NEW i \in I PROVE \E k \in 1 .. n : v[i] = r[k]
      OBVIOUS
    <2>1. PICK k \in 1 .. n : Order[k] = FirstLike(i)
      BY <1>1, <1>19
    <2> QED
      BY <1>1, <1>5, <1>7, <2>1
  <1>22. PICK g : Replaces(g, text, n, r, o) /\ Restored = g[n]
    BY RestoredInTurn DEF n, r, o
  <1>23. n \in Nat
    BY <1>19
  <1>24. AllTagged(v, I, Types) /\ AllListed(v, w, I, n, r, o, Types)
    BY <1>18, <1>20, <1>21 DEF AllTagged, AllListed
  <1>25. g[n] = u
    BY <1>16, <1>17, <1>22, <1>23, <1>24, OneAfterTheOther
  <1> QED
    BY <1>15, <1>22, <1>25

\* RestoresTheLetters for any documents without characters of placeholders, and
\* any detections and edits: replacing the placeholders one after the other
\* makes the document of the text, but for case and white space in the values
\* (restore_processed_text() in jobs/service.py, and the keys of the
\* placeholders: redactor.py, _hash_fragment()).
THEOREM RestoringIsFaithful == ASSUME PlainDocuments PROVE Spec => []RestoresTheLetters
  <1>1. IInv /\ PInv /\ ToSet(document) \cap Types = {} => RestoresTheLetters
    BY RestoringGivesTheDocument DEF RestoresTheLetters
  <1>2. Spec => [](ToSet(document) \cap Types = {})
    BY DocumentStaysPlain
  <1> QED
    BY <1>1, <1>2, PlacesAreKept, PTL

=============================================================================
