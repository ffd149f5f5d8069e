----------------------- MODULE DetectorComparisonProofs -----------------------
(***************************************************************************)
(* What holds of the comparison for any kinds, blocks and detected spans:  *)
(* the pairing of a block is stable, its regex side shows what the         *)
(* pipeline would, the newest report survives reruns, and acknowledged     *)
(* settings survive restarts.                                              *)
(***************************************************************************)
EXTENDS DetectorComparison, TLAPS

\* What is known of sequences in general.  None is a text here: no
\* letters, no white space.
T == INSTANCE TextProofs WITH Lower <- <<>>, White <- {}

\* The steps that leave the comparison, the settings or the job alone.
Detecting == Begin \/ DetectOPF \/ Pair \/ FinishBlock \/ DetectFails
Resetting == BeginReset \/ WipeOutputs \/ PutBack \/ ResetRow
Deleting == DeleteRows \/ DeleteFiles

----------------------------------------------------------------------------
(* The pairing *)

\* Half-way through the candidates: made are the pairs, rest is to come.
Pairing(o, r, made, rest) ==
  /\ made \subseteq Candidates(o, r) /\ rest \subseteq Candidates(o, r)
  /\ \A c, d \in made : c[1] = d[1] \/ c[2] = d[2] => c = d
  /\ \A c \in made, d \in rest : ~Worse(o, r, c, d)
  /\ \A c \in Candidates(o, r) \ (made \cup rest) : Blocked(o, r, c, made)

\* The next candidate keeps it so, whether it becomes a pair or not.
LEMMA PairingGoesOn ==
  ASSUME NEW o, NEW r, NEW made, NEW rest, Pairing(o, r, made, rest), NEW c \in rest,
         \A d \in rest \ {c} : Before(o, r, c, d)
  PROVE  LET free == \A p \in made : p[1] # c[1] /\ p[2] # c[2]
         IN  Pairing(o, r, made \cup (IF free THEN {c} ELSE {}), rest \ {c})
  <1>1. \A d \in rest \ {c} : ~Worse(o, r, c, d)
    BY DEF Before
  <1>2. CASE \A p \in made : p[1] # c[1] /\ p[2] # c[2]
    <2>1. ASSUME NEW d \in Candidates(o, r) \ ((made \cup {c}) \cup (rest \ {c}))
          PROVE  Blocked(o, r, d, made \cup {c})
      BY <2>1 DEF Pairing, Blocked
    <2> QED
      BY <1>1, <1>2, <2>1 DEF Pairing
  <1>3. ASSUME NEW p \in made, p[1] = c[1] \/ p[2] = c[2]
        PROVE  Pairing(o, r, made, rest \ {c})
    <2>1. Blocked(o, r, c, made)
      BY <1>3 DEF Pairing, Blocked
    <2> QED
      BY <2>1 DEF Pairing
  <1> QED
    BY <1>2, <1>3

\* The blocks to come have no pairs, and the pairing of this one is under way.
PairingInv ==
  /\ block \in 1 .. Blocks /\ DOMAIN pairs = 1 .. Blocks /\ DOMAIN regex = 1 .. Blocks
  /\ \A b \in 1 .. Blocks : b > block => pairs[b] = {}
  /\ pc = "idle" => block = 1
  /\ pc \in {"idle", "detecting", "matching"} => pairs[block] = {}
  /\ pc = "pairing" => Pairing(opf[block], regex[block], pairs[block], left)

LEMMA NothingPaired == ASSUME Forget PROVE PairingInv'
  BY BlocksIsPositive DEF Forget, PairingInv, NoPairs, NoLists

LEMMA PairingKept == PairingInv /\ [Next]_vars => PairingInv'
  <1> SUFFICES ASSUME PairingInv, [Next]_vars PROVE PairingInv'
    OBVIOUS
  <1>1. CASE Begin
    BY <1>1, BlocksIsPositive DEF Begin, Idle, PairingInv
  <1>2. CASE DetectOPF
    BY <1>2 DEF DetectOPF, PairingInv
  <1>3. CASE DetectRegex
    <2>1. PICK list : /\ regex' = [regex EXCEPT ![block] = RegexOnly(list, Enabled)]
                      /\ left' = Candidates(opf[block], RegexOnly(list, Enabled))
      BY <1>3 DEF DetectRegex
    <2>2. regex'[block] = RegexOnly(list, Enabled) /\ DOMAIN regex' = 1 .. Blocks
      BY <2>1 DEF PairingInv
    <2>3. /\ block' = block /\ opf' = opf /\ pairs' = pairs /\ pairs[block] = {}
          /\ pc' = "pairing"
      BY <1>3 DEF DetectRegex, PairingInv
    <2>4. Pairing(opf[block], regex'[block], {}, left')
      BY <2>1, <2>2 DEF Pairing
    <2> QED
      BY <2>2, <2>3, <2>4 DEF PairingInv
  <1>4. CASE Pair
    <2>1. PICK c \in left : /\ pc = "pairing" /\ First(c)
                            /\ pairs' = [pairs EXCEPT ![block] = @ \cup (IF Free(c) THEN {c} ELSE {})]
                            /\ left' = left \ {c}
      BY <1>4 DEF Pair
    <2>2. pc' = pc /\ block' = block /\ opf' = opf /\ regex' = regex
      BY <1>4 DEF Pair
    <2>3. Pairing(opf[block], regex[block], pairs[block] \cup (IF Free(c) THEN {c} ELSE {}), left')
      BY <2>1, PairingGoesOn DEF PairingInv, First, Free
    <2>4. /\ DOMAIN pairs' = 1 .. Blocks /\ pairs'[block] = pairs[block] \cup (IF Free(c) THEN {c} ELSE {})
          /\ \A b \in 1 .. Blocks : b # block => pairs'[b] = pairs[b]
      BY <2>1 DEF PairingInv
    <2> QED
      BY <2>1, <2>2, <2>3, <2>4 DEF PairingInv
  <1>5. CASE FinishBlock
    BY <1>5, BlocksIsPositive DEF FinishBlock, PairingInv
  <1>6. CASE WriteReport \/ DetectFails \/ Restart
    BY <1>6, NothingPaired DEF WriteReport, DetectFails, Restart
  <1>7. CASE \/ \E K \in SUBSET Kinds : Update(K)
             \/ Resetting \/ FinishRun \/ Deleting \/ UNCHANGED vars
    BY <1>7 DEF Update, Resetting, BeginReset, WipeOutputs, PutBack, ResetRow, FinishRun, Deleting,
                DeleteRows, DeleteFiles, vars, runVars, PairingInv
  <1> QED
    BY <1>1, <1>2, <1>3, <1>4, <1>5, <1>6, <1>7 DEF Next, Resetting, Deleting

\* The pairing of compare_spans() (anonymizer/detector_comparison.py) is stable
\* for any two lists of spans.
THEOREM PairingsAreStable == Spec => []PairingIsStable
  <1>1. Init => PairingInv
    BY BlocksIsPositive DEF Init, PairingInv, NoPairs, NoLists
  <1>2. PairingInv => PairingIsStable
    BY DEF PairingInv, Pairing, PairingIsStable
  <1> QED
    BY <1>1, <1>2, PairingKept, PTL DEF Spec

----------------------------------------------------------------------------
(* The regex side *)

IsList(list) == list \in Seq(ToSet(list))

LEMMA ListsAreTexts == ASSUME NEW list PROVE IsList(list) <=> T!IsText(list)
  BY DEF IsList, T!IsText, ToSet, T!ToSet

\* The elements of two lists, one after the other.
LEMMA JoinedElements ==
  ASSUME NEW t, T!IsText(t), NEW u, T!IsText(u)
  PROVE  ToSet(T!Cat(t, u)) = ToSet(t) \cup ToSet(u)
  <1> DEFINE v == T!Cat(t, u)
  <1>1. /\ T!IsText(v) /\ Len(v) = Len(t) + Len(u)
        /\ \A k \in 1 .. Len(t) : v[k] = t[k]
        /\ \A k \in 1 .. Len(u) : v[Len(t) + k] = u[k]
    <2>1. T!IsText(v) /\ Len(v) = Len(t) + Len(u)
      BY T!ConcatIsText
    <2>2. /\ \A k \in 1 .. Len(t) : v[k] = t[k]
          /\ \A k \in (Len(t) + 1) .. (Len(t) + Len(u)) : v[k] = u[k - Len(t)]
      BY T!ConcatParts
    <2>3. Len(t) \in Nat /\ Len(u) \in Nat
      BY T!TextHasLength
    <2> HIDE DEF v
    <2>4. \A k \in 1 .. Len(u) :
            Len(t) + k \in (Len(t) + 1) .. (Len(t) + Len(u)) /\ (Len(t) + k) - Len(t) = k
      BY <2>3
    <2>5. \A k \in 1 .. Len(u) : v[Len(t) + k] = u[k]
      BY <2>2, <2>4
    <2> QED
      BY <2>1, <2>2, <2>5
  <1> HIDE DEF v
  <1>2. /\ Len(t) \in Nat /\ Len(u) \in Nat
        /\ DOMAIN t = 1 .. Len(t) /\ DOMAIN u = 1 .. Len(u) /\ DOMAIN v = 1 .. Len(v)
    BY <1>1, T!TextHasLength
  <1>3. \A k \in 1 .. Len(t) : k \in 1 .. Len(v)
    BY <1>1, <1>2
  <1>4. \A k \in 1 .. Len(u) : Len(t) + k \in 1 .. Len(v)
    BY <1>1, <1>2
  <1>5. \A k \in 1 .. Len(v) : k \in 1 .. Len(t) \/ \E j \in 1 .. Len(u) : k = Len(t) + j
    <2> TAKE k \in 1 .. Len(v)
    <2>1. CASE k <= Len(t)
      BY <1>2, <2>1
    <2>2. CASE ~(k <= Len(t))
      <3>1. k - Len(t) \in 1 .. Len(u) /\ k = Len(t) + (k - Len(t))
        BY <1>1, <1>2, <2>2
      <3> QED
        BY <3>1
    <2> QED
      BY <2>1, <2>2
  <1>6. ToSet(v) = ToSet(t) \cup ToSet(u)
    <2>1. ASSUME NEW k \in 1 .. Len(v) PROVE v[k] \in ToSet(t) \cup ToSet(u)
      BY <1>1, <1>2, <1>5 DEF ToSet
    <2>2. ASSUME NEW k \in 1 .. Len(t) PROVE t[k] \in ToSet(v)
      <3>1. k \in DOMAIN v /\ v[k] = t[k]
        BY <1>1, <1>2, <1>3
      <3> QED
        BY <3>1 DEF ToSet
    <2>3. ASSUME NEW k \in 1 .. Len(u) PROVE u[k] \in ToSet(v)
      <3>1. Len(t) + k \in DOMAIN v /\ v[Len(t) + k] = u[k]
        BY <1>1, <1>2, <1>4
      <3> QED
        BY <3>1 DEF ToSet
    <2>4. /\ ToSet(v) = {v[k] : k \in 1 .. Len(v)}
          /\ ToSet(t) = {t[k] : k \in 1 .. Len(t)} /\ ToSet(u) = {u[k] : k \in 1 .. Len(u)}
      BY <1>2 DEF ToSet
    <2> QED
      BY <2>1, <2>2, <2>3, <2>4
  <1> QED
    BY <1>6 DEF v

\* A list of the elements at the indices I.
LEMMA KeptElements ==
  ASSUME NEW list, IsList(list), NEW I \in SUBSET (1 .. Len(list))
  PROVE  IsList(Kept(list, I)) /\ ToSet(Kept(list, I)) = {list[i] : i \in I}
  <1> DEFINE n == Len(list)
             s == [i \in 1 .. n |-> IF i \in I THEN <<list[i]>> ELSE <<>>]
  <1>1. n \in Nat
    BY ListsAreTexts, T!TextHasLength
  <1>2. \A i \in 1 .. n : T!IsText(s[i])
    <2>1. \A e : T!IsText(<<e>>)
      BY T!OneIsText
    <2>2. T!IsText(<<>>)
      BY T!EmptyIsText
    <2> QED
      BY <2>1, <2>2
  <1>3. s = [i \in 1 .. n |-> s[i]]
    OBVIOUS
  <1>4. \A i \in 1 .. n : s[i] = IF i \in I THEN <<list[i]>> ELSE <<>>
    OBVIOUS
  <1>5. Kept(list, I) = T!FlattenSeq(s)
    BY DEF Kept, T!FlattenSeq, FlattenSeq
  <1>6. I \subseteq 1 .. n
    OBVIOUS
  <1> HIDE DEF s, n
  <1>7. T!IsText(s) /\ Len(s) = n /\ DOMAIN s = 1 .. n
    BY <1>1, <1>3, T!FunctionIsText, T!TextHasLength
  <1>8. PICK h : T!Joins(s, h) /\ T!FlattenSeq(s) = h[Len(s)]
    BY <1>2, <1>7, T!FlattenIsBuilt
  <1>9. /\ \A i \in 0 .. n : T!IsText(h[i])
        /\ h[0] = <<>>
        /\ \A i \in 1 .. n : h[i] = T!Cat(h[i - 1], s[i])
    BY <1>7, <1>8 DEF T!Joins
  <1> DEFINE U(k) == {list[i] : i \in {j \in I : j <= k}}
             K == {k \in 0 .. n : ToSet(h[k]) = U(k)}
  <1>10. 0 \in K
    <2>1. U(0) = {}
      BY <1>1, <1>6
    <2>2. ToSet(<<>>) = {}
      BY DEF ToSet
    <2> QED
      BY <1>1, <1>9, <2>1, <2>2
  <1>11. ASSUME NEW k \in 1 .. n, k - 1 \in K PROVE k \in K
    <2>1. k - 1 \in 0 .. n /\ k \in 0 .. n
      BY <1>1
    <2>2. ToSet(h[k]) = ToSet(h[k - 1]) \cup ToSet(s[k])
      BY <1>2, <1>9, <2>1, JoinedElements
    <2>3. U(k) = U(k - 1) \cup (IF k \in I THEN {list[k]} ELSE {})
      <3>1. \A j \in I : j <= k <=> j <= k - 1 \/ j = k
        BY <1>1, <1>6
      <3> QED
        BY <3>1
    <2>4. ToSet(s[k]) = IF k \in I THEN {list[k]} ELSE {}
      <3>1. ToSet(<<>>) = {} /\ ToSet(<<list[k]>>) = {list[k]}
        BY DEF ToSet
      <3> QED
        BY <1>4, <3>1
    <2> QED
      BY <1>11, <2>1, <2>2, <2>3, <2>4
  <1>12. 0 .. n \subseteq K
    <2> HIDE DEF K
    <2> QED
      BY <1>1, <1>10, <1>11, T!IntervalInduction
  <1>13. n \in 0 .. n
    BY <1>1
  <1>14. U(n) = {list[i] : i \in I}
    BY <1>1, <1>6
  <1> QED
    BY <1>5, <1>7, <1>8, <1>9, <1>12, <1>13, <1>14, ListsAreTexts

LEMMA RegexOnlyElements ==
  ASSUME NEW list, IsList(list), NEW enabled
  PROVE  ToSet(RegexOnly(list, enabled)) = {s \in ToSet(list) : s.type \in enabled}
  <1> DEFINE I == {i \in DOMAIN list : list[i].type \in enabled}
  <1>1. DOMAIN list = 1 .. Len(list)
    BY ListsAreTexts, T!TextHasLength
  <1>2. I \in SUBSET (1 .. Len(list))
    BY <1>1
  <1>3. {list[i] : i \in I} = {s \in ToSet(list) : s.type \in enabled}
    BY DEF ToSet
  <1>4. RegexOnly(list, enabled) = Kept(list, I)
    BY DEF RegexOnly
  <1> HIDE DEF I
  <1> QED
    BY <1>2, <1>3, <1>4, KeptElements

\* What yields overlaps a CPF or CNPJ of the list.
LEMMA OverrideElements ==
  ASSUME NEW list, IsList(list)
  PROVE  /\ IsList(Override(list)) /\ ToSet(Override(list)) \subseteq ToSet(list)
         /\ \A s \in ToSet(list) \ ToSet(Override(list)) :
              \E u \in ToSet(list) : u.type \in Specific /\ Overlap(s, u)
  <1> DEFINE specific == {i \in DOMAIN list : list[i].type \in Specific}
             yields == {i \in DOMAIN list \ specific :
                          \E j \in specific : Overlap(list[i], list[j])}
             I == DOMAIN list \ yields
  <1>1. DOMAIN list = 1 .. Len(list) /\ ToSet(list) = {list[i] : i \in DOMAIN list}
    BY ListsAreTexts, T!TextHasLength DEF ToSet
  <1>2. I \in SUBSET (1 .. Len(list)) /\ I \subseteq DOMAIN list
    BY <1>1
  <1>3. Override(list) = Kept(list, I)
    BY DEF Override
  <1>4. \A i \in DOMAIN list \ I : \E u \in ToSet(list) : u.type \in Specific /\ Overlap(list[i], u)
    BY <1>1
  <1> HIDE DEF I
  <1>5. IsList(Override(list)) /\ ToSet(Override(list)) = {list[i] : i \in I}
    BY <1>2, <1>3, KeptElements
  <1> QED
    BY <1>1, <1>2, <1>4, <1>5

LEMMA AugmentedElements ==
  ASSUME NEW list, IsList(list), NEW enabled
  PROVE  ToSet(Augmented(<<>>, list, enabled)) =
           {s \in ToSet(Override(list)) : s.type \in enabled}
  <1> DEFINE all == Override(list)
  <1>1. <<>> \o list = list
    <2>1. T!Cat(<<>>, list) = list
      BY ListsAreTexts, T!EmptyAddsNothing
    <2> QED
      BY <2>1 DEF T!Cat
  <1>2. Augmented(<<>>, list, enabled) = RegexOnly(all, enabled)
    BY <1>1 DEF Augmented, Composite, RegexOnly
  <1>3. IsList(all)
    BY OverrideElements
  <1> HIDE DEF all
  <1>4. ToSet(RegexOnly(all, enabled)) = {s \in ToSet(all) : s.type \in enabled}
    BY <1>3, RegexOnlyElements
  <1> QED
    BY <1>2, <1>4 DEF all

\* What is shown of each block is what its settings leave of what was matched.
RegexInv ==
  /\ block \in 1 .. Blocks
  /\ DOMAIN raw = 1 .. Blocks /\ DOMAIN regex = 1 .. Blocks /\ DOMAIN kinds = 1 .. Blocks
  /\ \A b \in 1 .. Blocks :
       /\ IsList(raw[b])
       /\ ToSet(regex[b]) = {s \in ToSet(raw[b]) : s.type \in kinds[b]}

LEMMA NothingFound ==
  ASSUME raw' = NoLists, regex' = NoLists, kinds' = AllKinds, block' = 1
  PROVE  RegexInv'
  <1>1. IsList(<<>>) /\ ToSet(<<>>) = {}
    BY DEF IsList, ToSet
  <1> QED
    BY <1>1, BlocksIsPositive DEF RegexInv, NoLists, AllKinds

LEMMA RegexKept == RegexInv /\ [Next]_vars => RegexInv'
  <1> SUFFICES ASSUME RegexInv, [Next]_vars PROVE RegexInv'
    OBVIOUS
  <1>1. CASE Begin
    BY <1>1, BlocksIsPositive DEF Begin, RegexInv
  <1>2. CASE DetectRegex
    <2>1. PICK list \in RegexLists[block] :
            /\ raw' = [raw EXCEPT ![block] = list]
            /\ regex' = [regex EXCEPT ![block] = RegexOnly(list, Enabled)]
      BY <1>2 DEF DetectRegex
    <2>2. kinds' = [kinds EXCEPT ![block] = Enabled] /\ block' = block
      BY <1>2 DEF DetectRegex
    <2>3. IsList(list)
      BY ListsAreSequences DEF RegexInv, IsList
    <2>4. ToSet(RegexOnly(list, Enabled)) = {s \in ToSet(list) : s.type \in Enabled}
      BY <2>3, RegexOnlyElements
    <2> DEFINE shown == RegexOnly(list, Enabled)
               K == Enabled
    <2>5. ToSet(shown) = {s \in ToSet(list) : s.type \in K}
      BY <2>4
    <2>6. /\ raw' = [raw EXCEPT ![block] = list] /\ regex' = [regex EXCEPT ![block] = shown]
          /\ kinds' = [kinds EXCEPT ![block] = K]
      BY <2>1, <2>2
    <2> HIDE DEF shown, K
    <2>7. ASSUME NEW b \in 1 .. Blocks
          PROVE  IsList(raw'[b]) /\ ToSet(regex'[b]) = {s \in ToSet(raw'[b]) : s.type \in kinds'[b]}
      <3>1. CASE b = block
        <4>1. raw'[b] = list /\ regex'[b] = shown /\ kinds'[b] = K
          BY <2>6, <3>1 DEF RegexInv
        <4> QED
          BY <2>3, <2>5, <4>1
      <3>2. CASE b # block
        <4>1. raw'[b] = raw[b] /\ regex'[b] = regex[b] /\ kinds'[b] = kinds[b]
          BY <2>6, <3>2 DEF RegexInv
        <4> QED
          BY <4>1 DEF RegexInv
      <3> QED
        BY <3>1, <3>2
    <2> QED
      BY <2>2, <2>6, <2>7 DEF RegexInv
  <1>3. CASE FinishBlock
    BY <1>3, BlocksIsPositive DEF FinishBlock, RegexInv
  <1>4. CASE WriteReport \/ DetectFails \/ Restart
    BY <1>4, NothingFound DEF WriteReport, DetectFails, Restart, Forget
  <1>5. CASE \/ DetectOPF \/ Pair \/ \E K \in SUBSET Kinds : Update(K)
             \/ Resetting \/ FinishRun \/ Deleting \/ UNCHANGED vars
    BY <1>5 DEF DetectOPF, Pair, Update, Resetting, BeginReset, WipeOutputs, PutBack, ResetRow,
                FinishRun, Deleting, DeleteRows, DeleteFiles, vars, runVars, RegexInv
  <1> QED
    BY <1>1, <1>2, <1>3, <1>4, <1>5 DEF Next, Resetting, Deleting

\* RegexOnlyClient (anonymizer/regex_only_client.py) shows what the pipeline's
\* client (augmentations.py) would find without OPF, whatever the regular
\* expressions match and however the settings change between the blocks.
THEOREM RegexSideIsFaithful == Spec => []RegexSideShowsThePipeline
  <1>1. Init => RegexInv
    <2> SUFFICES ASSUME Init PROVE RegexInv
      OBVIOUS
    <2>1. IsList(<<>>) /\ ToSet(<<>>) = {}
      BY DEF IsList, ToSet
    <2> QED
      BY <2>1, BlocksIsPositive DEF Init, RegexInv, NoLists, AllKinds
  <1>2. RegexInv => RegexSideShowsThePipeline
    <2> SUFFICES ASSUME RegexInv, NEW b \in 1 .. Blocks
                 PROVE  LET shown == ToSet(regex[b])
                            found == ToSet(Augmented(<<>>, raw[b], kinds[b]))
                        IN  /\ found \subseteq shown
                            /\ \A s \in shown \ found :
                                 \E u \in ToSet(raw[b]) : u.type \in Specific /\ Overlap(s, u)
      BY DEF RegexSideShowsThePipeline
    <2>1. IsList(raw[b]) /\ ToSet(regex[b]) = {s \in ToSet(raw[b]) : s.type \in kinds[b]}
      BY DEF RegexInv
    <2>2. ToSet(Augmented(<<>>, raw[b], kinds[b])) =
            {s \in ToSet(Override(raw[b])) : s.type \in kinds[b]}
      BY <2>1, AugmentedElements
    <2>3. /\ ToSet(Override(raw[b])) \subseteq ToSet(raw[b])
          /\ \A s \in ToSet(raw[b]) \ ToSet(Override(raw[b])) :
               \E u \in ToSet(raw[b]) : u.type \in Specific /\ Overlap(s, u)
      BY <2>1, OverrideElements
    <2> QED
      BY <2>1, <2>2, <2>3
  <1> QED
    BY <1>1, <1>2, RegexKept, PTL DEF Spec

----------------------------------------------------------------------------
(* The report *)

\* Where the newest report is while a rerun handles it, and that a deletion
\* and a rerun exclude each other.
ReportInv ==
  /\ newest.there \/ newest = Absent
  /\ deleting = "rows" => job = "gone"
  /\ job = "gone" => reset = "no"
  /\ ~clobbered =>
       /\ reset \in {"no", "wipe", "row"} => report = newest
       /\ reset \in {"wipe", "write"} => kept = newest
       /\ reset = "write" => report = Absent
  /\ reset \in {"no", "wipe", "write", "row"}

LEMMA ReportKept == ReportInv /\ [Next]_vars => ReportInv'
  <1> SUFFICES ASSUME ReportInv, [Next]_vars PROVE ReportInv'
    OBVIOUS
  <1>1. CASE WriteReport
    BY <1>1 DEF WriteReport, Report, ReportInv, Absent
  <1>2. CASE BeginReset \/ WipeOutputs
    BY <1>2 DEF BeginReset, WipeOutputs, ReportInv
  <1>3. CASE PutBack
    BY <1>3 DEF PutBack, ReportInv
  <1>4. CASE ResetRow \/ FinishRun
    BY <1>4 DEF ResetRow, FinishRun, ReportInv
  <1>5. CASE DeleteRows \/ DeleteFiles
    BY <1>5 DEF DeleteRows, DeleteFiles, ReportInv, Absent
  <1>6. CASE Restart
    BY <1>6 DEF Restart, ReportInv
  <1>7. CASE \/ Detecting \/ DetectRegex \/ \E K \in SUBSET Kinds : Update(K)
             \/ UNCHANGED vars
    BY <1>7 DEF Detecting, Begin, DetectOPF, DetectRegex, Pair, FinishBlock, DetectFails, Update,
                vars, jobVars, ReportInv
  <1> QED
    BY <1>1, <1>2, <1>3, <1>4, <1>5, <1>6, <1>7 DEF Next, Detecting

\* Reruns of the job (reset_for_reprocess() in jobs/service.py) keep the newest
\* report, for any documents, however the steps interleave.
THEOREM NewestReportSurvives == Spec => []NewestReportStays
  <1>1. Init => ReportInv
    BY DEF Init, ReportInv
  <1>2. ReportInv => NewestReportStays
    BY DEF ReportInv, NewestReportStays
  <1> QED
    BY <1>1, <1>2, ReportKept, PTL DEF Spec

----------------------------------------------------------------------------
(* The settings *)

\* Cache and file have what was acknowledged last; the default needs no file.
SettingsInv ==
  /\ told \in SUBSET Kinds
  /\ ~refused => /\ cache \in {NotLoaded, told}
                 /\ stored = told \/ (stored = Unreadable /\ told = Kinds)

LEMMA EnabledIsTold == ASSUME SettingsInv, ~refused PROVE Enabled = told
  BY NoSettings DEF SettingsInv, Enabled

LEMMA SettingsKept == SettingsInv /\ [Next]_vars => SettingsInv'
  <1> SUFFICES ASSUME SettingsInv, [Next]_vars PROVE SettingsInv'
    OBVIOUS
  <1>1. CASE DetectRegex
    BY <1>1, EnabledIsTold DEF DetectRegex, SettingsInv
  <1>2. ASSUME NEW K \in SUBSET Kinds, Update(K) PROVE SettingsInv'
    BY <1>2 DEF Update, SettingsInv
  <1>3. CASE Restart
    BY <1>3 DEF Restart, SettingsInv
  <1>4. CASE Detecting \/ WriteReport \/ Resetting \/ FinishRun \/ Deleting \/ UNCHANGED vars
    BY <1>4 DEF Detecting, Begin, DetectOPF, Pair, FinishBlock, DetectFails, WriteReport, Resetting,
                BeginReset, WipeOutputs, PutBack, ResetRow, FinishRun, Deleting, DeleteRows,
                DeleteFiles, vars, settingsVars, SettingsInv
  <1> QED
    BY <1>1, <1>2, <1>3, <1>4 DEF Next, Detecting, Resetting, Deleting

\* The settings that PUT /settings acknowledged last are in force, restarts and
\* comparisons in between included, until a PUT fails (settings_store.py).
THEOREM SettingsSurvive == Spec => []AcknowledgedSettingsSurvive
  <1>1. Init => SettingsInv
    BY DEF Init, SettingsInv
  <1>2. SettingsInv => AcknowledgedSettingsSurvive
    BY EnabledIsTold DEF AcknowledgedSettingsSurvive
  <1> QED
    BY <1>1, <1>2, SettingsKept, PTL DEF Spec
=============================================================================
