----------------------------- MODULE FtsJobProofs -----------------------------
(***************************************************************************)
(* Facts about FtsJob for all storages and paths: what a path's checksum   *)
(* strategy asks for, and which jobs of Rucio FTS takes.                   *)
(***************************************************************************)
EXTENDS FtsJob, FiniteSetTheorems, SequenceTheorems, WellFoundedInduction, TLAPS

\* A side FTS is told to verify.
Asks(strategy, side) == strategy \in {"both", side}

Side == {"source", "target"}

\* Merging keeps to what both strategies ask for, and drops nothing else: a path verifies
\* a side exactly if each of its hops does (PATH_CHECKSUM_VALIDATION_STRATEGY).
THEOREM MergedAsksWhatBothAsk ==
    ASSUME NEW p \in Strategy, NEW h \in Strategy, NEW side \in Side
    PROVE  Asks(Merged(p, h), side) <=> Asks(p, side) /\ Asks(h, side)
BY DEF Strategy, Merged, Asks, Side

LEMMA MergedIsStrategy ==
    ASSUME NEW p \in Strategy, NEW h \in Strategy
    PROVE  Merged(p, h) \in Strategy
BY DEF Strategy, Merged

\* The order in which the hops are merged does not matter.
THEOREM MergedInAnyOrder ==
    ASSUME NEW p \in Strategy, NEW h \in Strategy, NEW k \in Strategy
    PROVE  Merged(p, h) = Merged(h, p) /\ Merged(Merged(p, h), k) = Merged(p, Merged(h, k))
BY DEF Strategy, Merged

\* A checksum that is picked for a hop is one of the file's, and each side that is asked to
\* verify supports it.
THEOREM PickedIsSupported ==
    ASSUME NEW hop, NEW strategy \in Strategy, NEW c \in Picked(hop, strategy),
           c # NoChecksum
    PROVE  /\ c \in hop.values
           /\ Asks(strategy, "source") => c \in Available(Source(hop).rse)
           /\ Asks(strategy, "target") => c \in Available(hop.dst.rse)
<1> DEFINE known == Possible(hop, strategy) \cap hop.values
<1>1. c \in known
  BY DEF Picked
<1>. HIDE DEF known
<1>2. c \in Possible(hop, strategy) /\ c \in hop.values
  BY <1>1 DEF known
<1>. QED
  BY <1>2 DEF Possible, Strategy, Asks

\* Whatever side the strategy of a single hop asks for, there is something to ask.
THEOREM HopStrategyIsSupported ==
    ASSUME NEW hop
    PROVE  /\ HopStrategy(hop) \in Strategy
           /\ Asks(HopStrategy(hop), "source") => Available(Source(hop).rse) # {}
           /\ Asks(HopStrategy(hop), "target") => Available(hop.dst.rse) # {}
BY DEF HopStrategy, Strategy, Asks

LEMMA HopStrategyIsStrategy ==
    ASSUME NEW hop
    PROVE  HopStrategy(hop) \in Strategy
BY HopStrategyIsSupported

--------------------------------------------------------------------------------
(* The strategy of a path of any length.                                   *)

\* Induction over data is by a least counterexample: a set of numbers has a least one.
LEMMA LeastNat ==
    ASSUME NEW K \in SUBSET Nat, K # {}
    PROVE  \E n \in K : \A m \in K : n <= m
<1>1. PICK R : R = OpToRel(<, Nat)
  OBVIOUS
<1>2. IsWellFoundedOn(R, Nat)
  BY <1>1, NatLessThanWellFounded
<1>3. \A x, y \in Nat : x < y => <<x, y>> \in R
  BY <1>1 DEF OpToRel
<1>4. PICK n \in K : \A m \in K : <<m, n>> \notin R
  BY <1>2, WFMin
<1>5. ASSUME NEW m \in K  PROVE n <= m
  <2>1. m \in Nat /\ n \in Nat /\ ~(m < n)
    BY <1>3, <1>4
  <2> QED
    BY <2>1
<1> QED
  BY <1>5

\* The largest of some positions, by the distance from the last.
LEMMA MaxLemma ==
    ASSUME NEW len \in Nat, NEW s \in SUBSET (1..len), s # {}
    PROVE  Max(s) \in s /\ \A k \in s : k <= Max(s)
<1>1. PICK K : K = {n \in Nat : len - n \in s}
  OBVIOUS
<1>2. \A k \in s : len - k \in K
  BY <1>1
<1>3. PICK n \in K : \A m \in K : n <= m
  BY <1>1, <1>2, LeastNat
<1>4. len - n \in s /\ n \in Nat
  BY <1>1
<1>5. \A k \in s : len - n >= k
  BY <1>2, <1>3, <1>4
<1>6. \E x \in s : \A k \in s : x >= k
  BY <1>4, <1>5
<1>7. PICK x : x = Max(s)
  OBVIOUS
<1>8. x \in s /\ \A k \in s : x >= k
  BY <1>6, <1>7 DEF Max
<1> QED
  BY <1>7, <1>8

\* What all of some strategies ask for.
Joint(strategies) ==
    CASE strategies \subseteq {"both"} -> "both"
      [] ~(strategies \subseteq {"both"}) /\ strategies \subseteq {"both", "target"} -> "target"
      [] ~(strategies \subseteq {"both"}) /\ strategies \subseteq {"both", "source"} -> "source"
      [] OTHER -> "none"

\* A function is the merging of a sequence of strategies, on sets of its positions.
IsMerging(g, seq, all) ==
    g = [s \in SUBSET all |-> IF s = {} THEN "both" ELSE Merged(g[s \ {Max(s)}], seq[Max(s)])]

Merging(seq, all) == CHOOSE g : IsMerging(g, seq, all)

\* PathStrategy folds from the last position down.
LEMMA MergingFold ==
    ASSUME NEW path, NEW seq, seq = [i \in DOMAIN path |-> HopStrategy(path[i])]
    PROVE  PathStrategy(path) = Merging(seq, DOMAIN seq)[DOMAIN seq]
BY DEF PathStrategy, FoldLeft, MapThenFoldSet, Merging, IsMerging

\* A strategy that is merged last adds itself to what all ask for.
LEMMA JointMerges ==
    ASSUME NEW len \in Nat, NEW seq \in [1..len -> Strategy], NEW s \in SUBSET (1..len),
           NEW i \in s
    PROVE  Joint({seq[k] : k \in s}) = Merged(Joint({seq[k] : k \in s \ {i}}), seq[i])
<1>1. PICK whole, part, e : /\ whole = {seq[k] : k \in s} /\ part = {seq[k] : k \in s \ {i}}
                            /\ e = seq[i]
  OBVIOUS
<1>2. whole = part \cup {e}
  BY <1>1
<1>3. part \subseteq Strategy /\ e \in Strategy
  BY <1>1
<1>4. Joint(whole) = Merged(Joint(part), e)
  BY <1>2, <1>3 DEF Joint, Merged, Strategy
<1> QED
  BY <1>1, <1>4

\* There is a merging: the function that says of each set what all its strategies ask for.
LEMMA MergingExists ==
    ASSUME NEW len \in Nat, NEW seq \in [1..len -> Strategy]
    PROVE  \E g : IsMerging(g, seq, 1..len)
<1>1. PICK g : g = [s \in SUBSET (1..len) |-> Joint({seq[k] : k \in s})]
  OBVIOUS
<1>2. ASSUME NEW s \in SUBSET (1..len)
      PROVE  g[s] = IF s = {} THEN "both" ELSE Merged(g[s \ {Max(s)}], seq[Max(s)])
  <2>1. CASE s = {}
    BY <1>1, <2>1 DEF Joint
  <2>2. CASE s # {}
    <3>1. Max(s) \in s
      BY <2>2, MaxLemma
    <3>2. Joint({seq[k] : k \in s}) = Merged(Joint({seq[k] : k \in s \ {Max(s)}}), seq[Max(s)])
      BY <3>1, JointMerges
    <3> QED
      BY <1>1, <2>2, <3>2
  <2> QED
    BY <2>1, <2>2
<1>3. IsMerging(g, seq, 1..len)
  BY <1>1, <1>2 DEF IsMerging
<1> QED
  BY <1>3

\* And any merging is that function, by induction on the size of the set.
LEMMA MergingIsJoint ==
    ASSUME NEW len \in Nat, NEW seq \in [1..len -> Strategy], NEW g, IsMerging(g, seq, 1..len),
           NEW all \in SUBSET (1..len)
    PROVE  g[all] = Joint({seq[k] : k \in all})
<1> DEFINE Right(s) == g[s] = Joint({seq[k] : k \in s})
           K == {n \in Nat : \E s \in SUBSET (1..len) : Cardinality(s) = n /\ ~Right(s)}
<1>1. \A s \in SUBSET (1..len) : IsFiniteSet(s) /\ Cardinality(s) \in Nat
  <2>1. IsFiniteSet(1..len)
    BY FS_Interval
  <2> QED
    BY <2>1, FS_Subset, FS_CardinalityType
<1>2. ASSUME K # {}  PROVE FALSE
  <2>1. PICK n \in K : \A m \in K : n <= m
    BY <1>2, LeastNat
  <2>2. PICK s \in SUBSET (1..len) : Cardinality(s) = n /\ ~Right(s)
    BY <2>1
  <2>3. g[s] = IF s = {} THEN "both" ELSE Merged(g[s \ {Max(s)}], seq[Max(s)])
    BY DEF IsMerging
  <2>4. CASE s = {}
    BY <2>2, <2>3, <2>4 DEF Joint
  <2>5. CASE s # {}
    <3>1. Max(s) \in s
      BY <2>5, MaxLemma
    <3>2. PICK less : less = s \ {Max(s)}
      OBVIOUS
    <3>3. Cardinality(less) = n - 1 /\ less \in SUBSET (1..len) /\ n \in Nat
      BY <1>1, <2>2, <3>1, <3>2, FS_RemoveElement
    <3>4. Cardinality(less) \in Nat
      BY <1>1, <3>3
    <3>5. Right(less)
      <4>1. Cardinality(less) \notin K
        <5>. HIDE DEF K
        <5> QED
          BY <2>1, <3>3
      <4> QED
        BY <3>3, <3>4, <4>1
    <3>6. Joint({seq[k] : k \in s}) = Merged(Joint({seq[k] : k \in s \ {Max(s)}}), seq[Max(s)])
      BY <3>1, JointMerges
    <3> QED
      BY <2>2, <2>3, <2>5, <3>2, <3>5, <3>6
  <2> QED
    BY <2>4, <2>5
<1>3. Cardinality(all) \in Nat
  BY <1>1
<1> QED
  BY <1>2, <1>3

\* The strategy of a path of any length is what all its hops ask for.
LEMMA PathIsJoint ==
    ASSUME NEW len \in Nat, NEW path, DOMAIN path = 1..len,
           \A i \in 1..len : HopStrategy(path[i]) \in Strategy
    PROVE  PathStrategy(path) = Joint({HopStrategy(path[i]) : i \in 1..len})
<1>1. PICK seq : seq = [i \in DOMAIN path |-> HopStrategy(path[i])]
  OBVIOUS
<1>2. seq \in [1..len -> Strategy] /\ DOMAIN seq = 1..len
  BY <1>1
<1>3. PathStrategy(path) = Merging(seq, 1..len)[1..len]
  BY <1>1, <1>2, MergingFold
<1>4. IsMerging(Merging(seq, 1..len), seq, 1..len)
  BY <1>2, MergingExists DEF Merging
<1>5. Merging(seq, 1..len)[1..len] = Joint({seq[i] : i \in 1..len})
  BY <1>2, <1>4, MergingIsJoint
<1>6. {seq[i] : i \in 1..len} = {HopStrategy(path[i]) : i \in 1..len}
  BY <1>1
<1> QED
  BY <1>3, <1>5, <1>6

LEMMA PathStrategyIsStrategy ==
    ASSUME NEW len \in Nat, NEW path, DOMAIN path = 1..len
    PROVE  PathStrategy(path) \in Strategy
<1>1. \A i \in 1..len : HopStrategy(path[i]) \in Strategy
  BY HopStrategyIsStrategy
<1>2. PathStrategy(path) = Joint({HopStrategy(path[i]) : i \in 1..len})
  BY <1>1, PathIsJoint
<1> QED
  BY <1>2 DEF Joint, Strategy

\* A job is told to verify a side exactly if that side of every hop of its path has a checksum
\* to verify, however long the path is and in whatever order its hops are merged
\* (job_params_for_fts_transfer folds PATH_CHECKSUM_VALIDATION_STRATEGY over the path).
THEOREM PathAsksWhatEveryHopAsks ==
    ASSUME NEW len \in Nat, NEW path, DOMAIN path = 1..len, NEW side \in Side
    PROVE  Asks(PathStrategy(path), side)
             <=> \A i \in DOMAIN path : Asks(HopStrategy(path[i]), side)
<1>1. \A i \in 1..len : HopStrategy(path[i]) \in Strategy
  BY HopStrategyIsStrategy
<1>2. PICK asked : asked = {HopStrategy(path[i]) : i \in 1..len}
  OBVIOUS
<1>3. PathStrategy(path) = Joint(asked)
  BY <1>1, <1>2, PathIsJoint
<1>4. asked \subseteq Strategy
  BY <1>1, <1>2
<1>5. Asks(Joint(asked), side) <=> \A h \in asked : Asks(h, side)
  BY <1>4 DEF Joint, Asks, Side, Strategy
<1>6. (\A h \in asked : Asks(h, side)) <=> \A i \in DOMAIN path : Asks(HopStrategy(path[i]), side)
  BY <1>2
<1> QED
  BY <1>3, <1>5, <1>6

--------------------------------------------------------------------------------
\* FTS refuses the overwrite flags of no job, but for one to a tape whose disk buffer only may be
\* overwritten: after a corrupted destination, or without a limit for the archiving.
THEOREM FlagsRefusedForCause ==
    ASSUME NEW path, NEW tool, FlagsRefused(JobParams(path, tool))
    PROVE  LET p == JobParams(path, tool)
           IN OnlyOnDisk(LastHop(path).dst.rse) /\ (p.overwrite \/ p.archive <= 0)
<1> DEFINE p == JobParams(path, tool)
<1>1. /\ p.onlyOnDisk = OnlyOnDisk(LastHop(path).dst.rse)
      /\ p.overwriteHop = (HopsOverwritable(path) /\ ~p.overwrite)
      /\ FlagsRefused(p)
  BY DEF JobParams
<1>. HIDE DEF p
<1>2. \A f : Cardinality({f}) = 1
  BY FS_Singleton
<1>3. p.onlyOnDisk
  <2>. SUFFICES ASSUME ~p.onlyOnDisk PROVE FALSE
    OBVIOUS
  <2>1. \/ OverwriteFlags(p) = {} \/ OverwriteFlags(p) = {"overwrite"}
        \/ OverwriteFlags(p) = {"overwriteHop"}
    BY <1>1 DEF OverwriteFlags
  <2>2. Cardinality(OverwriteFlags(p)) \in {0, 1}
    BY <1>2, <2>1, FS_EmptySet
  <2>. QED
    BY <1>1, <2>2 DEF FlagsRefused
<1>4. p.overwrite \/ p.archive <= 0
  <2>. SUFFICES ASSUME ~p.overwrite, ~(p.archive <= 0) PROVE FALSE
    OBVIOUS
  <2>1. OverwriteFlags(p) = {"onlyOnDisk"} \/ OverwriteFlags(p) = {"overwriteHop", "onlyOnDisk"}
    BY <1>3 DEF OverwriteFlags
  <2>2. Cardinality({"onlyOnDisk"}) = 1
    BY <1>2
  <2>. QED
    BY <1>1, <2>1, <2>2 DEF FlagsRefused
<1>. QED
  BY <1>1, <1>3, <1>4 DEF p

--------------------------------------------------------------------------------
(* From paths to jobs.                                                     *)

LEMMA MinOfTwo ==
    ASSUME NEW a \in Int, NEW b \in Int
    PROVE  Min({a, b}) = IF a <= b THEN a ELSE b
<1> DEFINE IsMin(x) == x \in {a, b} /\ \A y \in {a, b} : x <= y
<1>1. \E x \in {a, b} : \A y \in {a, b} : x <= y
  BY SMT
<1>2. Min({a, b}) \in {a, b} /\ \A y \in {a, b} : Min({a, b}) <= y
  BY <1>1 DEF Min
<1> QED
  BY <1>2

\* The hops FTS can perform are the beginning of a path.
LEMMA SubmittableLemma ==
    ASSUME NEW S, NEW path \in Seq(S)
    PROVE  \E n \in 0..Len(path) : /\ Submittable(path) = SubSeq(path, 1, n)
                                   /\ Submittable(path) \in Seq(S)
                                   /\ Len(Submittable(path)) = n
                                   /\ \A i \in 1..n : Submittable(path)[i] = path[i]
<1> DEFINE served == {i \in DOMAIN path : \A k \in 1..i : Server(path[k]) # NoServer}
<1>1. IsFiniteSet(1..Len(path)) /\ Cardinality(1..Len(path)) = Len(path)
  <2>1. 1 \in Int /\ Len(path) \in Int /\ Len(path) >= 0
    OBVIOUS
  <2>2. /\ IsFiniteSet(1..Len(path))
        /\ Cardinality(1..Len(path)) = IF 1 > Len(path) THEN 0 ELSE Len(path) - 1 + 1
    BY <2>1, FS_Interval
  <2> QED
    BY <2>1, <2>2
<1>2. served \subseteq 1..Len(path)
  OBVIOUS
<1>3. Cardinality(served) \in 0..Len(path)
  BY <1>1, <1>2, FS_Subset, FS_CardinalityType
<1>4. Submittable(path) = SubSeq(path, 1, Cardinality(served))
  BY DEF Submittable
<1>. HIDE DEF served
<1> QED
  BY <1>3, <1>4

\* A piece of a sequence of numbers in order is some of them, each once.
LEMMA ChunkLemma ==
    ASSUME NEW ns, IsFiniteSet(ns), ns \subseteq Nat, NEW g \in InOrder(ns),
           NEW n \in Nat \ {0}, NEW chunk \in Chunks(g, n)
    PROVE  /\ 1 \in DOMAIN g /\ g[1] \in ns
           /\ \E m \in Nat \ {0} : /\ chunk \in [1..m -> ns]
                                   /\ \A i, k \in 1..m : chunk[i] = chunk[k] => i = k
<1> DEFINE c == Cardinality(ns)
<1>1. c \in Nat
  BY FS_CardinalityType
<1>2. g \in [1..c -> ns] /\ \A i, k \in 1..c : i < k => g[i] < g[k]
  BY DEF InOrder
<1>. HIDE DEF c
<1>3. Len(g) = c /\ g \in Seq(ns)
  BY <1>1, <1>2
<1>4. PICK first \in 1..c : chunk = SubSeq(g, first, Min({first + n - 1, c}))
  BY <1>2, <1>3 DEF Chunks
<1>5. PICK last \in first..c : chunk = SubSeq(g, first, last)
  <2>1. first + n - 1 \in Int /\ c \in Int /\ first \in Int
    BY <1>1
  <2>2. Min({first + n - 1, c}) = IF first + n - 1 <= c THEN first + n - 1 ELSE c
    BY <2>1, MinOfTwo
  <2>3. Min({first + n - 1, c}) \in first..c
    BY <1>1, <2>1, <2>2
  <2> QED
    BY <1>4, <2>3
<1>6. /\ chunk \in [1..(last - first + 1) -> ns]
      /\ \A i \in 1..(last - first + 1) : chunk[i] = g[first + i - 1]
  <2>1. first \in Int /\ last \in Int /\ first <= last
    BY <1>1
  <2>2. \A i \in first..last : g[i] \in ns
    BY <1>1, <1>2
  <2>3. /\ SubSeq(g, first, last) \in Seq(ns)
        /\ Len(SubSeq(g, first, last)) = last - first + 1
        /\ \A i \in 1..(last - first + 1) : SubSeq(g, first, last)[i] = g[first + i - 1]
    BY <2>1, <2>2, SubSeqProperties
  <2>4. SubSeq(g, first, last) \in [1..(last - first + 1) -> ns]
    BY <2>3, LenProperties
  <2> QED
    BY <1>5, <2>3, <2>4
<1>7. ASSUME NEW i \in 1..c, NEW k \in 1..c, g[i] = g[k]  PROVE i = k
  <2>1. g[i] \in Nat
    BY <1>2
  <2>2. ~(i < k) /\ ~(k < i)
    BY <1>2, <1>7, <2>1
  <2> QED
    BY <1>1, <2>2
<1>8. \A i, k \in 1..(last - first + 1) : chunk[i] = chunk[k] => i = k
  BY <1>1, <1>5, <1>6, <1>7
<1>9. 1 \in DOMAIN g /\ g[1] \in ns
  <2>1. 1 \in 1..c
    BY <1>1
  <2> QED
    BY <1>2, <2>1
<1>10. \E m \in Nat \ {0} : /\ chunk \in [1..m -> ns]
                            /\ \A i, k \in 1..m : chunk[i] = chunk[k] => i = k
  <2> DEFINE m == last - first + 1
  <2>1. m \in Nat \ {0}
    BY <1>1
  <2>2. chunk \in [1..m -> ns] /\ \A i, k \in 1..m : chunk[i] = chunk[k] => i = k
    BY <1>6, <1>8
  <2>. HIDE DEF m
  <2> QED
    BY <2>1, <2>2
<1> QED
  BY <1>9, <1>10

\* The transfers of the numbered paths, which have one hop each.
FirstHops(paths, chunk) == [i \in DOMAIN chunk |-> FirstHop(paths[chunk[i]])]

\* A job has the hops of a path of its own, at least the first ones, ...
IsPath(j, paths, tool) ==
    \E n \in DOMAIN paths : \E m \in 1..Len(paths[n]) :
        /\ Alone(paths[n])
        /\ j.params = JobParams(paths[n], tool)
        /\ j.transfers = SubSeq(paths[n], 1, m)

\* ... or the single hops of different paths that agree with the one whose parameters it has.
IsGroup(j, paths, tool) ==
    \E first \in DOMAIN paths, m \in Nat \ {0} : \E c \in [1..m -> DOMAIN paths] :
        /\ ~Alone(paths[first])
        /\ \A i, k \in 1..m : c[i] = c[k] => i = k
        /\ \A i \in 1..m : /\ ~Alone(paths[c[i]])
                           /\ GroupKey(paths[c[i]], tool) = GroupKey(paths[first], tool)
        /\ j.params = JobParams(paths[first], tool)
        /\ j.transfers = FirstHops(paths, c)

LEMMA JobLemma ==
    ASSUME NEW S, NEW paths, IsFiniteSet(DOMAIN paths), DOMAIN paths \subseteq Nat,
           \A n \in DOMAIN paths : paths[n] \in Seq(S) /\ paths[n] # <<>>,
           NEW tool, tool.bulk \in Nat \ {0}, NEW j \in Jobs(paths, tool)
    PROVE  IsPath(j, paths, tool) \/ IsGroup(j, paths, tool)
<1> DEFINE bulk == {n \in DOMAIN paths : ~Alone(paths[n])}
           group(n) == {k \in bulk : GroupKey(paths[k], tool) = GroupKey(paths[n], tool)}
           whole(n) == [transfers |-> SubSeq(paths[n], 1, Min({tool.bulk, Len(paths[n])})),
                        params |-> JobParams(paths[n], tool)]
           part(g, chunk) == [transfers |-> FirstHops(paths, chunk), params |-> JobParams(paths[g[1]], tool)]
<1>1. \/ \E n \in DOMAIN paths \ bulk : j = whole(n)
      \/ \E n \in bulk : \E g \in InOrder(group(n)) : \E chunk \in Chunks(g, tool.bulk) :
            j = part(g, chunk)
  <2> DEFINE groups == {group(n) : n \in bulk}
  <2>1. Jobs(paths, tool) =
          {whole(n) : n \in DOMAIN paths \ bulk}
          \cup UNION {{part(g, chunk) : chunk \in Chunks(g, tool.bulk)} :
                         g \in UNION {InOrder(ns) : ns \in groups}}
    BY DEF Jobs, FirstHops
  <2>. HIDE DEF whole, part, bulk
  <2>2. \/ j \in {whole(n) : n \in DOMAIN paths \ bulk}
        \/ \E g \in UNION {InOrder(ns) : ns \in groups} :
              j \in {part(g, chunk) : chunk \in Chunks(g, tool.bulk)}
    BY <2>1
  <2> QED
    BY <2>2
<1>2. CASE \E n \in DOMAIN paths \ bulk : j = whole(n)
  <2>1. PICK n \in DOMAIN paths \ bulk : j = whole(n)
    BY <1>2
  <2>2. j.params = JobParams(paths[n], tool)
        /\ j.transfers = SubSeq(paths[n], 1, Min({tool.bulk, Len(paths[n])}))
    BY <2>1
  <2>3. Len(paths[n]) \in Nat \ {0}
    OBVIOUS
  <2>4. Min({tool.bulk, Len(paths[n])}) \in 1..Len(paths[n])
    BY <2>3, MinOfTwo
  <2>. HIDE DEF bulk, group, whole, part
  <2>5. IsPath(j, paths, tool)
    BY <2>1, <2>2, <2>4 DEF IsPath, bulk
  <2> QED
    BY <2>5
<1>3. CASE \E n \in bulk : \E g \in InOrder(group(n)) : \E chunk \in Chunks(g, tool.bulk) :
              j = part(g, chunk)
  <2>1. PICK n \in bulk : \E g \in InOrder(group(n)) : \E chunk \in Chunks(g, tool.bulk) :
            j = part(g, chunk)
    BY <1>3
  <2>2. PICK g \in InOrder(group(n)) : \E chunk \in Chunks(g, tool.bulk) : j = part(g, chunk)
    BY <2>1
  <2>3. PICK chunk \in Chunks(g, tool.bulk) : j = part(g, chunk)
    BY <2>2
  <2>4. IsFiniteSet(group(n)) /\ group(n) \subseteq Nat
    BY FS_Subset
  <2>5. /\ g[1] \in group(n)
        /\ \E m \in Nat \ {0} : /\ chunk \in [1..m -> group(n)]
                                /\ \A i, k \in 1..m : chunk[i] = chunk[k] => i = k
    <3> DEFINE ns == group(n)
    <3>1. IsFiniteSet(ns) /\ ns \subseteq Nat /\ g \in InOrder(ns)
      BY <2>4
    <3>2. tool.bulk \in Nat \ {0} /\ chunk \in Chunks(g, tool.bulk)
      OBVIOUS
    <3>. HIDE DEF ns
    <3>3. /\ g[1] \in ns
          /\ \E m \in Nat \ {0} : /\ chunk \in [1..m -> ns]
                                  /\ \A i, k \in 1..m : chunk[i] = chunk[k] => i = k
      <4>1. \A gg \in InOrder(ns) : \A n1 \in Nat \ {0} : \A cc \in Chunks(gg, n1) :
              /\ 1 \in DOMAIN gg /\ gg[1] \in ns
              /\ \E m \in Nat \ {0} : /\ cc \in [1..m -> ns]
                                      /\ \A i, k \in 1..m : cc[i] = cc[k] => i = k
        BY ONLY <3>1, ChunkLemma
      <4> QED
        BY ONLY <3>1, <3>2, <4>1
    <3> QED
      BY <3>3 DEF ns
  <2>6. PICK m \in Nat \ {0} : /\ chunk \in [1..m -> group(n)]
                               /\ \A i, k \in 1..m : chunk[i] = chunk[k] => i = k
    BY <2>5
  <2>7. /\ j.params = JobParams(paths[g[1]], tool)
        /\ j.transfers = FirstHops(paths, chunk)
    BY <2>3
  <2>8. /\ g[1] \in DOMAIN paths /\ ~Alone(paths[g[1]])
        /\ GroupKey(paths[g[1]], tool) = GroupKey(paths[n], tool)
    BY <2>5
  <2>9. \A i \in 1..m : /\ chunk[i] \in DOMAIN paths /\ ~Alone(paths[chunk[i]])
                        /\ GroupKey(paths[chunk[i]], tool) = GroupKey(paths[n], tool)
    BY <2>6
  <2>10. chunk \in [1..m -> DOMAIN paths]
    BY <2>6, <2>9
  <2>11. \A i \in 1..m : GroupKey(paths[chunk[i]], tool) = GroupKey(paths[g[1]], tool)
    BY <2>8, <2>9
  <2>. HIDE DEF bulk, group, part
  <2>12. /\ ~Alone(paths[g[1]])
         /\ \A i, k \in 1..m : chunk[i] = chunk[k] => i = k
         /\ \A i \in 1..m : /\ ~Alone(paths[chunk[i]])
                            /\ GroupKey(paths[chunk[i]], tool) = GroupKey(paths[g[1]], tool)
         /\ j.params = JobParams(paths[g[1]], tool)
         /\ j.transfers = FirstHops(paths, chunk)
    BY <2>6, <2>7, <2>8, <2>9, <2>11
  <2>13. g[1] \in DOMAIN paths
    BY <2>8
  <2>14. IsGroup(j, paths, tool)
    BY <2>10, <2>12, <2>13 DEF IsGroup
  <2> QED
    BY <2>14
<1> QED
  BY <1>1, <1>2, <1>3

\* What the group key of a transfer tells of its parameters.
LEMMA SameGroup ==
    ASSUME NEW a, NEW b, NEW tool, GroupKey(a, tool) = GroupKey(b, tool)
    PROVE  /\ JobParams(a, tool).overwrite = JobParams(b, tool).overwrite
           /\ JobParams(a, tool).verify = JobParams(b, tool).verify
<1> DEFINE p == JobParams(a, tool)
           q == JobParams(b, tool)
<1>1. <<p.verify, p.lifetime, p.bringOnline, p.onlyOnDisk, p.overwrite, p.priority,
        UsesTokens(FirstHop(a)), PolicyKey(FirstHop(a), tool.policy)>>
      = <<q.verify, q.lifetime, q.bringOnline, q.onlyOnDisk, q.overwrite, q.priority,
          UsesTokens(FirstHop(b)), PolicyKey(FirstHop(b), tool.policy)>>
  BY DEF GroupKey
<1>. HIDE DEF p, q
<1>2. p.overwrite = q.overwrite /\ p.verify = q.verify
  BY <1>1
<1> QED
  BY <1>2 DEF p, q

LEMMA ToSeq ==
    ASSUME NEW S, NEW n \in Nat, NEW f \in [1..n -> S]
    PROVE  f \in Seq(S) /\ Len(f) = n /\ DOMAIN f = 1..n
BY SeqDef

===============================================================================
