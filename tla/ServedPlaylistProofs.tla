------------------------- MODULE ServedPlaylistProofs -------------------------
(***************************************************************************)
(* Machine-checked proofs about ServedPlaylist, for every retention window *)
(* and any number of runs and segments.                                    *)
(***************************************************************************)
EXTENDS ServedPlaylist, TLAPS, FiniteSetTheorems

-----------------------------------------------------------------------------
(* Least and greatest elements.                                            *)

\* Among finite sets of naturals, one has no strict subset: what replaces the
\* induction that finds a least or a greatest number.
LEMMA SmallestOfSets ==
  ASSUME NEW T, T # {}, \A t \in T : t \subseteq Nat /\ IsFiniteSet(t)
  PROVE \E x \in T : \A y \in T : y \subseteq x => y = x
<1>1. T \subseteq FiniteSubsetsOf(Nat)
  BY DEF FiniteSubsetsOf
<1>2. \E x \in T : \A y \in T : ~(<<y, x>> \in StrictSubsetOrdering(Nat))
  BY <1>1, FS_StrictSubsetOrderingWellFounded, WFMin
<1>3. PICK x \in T : \A y \in T : ~(<<y, x>> \in StrictSubsetOrdering(Nat))
  BY <1>2
<1>4. ASSUME NEW y \in T, y \subseteq x PROVE y = x
  BY <1>3, <1>4 DEF StrictSubsetOrdering
<1> QED BY <1>4

\* A set of naturals with an element has a least one, and Min returns it.
LEMMA MinIsLeast ==
  ASSUME NEW S, S \subseteq Nat, S # {}
  PROVE Min(S) \in S /\ \A y \in S : Min(S) <= y
<1> DEFINE T == {0 .. n : n \in S}
<1>1. \A t \in T : t \subseteq Nat /\ IsFiniteSet(t)
  <2> SUFFICES ASSUME NEW n \in S PROVE 0 .. n \subseteq Nat /\ IsFiniteSet(0 .. n)
    OBVIOUS
  <2> QED BY FS_Interval
<1>2. PICK t \in T : \A y \in T : y \subseteq t => y = t
  <2>1. T # {}
    OBVIOUS
  <2> HIDE DEF T
  <2> QED BY <1>1, <2>1, SmallestOfSets
<1>3. PICK n \in S : t = 0 .. n
  OBVIOUS
<1>4. ASSUME NEW y \in S PROVE n <= y
  <2> SUFFICES ASSUME y < n PROVE FALSE
    OBVIOUS
  <2>1. 0 .. y \subseteq 0 .. n /\ n \notin 0 .. y /\ n \in 0 .. n
    OBVIOUS
  <2> QED BY <1>2, <1>3, <2>1
<1> QED BY <1>4 DEF Min

\* A set of naturals below a bound has a greatest element, and Max returns it.
LEMMA MaxIsGreatest ==
  ASSUME NEW S, NEW k \in Nat, S \subseteq 0 .. k, S # {}
  PROVE Max(S) \in S /\ \A y \in S : y <= Max(S)
<1> DEFINE T == {n .. k : n \in S}
<1>1. \A t \in T : t \subseteq Nat /\ IsFiniteSet(t)
  <2> SUFFICES ASSUME NEW n \in S PROVE n .. k \subseteq Nat /\ IsFiniteSet(n .. k)
    OBVIOUS
  <2> QED BY FS_Interval
<1>2. PICK t \in T : \A y \in T : y \subseteq t => y = t
  <2>1. T # {}
    OBVIOUS
  <2> HIDE DEF T
  <2> QED BY <1>1, <2>1, SmallestOfSets
<1>3. PICK n \in S : t = n .. k
  OBVIOUS
<1>4. ASSUME NEW y \in S PROVE y <= n
  <2> SUFFICES ASSUME n < y PROVE FALSE
    OBVIOUS
  <2>1. y .. k \subseteq n .. k /\ n \notin y .. k /\ n \in n .. k
    OBVIOUS
  <2> QED BY <1>2, <1>3, <2>1
<1> QED BY <1>4 DEF Max

-----------------------------------------------------------------------------
(* What a playlist lists.                                                  *)

LEMMA ListedPairs ==
  ASSUME NEW rs
  PROVE /\ \A r, n : <<r, n>> \in Listed(rs) <=> r \in DOMAIN rs /\ n \in rs[r].segs
        /\ \A e \in Listed(rs) : e = <<e[1], e[2]>> /\ e[1] \in DOMAIN rs /\ e[2] \in rs[e[1]].segs
        /\ \A n : n \in Indexes(rs) <=> \E r \in DOMAIN rs : n \in rs[r].segs
<1>1. ASSUME NEW e \in Listed(rs)
      PROVE \E r \in DOMAIN rs : \E n \in rs[r].segs : e = <<r, n>>
  <2>1. PICK r \in DOMAIN rs : e \in {<<r, n>> : n \in rs[r].segs}
    BY DEF Listed
  <2> QED BY <2>1
<1>2. ASSUME NEW r \in DOMAIN rs, NEW n \in rs[r].segs PROVE <<r, n>> \in Listed(rs)
  BY DEF Listed
<1>3. \A n : n \in Indexes(rs) <=> \E r \in DOMAIN rs : n \in rs[r].segs
  BY DEF Indexes
<1> QED BY <1>1, <1>2, <1>3

\* The types and the order the invariant gives a playlist, as one assumption.
Sound(rs) ==
  /\ Runs(rs) /\ Ordered(rs)
  /\ cur \in Nat /\ start \in Nat /\ written \in Nat

LEMMA RunNumbers ==
  ASSUME NEW rs, Sound(rs)
  PROVE /\ \A r \in DOMAIN rs : r \in Nat /\ r <= cur
        /\ \A r \in DOMAIN rs : \A n \in rs[r].segs :
             /\ n \in Nat /\ n < start + written
             /\ r = cur => n >= start
             /\ r # cur => n < start
        /\ Indexes(rs) \subseteq 0 .. start + written
        /\ \A n \in Indexes(rs) : n \in Nat /\ n < start + written
        /\ start + written \in Nat
        /\ IsFiniteSet(Indexes(rs))
<1>1. \A r \in DOMAIN rs : r \in Nat /\ r <= cur
  BY DEF Sound, Runs
<1>2. ASSUME NEW r \in DOMAIN rs, NEW n \in rs[r].segs
      PROVE n \in Nat /\ n < start + written /\ (r = cur => n >= start) /\ (r # cur => n < start)
  <2>1. n \in IF r = cur THEN OwnSegments ELSE 0 .. start - 1
    BY DEF Sound, Ordered
  <2>2. CASE r = cur
    BY <2>1, <2>2 DEF OwnSegments, Sound
  <2>3. CASE r # cur
    BY <2>1, <2>3 DEF Sound
  <2> QED BY <2>2, <2>3
<1>3. \A n \in Indexes(rs) : n \in Nat /\ n < start + written
  BY <1>2 DEF Indexes
<1>4. start + written \in Nat
  BY DEF Sound
<1>5. Indexes(rs) \subseteq 0 .. start + written
  BY <1>3, <1>4
<1>6. IsFiniteSet(Indexes(rs))
  <2>1. IsFiniteSet(0 .. start + written)
    BY <1>4, FS_Interval
  <2> QED BY <1>5, <2>1, FS_Subset
<1> QED BY <1>1, <1>2, <1>3, <1>4, <1>5, <1>6

\* The highest segment produced is listed, and nothing listed is above it.
LEMMA HighestIsLast ==
  ASSUME NEW rs, Sound(rs)
  PROVE IF Indexes(rs) = {} THEN HighestProduced(rs) = -1
        ELSE /\ HighestProduced(rs) \in Indexes(rs)
             /\ \A n \in Indexes(rs) : n <= HighestProduced(rs)
  BY RunNumbers, MaxIsGreatest DEF HighestProduced

\* Runs with no segment are not listed, so a playlist with a run has an index.
LEMMA RunsHaveIndexes ==
  ASSUME NEW rs, Sound(rs)
  PROVE Indexes(rs) = {} <=> DOMAIN rs = {}
<1>1. \A r \in DOMAIN rs : \E n : n \in rs[r].segs
  BY DEF Sound, Ordered
<1> QED BY <1>1, ListedPairs

-----------------------------------------------------------------------------
(* Which segments the retention takes.                                     *)

\* Fewer segments follow a later one; none follow the last.
LEMMA FollowersShrink ==
  ASSUME NEW rs, Sound(rs)
  PROVE /\ \A n : Cardinality(Following(rs, n)) \in Nat
        /\ \A n, m \in Indexes(rs) :
             n <= m => Cardinality(Following(rs, m)) <= Cardinality(Following(rs, n))
        /\ \A n \in Int : (\A m \in Indexes(rs) : m <= n) => Cardinality(Following(rs, n)) = 0
<1>1. ASSUME NEW n PROVE IsFiniteSet(Following(rs, n))
  BY RunNumbers, FS_Subset DEF Following
<1>2. ASSUME NEW n \in Indexes(rs), NEW m \in Indexes(rs), n <= m
      PROVE Cardinality(Following(rs, m)) <= Cardinality(Following(rs, n))
  <2>1. Following(rs, m) \subseteq Following(rs, n)
    BY <1>2, RunNumbers DEF Following
  <2> QED BY <1>1, <2>1, FS_Subset
<1>3. ASSUME NEW n \in Int, \A m \in Indexes(rs) : m <= n
      PROVE Cardinality(Following(rs, n)) = 0
  <2>1. Following(rs, n) = {}
    BY <1>3, RunNumbers DEF Following
  <2> QED BY <2>1, FS_EmptySet
<1> QED BY <1>1, <1>2, <1>3, FS_CardinalityType

\* Of the current run's segments, one the retention takes has Retention more after
\* it; and one that has them is taken as soon as the viewer is past it.
LEMMA DueForPruning ==
  ASSUME NEW rs, Sound(rs), NEW n \in OwnSegments, NEW viewer \in Int
  PROVE /\ n \in Prunable(rs, viewer) => n + Retention < start + written /\ n < viewer
        /\ OwnSegments \subseteq Indexes(rs) /\ n + Retention < start + written /\ n < viewer
             => n \in Prunable(rs, viewer)
<1>0. n \in Int /\ start \in Nat /\ written \in Nat /\ Retention \in Nat
  BY RetentionAssumption DEF OwnSegments, Sound
<1> DEFINE After == n + 1 .. start + written - 1
<1>1. IsFiniteSet(After) /\ Cardinality(After) = start + written - 1 - n
  <2>1. n + 1 \in Int /\ start + written - 1 \in Int
        /\ n + 1 <= (start + written - 1) + 1
    BY <1>0 DEF OwnSegments
  <2>2. ASSUME NEW lo \in Int, NEW hi \in Int, lo <= hi + 1
        PROVE IsFiniteSet(lo .. hi) /\ Cardinality(lo .. hi) = hi + 1 - lo
    BY <2>2, FS_Interval
  <2>3. /\ IsFiniteSet(After)
        /\ Cardinality(After) = (start + written - 1) + 1 - (n + 1)
    BY ONLY <2>1, <2>2, Zenon
  <2> QED BY <1>0, <2>3
<1>2. Following(rs, n) \subseteq After
  BY <1>0, RunNumbers DEF Following
<1>3. Cardinality(Following(rs, n)) <= Cardinality(After)
  BY <1>1, <1>2, FS_Subset
<1>4. Cardinality(Following(rs, n)) \in Nat
  BY FollowersShrink
<1>5. n \in Prunable(rs, viewer) => n + Retention < start + written /\ n < viewer
  BY <1>0, <1>1, <1>3, <1>4 DEF Prunable
<1>6. ASSUME OwnSegments \subseteq Indexes(rs), n + Retention < start + written, n < viewer
      PROVE n \in Prunable(rs, viewer)
  <2>1. Following(rs, n) = After
    BY <1>0, <1>2, <1>6 DEF Following, OwnSegments
  <2>2. Cardinality(Following(rs, n)) >= Retention
    BY <1>0, <1>1, <1>6, <2>1
  <2> QED BY <1>6, <2>2 DEF Prunable
<1> QED BY <1>5, <1>6

\* The last segment stays, and what comes before a segment taken is taken too.
LEMMA PrunedFromTheHead ==
  ASSUME NEW rs, Sound(rs), NEW viewer \in Int
  PROVE /\ Indexes(rs) # {} => HighestProduced(rs) \notin Prunable(rs, viewer)
        /\ \A n, m \in Indexes(rs) :
             n <= m /\ m \in Prunable(rs, viewer) => n \in Prunable(rs, viewer)
<1>0. Retention \in Nat \ {0}
  BY RetentionAssumption
<1>1. ASSUME Indexes(rs) # {} PROVE HighestProduced(rs) \notin Prunable(rs, viewer)
  <2>1. Cardinality(Following(rs, HighestProduced(rs))) = 0
    BY <1>1, HighestIsLast, FollowersShrink, RunNumbers
  <2> QED BY <1>0, <2>1 DEF Prunable
<1>2. ASSUME NEW n \in Indexes(rs), NEW m \in Indexes(rs), n <= m, m \in Prunable(rs, viewer)
      PROVE n \in Prunable(rs, viewer)
  <2>1. n \in Nat /\ m \in Nat
    BY RunNumbers
  <2>2. /\ Cardinality(Following(rs, m)) <= Cardinality(Following(rs, n))
        /\ Cardinality(Following(rs, m)) \in Nat /\ Cardinality(Following(rs, n)) \in Nat
    BY <1>2, FollowersShrink
  <2> QED BY <1>0, <1>2, <2>1, <2>2 DEF Prunable
<1> QED BY <1>1, <1>2

\* What pruneRetention returns: every run but those that lost all they had, each
\* without what was taken; at least the last segment is left.
LEMMA PruneReturns ==
  ASSUME NEW rs, Sound(rs), NEW viewer \in Int,
         NEW new, new = PruneRetention(rs, cur, viewer),
         NEW gone, gone = Prunable(rs, viewer)
  PROVE /\ DOMAIN new = DOMAIN rs \ DeletedRuns(rs, cur, viewer)
        /\ \A r \in DOMAIN new : /\ new[r] \in RunsType
                                 /\ new[r].segs = rs[r].segs \ gone
                                 /\ new[r].segs # {}
        /\ \A r \in DOMAIN rs \ DOMAIN new : r # cur /\ rs[r].segs \subseteq gone
        /\ \A n : n \in Indexes(new) <=> n \in Indexes(rs) /\ n \notin gone
        /\ Runs(new) /\ Ordered(new)
        /\ DOMAIN rs # {} => DOMAIN new # {}
<1>1. DOMAIN new = DOMAIN rs \ DeletedRuns(rs, cur, viewer)
  BY DEF PruneRetention
<1>2. ASSUME NEW r \in DOMAIN new
      PROVE new[r] \in RunsType /\ new[r].segs = rs[r].segs \ gone
  <2>1. new[r] = [segs |-> rs[r].segs \ gone, ended |-> rs[r].ended]
    BY <1>1 DEF PruneRetention
  <2>2. rs[r] \in RunsType
    BY <1>1 DEF Sound, Runs
  <2> QED BY <2>1, <2>2 DEF RunsType
<1>3. ASSUME NEW r \in DOMAIN new PROVE new[r].segs # {}
  <2>1. rs[r].segs # {} /\ r \in DOMAIN rs
    BY <1>1 DEF Sound, Ordered
  <2>2. CASE r # cur
    <3>1. ~(rs[r].segs \subseteq gone)
      BY <1>1, <2>1, <2>2 DEF DeletedRuns
    <3> QED BY <1>2, <3>1
  <2>3. CASE r = cur
    <3>1. Indexes(rs) # {} /\ HighestProduced(rs) \in Indexes(rs)
      BY <2>1, ListedPairs, HighestIsLast
    <3>2. PICK n \in rs[r].segs : n \in Nat /\ start <= n
      BY <2>1, <2>3, RunNumbers
    <3>3. n <= HighestProduced(rs)
      BY <2>1, <3>1, <3>2, ListedPairs, HighestIsLast
    <3>4. HighestProduced(rs) \in rs[r].segs
      <4>1. PICK q \in DOMAIN rs : HighestProduced(rs) \in rs[q].segs
        BY <3>1, ListedPairs
      <4>2. q = cur
        BY <3>2, <3>3, <4>1, RunNumbers DEF Sound
      <4> QED BY <2>3, <4>1, <4>2
    <3> QED BY <1>2, <3>1, <3>4, PrunedFromTheHead
  <2> QED BY <2>2, <2>3
<1>4. ASSUME NEW r \in DOMAIN rs \ DOMAIN new PROVE r # cur /\ rs[r].segs \subseteq gone
  BY <1>1 DEF DeletedRuns
<1>5. ASSUME NEW n PROVE n \in Indexes(new) <=> n \in Indexes(rs) /\ n \notin gone
  BY <1>1, <1>2, <1>4, ListedPairs
<1>6. Runs(new) /\ Ordered(new)
  <2>1. Runs(new)
    BY <1>1, <1>2 DEF Runs, Sound
  <2>2. Ordered(new)
    BY <1>1, <1>2, <1>3 DEF Ordered, Sound
  <2> QED BY <2>1, <2>2
<1>7. ASSUME DOMAIN rs # {} PROVE DOMAIN new # {}
  <2>1. Indexes(rs) # {}
    BY <1>7, RunsHaveIndexes
  <2>2. HighestProduced(rs) \in Indexes(new)
    BY <1>5, <2>1, HighestIsLast, PrunedFromTheHead
  <2> QED BY <2>2, ListedPairs
<1> QED BY <1>1, <1>2, <1>3, <1>4, <1>5, <1>6, <1>7

-----------------------------------------------------------------------------
(* The invariant, step by step.                                            *)

LEMMA SoundStates ==
  ASSUME IInv
  PROVE /\ Sound(state) /\ Sound(file.runs)
        /\ floor \in Int /\ served \in Int
        /\ start + written \in Nat
        /\ \A n : n \in OwnSegments <=> n \in Nat /\ start <= n /\ n < start + written
  BY PlaylistBounds DEF IInv, TypeOK, ShapeInv, Sound, OwnSegments

\* What the current run lists next is above all that is listed.
LEMMA WriteSegmentStep ==
  ASSUME IInv, WriteSegment
  PROVE IInv'
<1> USE DEF WriteSegment, workerVars
<1>0. /\ Sound(state) /\ Sound(file.runs) /\ cur \in Nat /\ start \in Nat /\ written \in Nat
      /\ start + written \in Nat
  BY SoundStates DEF Sound
<1>1. \A n : n \in OwnSegments' <=> n \in OwnSegments \/ n = start + written
  BY <1>0 DEF OwnSegments
<1>2. /\ \A e \in disk : e \in disk'
      /\ \A n : <<cur, n>> \in disk' <=> <<cur, n>> \in disk \/ n = start + written
  OBVIOUS
<1>3. TypeOK'
  <2>1. written' \in 0 .. MaxSegments
    BY <1>0, PlaylistBounds DEF IInv, TypeOK
  <2>2. disk' \subseteq (0 .. cur) \X Nat
    BY <1>0 DEF IInv, TypeOK
  <2> QED BY <2>1, <2>2 DEF IInv, TypeOK, Runs
<1>4. ShapeInv'
  BY <1>1 DEF IInv, ShapeInv, Ordered
<1>5. TickInv'
  <2>1. \A m \in Indexes(state) : m < start + written
    BY <1>0, RunNumbers
  <2>2. (pc = "prune" /\ ~frozen =>
           \A n \in OwnSegments : <<cur, n>> \in Listed(state) \/ \A m \in Indexes(state) : m < n)'
    BY <1>1, <2>1 DEF IInv, TickInv
  <2> QED BY <2>2 DEF IInv, TickInv
<1>6. PrunedInv'
  <2> SUFFICES ASSUME NEW n \in OwnSegments', <<cur, n>> \notin disk'
               PROVE n + Retention < start + written' /\ n < floor
    BY DEF IInv, PrunedInv
  <2>1. n + Retention < start + written /\ n < floor /\ n \in Int
    BY <1>1, <1>2, SoundStates DEF IInv, PrunedInv
  <2> QED BY <1>0, <2>1, RetentionAssumption
<1>7. DiskInv'
  BY <1>2 DEF IInv, DiskInv
<1>8. HeadInv'
  <2>1. ASSUME NEW rs, Sound(rs), DOMAIN rs # {}
        PROVE \E m \in Indexes(rs) : m <= start + written
    BY <2>1, RunsHaveIndexes, RunNumbers
  <2> QED BY <1>0, <1>1, <1>2, <2>1 DEF IInv, HeadInv
<1>9. GapInv'
  BY DEF IInv, GapInv
<1> QED BY <1>3, <1>4, <1>5, <1>6, <1>7, <1>8, <1>9 DEF IInv

\* The steps that write neither the playlist nor its files.
LEMMA QuietStep ==
  ASSUME IInv, WriteEndlist \/ ReadPlaylist \/ ServeSegment \/ EndTick \/ UNCHANGED vars
  PROVE IInv'
<1>1. /\ UNCHANGED <<cur, start, written, disk, state, frozen, floor, file, skipped>>
      /\ pc' = pc \/ (pc = "restart" /\ pc' = "sleep")
  BY DEF WriteEndlist, ReadPlaylist, ServeSegment, EndTick, vars, workerVars
<1>2. endlist' \in BOOLEAN
  BY DEF WriteEndlist, ReadPlaylist, ServeSegment, EndTick, vars, workerVars, IInv, TypeOK
<1>3. held' \subseteq (0 .. cur) \X Nat
  <2>1. Listed(file.runs) \subseteq (0 .. cur) \X Nat
    BY SoundStates, ListedPairs, RunNumbers DEF Sound, Runs
  <2> QED BY <2>1 DEF WriteEndlist, ReadPlaylist, ServeSegment, EndTick, vars, workerVars, IInv,
                      TypeOK
<1>4. served' \in Nat \cup {-1} /\ floor <= served'
  <2>1. CASE ServeSegment
    <3>1. PICK e \in held \cap disk : e[2] > served /\ served' = e[2]
      BY <2>1 DEF ServeSegment
    <3>2. e[2] \in Nat
      BY <3>1 DEF IInv, TypeOK
    <3> QED BY <3>1, <3>2, SoundStates DEF IInv, PrunedInv
  <2> QED BY <2>1 DEF WriteEndlist, ReadPlaylist, EndTick, vars, workerVars, IInv, TypeOK, PrunedInv
<1>5. TypeOK'
  BY <1>1, <1>2, <1>3, <1>4 DEF IInv, TypeOK, Runs
<1>6. ShapeInv' /\ GapInv'
  BY <1>1 DEF IInv, ShapeInv, GapInv, Ordered, OwnSegments
<1>7. TickInv'
  BY <1>1 DEF IInv, TickInv, OwnSegments
<1>8. PrunedInv' /\ DiskInv' /\ HeadInv'
  BY <1>1, <1>4 DEF IInv, PrunedInv, DiskInv, HeadInv, OwnSegments
<1> QED BY <1>5, <1>6, <1>7, <1>8 DEF IInv

\* What the fold makes of the state: the other runs as they were, and of the
\* current one all its own playlist lists, if that is read.
Folded ==
  \/ /\ state' = state
     /\ PlaylistFrozen \/ written = 0
  \/ /\ ~PlaylistFrozen /\ written # 0
     /\ DOMAIN state' = DOMAIN state \cup {cur}
     /\ \A r \in DOMAIN state \ {cur} : state'[r] = state[r]
     /\ state'[cur] \in RunsType /\ state'[cur].segs = OwnSegments

LEMMA FoldReturns ==
  ASSUME IInv, Fold
  PROVE /\ Folded
        /\ Sound(state')
        /\ \A r \in DOMAIN state \ {cur} : r \in DOMAIN state' /\ state'[r] = state[r]
        /\ \A r \in DOMAIN state' \ {cur} : r \in DOMAIN state
<1>0. /\ Sound(state) /\ cur \in Nat /\ start \in Nat /\ written \in Nat /\ start + written \in Nat
      /\ endlist \in BOOLEAN
  BY SoundStates DEF Sound, IInv, TypeOK
<1>1. Folded
  <2>1. CASE PlaylistFrozen \/ written = 0
    BY <2>1 DEF Fold, Folded
  <2>2. CASE ~(PlaylistFrozen \/ written = 0)
    <3>1. state' = [r \in DOMAIN state \cup {cur} |->
                      IF r = cur THEN [segs |-> OwnSegments, ended |-> endlist] ELSE state[r]]
      BY <2>2 DEF Fold, ApplyRunUpdate, OwnSegments
    <3>2. OwnSegments \subseteq Nat
      BY SoundStates
    <3>3. [segs |-> OwnSegments, ended |-> endlist] \in RunsType
      BY <1>0, <3>2 DEF RunsType
    <3>4. DOMAIN state' = DOMAIN state \cup {cur} /\ \A r \in DOMAIN state \ {cur} : state'[r] = state[r]
      BY <3>1
    <3>5. state'[cur] = [segs |-> OwnSegments, ended |-> endlist]
      BY <3>1
    <3> QED BY <2>2, <3>3, <3>4, <3>5 DEF Folded
  <2> QED BY <2>1, <2>2
<1>2. CASE state' = state
  BY <1>0, <1>1, <1>2
<1>3. CASE /\ DOMAIN state' = DOMAIN state \cup {cur}
           /\ \A r \in DOMAIN state \ {cur} : state'[r] = state[r]
           /\ state'[cur] \in RunsType /\ state'[cur].segs = OwnSegments /\ written # 0
  <2>1. Runs(state')
    <3>1. DOMAIN state' \subseteq 0 .. cur
      BY <1>0, <1>3 DEF Sound, Runs
    <3>2. \A r \in DOMAIN state' : state'[r] \in RunsType
      BY <1>0, <1>3 DEF Sound, Runs
    <3> QED BY <3>1, <3>2 DEF Runs
  <2>2. Ordered(state')
    <3>1. start \in OwnSegments
      BY <1>0, <1>3 DEF OwnSegments
    <3>2. ASSUME NEW r \in DOMAIN state'
          PROVE /\ state'[r].segs # {}
                /\ state'[r].segs \subseteq IF r = cur THEN OwnSegments ELSE 0 .. start - 1
      BY <1>0, <1>3, <3>1 DEF Sound, Ordered
    <3>3. ASSUME NEW r \in DOMAIN state', NEW q \in DOMAIN state', r < q,
                 NEW n \in state'[r].segs, NEW m \in state'[q].segs
          PROVE n < m
      <4>0. r \in DOMAIN state /\ r # cur /\ state'[r] = state[r]
        BY <1>0, <1>3, <2>1, <3>3 DEF Runs
      <4>1. CASE q = cur
        <5>1. n < start /\ n \in Nat
          BY <1>0, <3>3, <4>0, RunNumbers
        <5>2. m >= start /\ m \in Nat
          BY <1>3, <3>3, <4>1, SoundStates
        <5> QED BY <1>0, <5>1, <5>2
      <4>2. CASE q # cur
        BY <1>0, <1>3, <3>3, <4>0, <4>2 DEF Sound, Ordered
      <4> QED BY <4>1, <4>2
    <3> QED BY <3>2, <3>3 DEF Ordered
  <2>3. Sound(state')
    BY <1>0, <2>1, <2>2 DEF Sound
  <2> QED BY <1>1, <1>3, <2>3
<1> QED BY <1>1, <1>2, <1>3 DEF Folded

LEMMA FoldStep ==
  ASSUME IInv, Fold
  PROVE IInv'
<1>0. /\ pc = "sleep" /\ frozen' = PlaylistFrozen
      /\ UNCHANGED <<cur, start, file, written, endlist, disk, served, held, skipped>>
      /\ pc' = IF HighestProduced(state') < 0 THEN "restart" ELSE "prune"
  BY DEF Fold
<1>1. /\ Sound(state) /\ Sound(file.runs) /\ Sound(state') /\ Folded
      /\ cur \in Nat /\ start \in Nat /\ written \in Nat /\ start + written \in Nat
  BY SoundStates, FoldReturns DEF Sound
<1>2. /\ file = RenderServedPlaylist(state) /\ file.runs = state
      /\ file.ended = ServedPlaylistHasEnded(state)
  BY <1>0 DEF IInv, TickInv, RenderServedPlaylist
<1>3. IF pc' = "restart" THEN DOMAIN state' = {} ELSE pc' = "prune" /\ DOMAIN state' # {}
  <2>1. CASE Indexes(state') = {}
    <3>1. HighestProduced(state') = -1
      BY <1>1, <2>1, HighestIsLast
    <3> QED BY <1>0, <1>1, <2>1, <3>1, RunsHaveIndexes
  <2>2. CASE Indexes(state') # {}
    <3>1. HighestProduced(state') \in Nat
      BY <1>1, <2>2, HighestIsLast, RunNumbers
    <3>2. pc' = "prune"
      BY <1>0, <3>1
    <3>3. DOMAIN state' # {}
      BY <1>1, <2>2, RunsHaveIndexes
    <3> QED BY <3>2, <3>3
  <2> QED BY <2>1, <2>2
<1>4. /\ DOMAIN state' = {} => state' = state
      /\ frozen' => state' = state
  BY <1>0, <1>1 DEF Folded
<1>5. floor' \in Nat \cup {-1} /\ floor' >= floor /\ floor' <= served
  BY SoundStates DEF Fold, IInv, TypeOK, PrunedInv
<1>6. TypeOK'
  <2>1. frozen' \in BOOLEAN
    BY <1>0 DEF PlaylistFrozen, ServedPlaylistHasEnded
  <2>2. Runs(state)'
    BY <1>0, <1>1 DEF Sound, Runs
  <2> QED BY <1>0, <1>3, <1>5, <2>1, <2>2 DEF IInv, TypeOK, Runs
<1>7. ShapeInv'
  BY <1>0, <1>1 DEF IInv, ShapeInv, Sound, Ordered, OwnSegments
<1>8. TickInv'
  <2>1. (pc \in {"sleep", "restart"} \/ frozen => file = RenderServedPlaylist(state))'
    BY <1>0, <1>2, <1>3, <1>4 DEF RenderServedPlaylist
  <2>2. frozen' = (file.ended /\ LastRun(file.runs) = cur)
    BY <1>0, <1>2 DEF PlaylistFrozen
  <2>3. \A r \in DOMAIN state' \ {cur} : r \in DOMAIN state /\ state'[r].segs \subseteq state[r].segs
    BY FoldReturns
  <2>4. \A r \in DOMAIN state \ {cur} : r \in DOMAIN state' /\ state'[r] = state[r]
    BY FoldReturns
  <2>5. ASSUME ~frozen', NEW n \in OwnSegments PROVE <<cur, n>> \in Listed(state')
    <3>1. written # 0
      BY <1>1 DEF OwnSegments
    <3>2. cur \in DOMAIN state' /\ state'[cur].segs = OwnSegments
      BY <1>0, <1>1, <2>5, <3>1 DEF Folded
    <3> QED BY <2>5, <3>2, ListedPairs
  <2> QED BY <1>0, <1>2, <1>3, <2>1, <2>2, <2>3, <2>4, <2>5 DEF TickInv, OwnSegments
<1>9. PrunedInv'
  <2> SUFFICES ASSUME NEW n \in OwnSegments, <<cur, n>> \notin disk
               PROVE n + Retention < start + written /\ n < floor'
    BY <1>0, <1>5 DEF PrunedInv, OwnSegments
  <2> QED BY <1>5, SoundStates DEF IInv, PrunedInv
<1>10. DiskInv'
  <2>1. \A e \in Listed(state) : e \in disk
    BY <1>0 DEF IInv, DiskInv
  <2>2. ASSUME NEW e \in Listed(state'), e \notin disk
        PROVE pc' = "prune" /\ e[1] = cur /\ e[2] \in Prunable(state', floor')
    <3>1. e = <<e[1], e[2]>> /\ e[1] \in DOMAIN state' /\ e[2] \in state'[e[1]].segs
      BY <2>2, ListedPairs
    <3>2. e[1] = cur /\ state' # state
      <4>1. <<e[1], e[2]>> \notin Listed(state)
        BY <2>1, <2>2, <3>1
      <4>2. ~(e[1] \in DOMAIN state /\ e[2] \in state[e[1]].segs)
        BY <4>1, ListedPairs
      <4> QED BY <3>1, <4>2, FoldReturns
    <3>3. state'[cur].segs = OwnSegments /\ cur \in DOMAIN state'
      BY <1>1, <3>2 DEF Folded
    <3>4. e[2] \in OwnSegments /\ <<cur, e[2]>> \notin disk
      BY <2>2, <3>1, <3>2, <3>3
    <3>5. e[2] + Retention < start + written /\ e[2] < floor' /\ floor' \in Int
      BY <1>5, <3>4, SoundStates DEF IInv, PrunedInv
    <3>6. OwnSegments \subseteq Indexes(state')
      BY <3>3, ListedPairs
    <3>7. e[2] \in Prunable(state', floor')
      BY <1>1, <3>4, <3>5, <3>6, DueForPruning
    <3> QED BY <1>3, <3>1, <3>2, <3>7
  <2>3. \A e \in Listed(file.runs) : e \in disk
    BY <1>2, <2>1
  <2> QED BY <1>0, <2>2, <2>3 DEF DiskInv
<1>11. HeadInv'
  BY <1>0, <1>3 DEF IInv, HeadInv, OwnSegments
<1>12. GapInv'
  <2> SUFFICES ASSUME ~skipped
               PROVE /\ Contiguous(state')
                     /\ cur > 0 /\ cur \notin DOMAIN state' =>
                          cur - 1 \in DOMAIN state' /\ start - 1 \in state'[cur - 1].segs
    BY <1>0 DEF IInv, GapInv, Contiguous
  <2>0. /\ Contiguous(state)
        /\ cur > 0 /\ cur \notin DOMAIN state =>
             cur - 1 \in DOMAIN state /\ start - 1 \in state[cur - 1].segs
    BY DEF IInv, GapInv
  <2>1. CASE state' = state
    BY <2>0, <2>1
  <2>2. CASE state' # state
    <3>0. /\ DOMAIN state' = DOMAIN state \cup {cur}
          /\ state'[cur].segs = OwnSegments
          /\ \A r \in DOMAIN state \ {cur} : state'[r] = state[r]
      BY <1>1, <2>2 DEF Folded
    <3>1. ASSUME NEW r \in DOMAIN state', NEW q \in DOMAIN state', NEW p \in r .. q
          PROVE p \in DOMAIN state'
      <4>1. r \in Nat /\ q \in Nat /\ r <= cur /\ q <= cur /\ p \in Int
        BY <1>1, <3>1, RunNumbers
      <4>2. CASE r \in DOMAIN state /\ q \in DOMAIN state
        BY <2>0, <3>0, <3>1, <4>2 DEF Contiguous
      <4>3. CASE r = cur \/ p = cur
        BY <3>0, <3>1, <4>1, <4>3
      <4>4. CASE r \in DOMAIN state /\ r # cur /\ q = cur /\ cur \notin DOMAIN state /\ p # cur
        <5>1. cur > 0 /\ p \in r .. cur - 1
          BY <1>1, <3>1, <4>1, <4>4
        <5> QED BY <2>0, <3>0, <4>4, <5>1 DEF Contiguous
      <4> QED BY <3>0, <4>2, <4>3, <4>4
    <3>2. ASSUME NEW n \in Indexes(state), n < start
          PROVE n .. start - 1 \subseteq Indexes(state)
      <4>1. \E m \in Indexes(state) : m >= start - 1
        <5>1. CASE cur \in DOMAIN state
          <6>1. PICK m : m \in state[cur].segs
            BY <1>1, <5>1 DEF Sound, Ordered
          <6>2. m >= start /\ m \in Nat
            BY <1>1, <5>1, <6>1, RunNumbers
          <6>3. m \in Indexes(state)
            BY <5>1, <6>1, ListedPairs
          <6> QED BY <1>1, <6>2, <6>3
        <5>2. CASE cur \notin DOMAIN state
          <6>1. PICK r \in DOMAIN state : n \in state[r].segs
            BY ListedPairs
          <6>2. cur > 0
            BY <1>1, <5>2, <6>1, RunNumbers
          <6> QED BY <1>1, <2>0, <5>2, <6>2, ListedPairs
        <5> QED BY <5>1, <5>2
      <4>2. PICK m \in Indexes(state) : m >= start - 1
        BY <4>1
      <4>3. n .. m \subseteq Indexes(state) /\ m \in Nat /\ n \in Nat
        BY <1>1, <2>0, RunNumbers DEF Contiguous
      <4> QED BY <1>1, <4>2, <4>3
    <3>3. ASSUME NEW n PROVE n \in Indexes(state') <=> n \in OwnSegments \/ (n \in Indexes(state) /\ n < start)
      <4>1. \A r \in DOMAIN state : \A m \in state[r].segs :
              m \in OwnSegments \/ (m < start /\ r # cur)
        BY <1>1 DEF Sound, Ordered, OwnSegments
      <4>2. \A r \in DOMAIN state : \A m \in state[r].segs : m < start => r # cur
        BY <1>1, RunNumbers
      <4> QED BY <3>0, <4>1, <4>2, ListedPairs
    <3>4. ASSUME NEW a \in Indexes(state'), NEW b \in Indexes(state'), NEW c \in a .. b
          PROVE c \in Indexes(state')
      <4>1. a \in Nat /\ b \in Nat /\ b < start + written /\ c \in Nat
        BY <1>1, <3>4, RunNumbers
      <4>2. CASE c >= start
        BY <3>3, <3>4, <4>1, <4>2, SoundStates
      <4>3. CASE c < start
        <5>1. a \in Indexes(state) /\ a < start /\ c \in a .. start - 1
          BY <1>1, <3>3, <3>4, <4>1, <4>3, SoundStates
        <5> QED BY <3>2, <3>3, <4>3, <5>1
      <4> QED BY <1>1, <4>1, <4>2, <4>3
    <3>5. Contiguous(state')
      BY <3>1, <3>4 DEF Contiguous
    <3> QED BY <3>0, <3>5
  <2> QED BY <2>1, <2>2
<1> QED BY <1>6, <1>7, <1>8, <1>9, <1>10, <1>11, <1>12 DEF IInv

\* The prune takes back off the list what the fold brought back, and nothing the
\* viewer has yet to reach; the head it leaves is never below the head it found.
LEMMA PruneStep ==
  ASSUME IInv, Prune
  PROVE IInv'
<1>0. /\ pc = "prune" /\ pc' = "write"
      /\ UNCHANGED <<cur, start, frozen, floor, file, written, endlist, served, held, skipped>>
  BY DEF Prune
<1>1. /\ Sound(state) /\ Sound(file.runs) /\ DOMAIN state # {}
      /\ cur \in Nat /\ start \in Nat /\ written \in Nat /\ start + written \in Nat
      /\ floor \in Int
  BY <1>0, SoundStates DEF Sound, IInv, TickInv
<1>2. CASE frozen
  <2>1. state' = state /\ disk' = disk
    BY <1>2 DEF Prune
  <2>2. file.runs = state
    BY <1>2 DEF IInv, TickInv, RenderServedPlaylist
  <2>3. TypeOK' /\ ShapeInv' /\ PrunedInv' /\ GapInv'
    BY <1>0, <2>1 DEF IInv, TypeOK, Runs, ShapeInv, Ordered, OwnSegments, PrunedInv, GapInv
  <2>4. TickInv'
    BY <1>0, <1>2, <2>1 DEF IInv, TickInv, RenderServedPlaylist
  <2>5. DiskInv'
    BY <1>0, <2>1, <2>2 DEF IInv, DiskInv
  <2>6. HeadInv'
    <3>1. \A n \in Indexes(state) : n <= n
      BY <1>1, RunNumbers
    <3> QED BY <1>0, <2>1, <2>2, <3>1 DEF IInv, HeadInv, OwnSegments
  <2> QED BY <2>3, <2>4, <2>5, <2>6 DEF IInv
<1>3. CASE ~frozen
  <2> DEFINE gone == Prunable(state, floor)
  <2>1. state' = PruneRetention(state, cur, floor)
    BY <1>3 DEF Prune
  <2>2. /\ DOMAIN state' = DOMAIN state \ DeletedRuns(state, cur, floor)
        /\ \A r \in DOMAIN state' : /\ state'[r] \in RunsType
                                    /\ state'[r].segs = state[r].segs \ gone
                                    /\ state'[r].segs # {}
        /\ \A r \in DOMAIN state \ DOMAIN state' : r # cur /\ state[r].segs \subseteq gone
        /\ \A n : n \in Indexes(state') <=> n \in Indexes(state) /\ n \notin gone
        /\ Sound(state')
        /\ DOMAIN state' # {}
    <3>1. gone = Prunable(state, floor)
      OBVIOUS
    <3> HIDE DEF gone
    <3>2. Sound(state) /\ floor \in Int /\ DOMAIN state # {}
      BY <1>1
    <3>3. /\ DOMAIN state' = DOMAIN state \ DeletedRuns(state, cur, floor)
          /\ \A r \in DOMAIN state' : /\ state'[r] \in RunsType
                                      /\ state'[r].segs = state[r].segs \ gone
                                      /\ state'[r].segs # {}
          /\ \A r \in DOMAIN state \ DOMAIN state' : r # cur /\ state[r].segs \subseteq gone
          /\ \A n : n \in Indexes(state') <=> n \in Indexes(state) /\ n \notin gone
          /\ Runs(state') /\ Ordered(state')
          /\ DOMAIN state' # {}
      BY ONLY <2>1, <3>1, <3>2, PruneReturns
    <3> QED BY <1>1, <3>3 DEF Sound
  <2>3. ASSUME NEW r, NEW n
        PROVE <<r, n>> \in disk' <=>
                /\ <<r, n>> \in disk
                /\ <<r, n>> \notin Listed(state) \/ n \notin gone
                /\ r \notin DeletedRuns(state, cur, floor)
    <3>1. disk' = {e \in disk : /\ e \notin Listed(state) \/ e[2] \notin gone
                                /\ e[1] \notin DeletedRuns(state, cur, floor)}
      BY <1>3 DEF Prune
    <3> QED BY <3>1
  <2>4. disk' \subseteq disk /\ \A e \in disk : e = <<e[1], e[2]>>
    BY <1>3 DEF Prune, IInv, TypeOK
  <2>5. \A n \in gone : n < floor /\ n \in Nat
    BY <1>1, RunNumbers DEF Prunable
  <2>6. cur \notin DeletedRuns(state, cur, floor)
    BY DEF DeletedRuns
  <2> HIDE DEF gone
  <2>7. TypeOK'
    <3>1. Runs(state)'
      BY <1>0, <2>2 DEF Sound, Runs
    <3> QED BY <1>0, <2>4, <3>1 DEF IInv, TypeOK, Runs
  <2>8. ShapeInv'
    BY <1>0, <1>1, <2>2 DEF IInv, ShapeInv, Sound, Ordered, OwnSegments
  <2>9. TickInv'
    <3>1. ASSUME NEW r \in DOMAIN state' \ {cur}
          PROVE r \in DOMAIN file.runs /\ state'[r].segs \subseteq file.runs[r].segs
      BY <1>0, <2>2 DEF IInv, TickInv
    <3> QED BY <1>0, <1>3, <2>2, <3>1 DEF IInv, TickInv
  <2>10. PrunedInv'
    <3> SUFFICES ASSUME NEW n \in OwnSegments, <<cur, n>> \notin disk'
                 PROVE n + Retention < start + written /\ n < floor
      BY <1>0 DEF IInv, PrunedInv, OwnSegments
    <3>1. CASE <<cur, n>> \in disk
      <4>1. n \in gone
        BY <2>3, <2>6, <3>1
      <4> QED BY <1>1, <4>1, DueForPruning DEF gone
    <3>2. CASE <<cur, n>> \notin disk
      BY <3>2 DEF IInv, PrunedInv
    <3> QED BY <3>1, <3>2
  <2>11. DiskInv'
    <3>1. ASSUME NEW e \in Listed(file.runs) PROVE e \in disk' \/ e[2] < floor
      <4>1. e \in disk /\ e = <<e[1], e[2]>> /\ e[1] \in DOMAIN file.runs
             /\ e[2] \in file.runs[e[1]].segs
        BY <1>0, <3>1, ListedPairs DEF IInv, DiskInv
      <4>2. CASE e[1] \in DeletedRuns(state, cur, floor)
        <5>1. e[1] # cur /\ state[e[1]] = file.runs[e[1]] /\ e[1] \in DOMAIN state \ DOMAIN state'
          BY <1>0, <2>2, <2>6, <4>1, <4>2 DEF IInv, TickInv, DeletedRuns
        <5>2. e[2] \in gone
          BY <2>2, <4>1, <5>1
        <5> QED BY <2>5, <5>2
      <4>3. CASE e[1] \notin DeletedRuns(state, cur, floor)
        BY <2>3, <2>5, <4>1, <4>3
      <4> QED BY <4>2, <4>3
    <3>2. ASSUME NEW e \in Listed(state') PROVE e \in disk'
      <4>1. e = <<e[1], e[2]>> /\ e[1] \in DOMAIN state' /\ e[2] \in state'[e[1]].segs
        BY <3>2, ListedPairs
      <4>2. e \in Listed(state) /\ e[2] \notin gone /\ e[1] \notin DeletedRuns(state, cur, floor)
        BY <2>2, <4>1, ListedPairs
      <4>3. e \in disk
        BY <4>2 DEF IInv, DiskInv, gone
      <4> QED BY <2>3, <4>1, <4>2, <4>3
    <3> QED BY <1>0, <3>1, <3>2 DEF DiskInv
  <2>12. HeadInv'
    <3>1. ASSUME NEW n \in OwnSegments, <<cur, n>> \in disk'
          PROVE \E m \in Indexes(state') : m <= n
      <4>0. n \in Nat
        BY SoundStates
      <4>1. CASE <<cur, n>> \in Listed(state)
        <5>1. n \in Indexes(state) /\ n \notin gone
          BY <2>3, <3>1, <4>1, ListedPairs
        <5> QED BY <2>2, <4>0, <5>1
      <4>2. CASE \A m \in Indexes(state) : m < n
        <5>1. PICK m : m \in Indexes(state')
          BY <2>2, RunsHaveIndexes
        <5>2. m < n /\ m \in Nat
          BY <1>1, <2>2, <4>2, <5>1, RunNumbers
        <5> QED BY <4>0, <5>1, <5>2
      <4> QED BY <1>0, <1>3, <3>1, <4>1, <4>2 DEF IInv, TickInv
    <3>2. ASSUME DOMAIN file.runs # {}, NEW n \in Indexes(state')
          PROVE \E m \in Indexes(file.runs) : m <= n
      <4>1. PICK r \in DOMAIN state' : n \in state'[r].segs
        BY <3>2, ListedPairs
      <4>2. n \in Nat /\ n \in state[r].segs /\ r \in DOMAIN state /\ n \notin gone
        BY <1>1, <2>2, <4>1, RunNumbers
      <4>3. CASE r # cur
        <5>1. r \in DOMAIN file.runs /\ n \in file.runs[r].segs
          BY <1>0, <4>2, <4>3 DEF IInv, TickInv
        <5>2. n \in Indexes(file.runs) /\ n <= n
          BY <4>2, <5>1, ListedPairs
        <5> QED BY <5>2
      <4>4. CASE r = cur
        <5>1. <<cur, n>> \in Listed(state) /\ n \in OwnSegments
          BY <1>1, <4>2, <4>4, ListedPairs DEF Sound, Ordered
        <5>2. <<cur, n>> \in disk
          BY <4>2, <5>1 DEF IInv, DiskInv, gone
        <5> QED BY <1>0, <3>2, <5>1, <5>2 DEF IInv, HeadInv
      <4> QED BY <4>3, <4>4
    <3> QED BY <1>0, <3>1, <3>2 DEF HeadInv, OwnSegments
  <2>13. GapInv'
    <3> SUFFICES ASSUME ~skipped
                 PROVE /\ Contiguous(state')
                       /\ cur > 0 /\ cur \notin DOMAIN state' =>
                            cur - 1 \in DOMAIN state' /\ start - 1 \in state'[cur - 1].segs
      BY <1>0 DEF IInv, GapInv, Contiguous
    <3>0. /\ Contiguous(state)
          /\ cur > 0 /\ cur \notin DOMAIN state =>
               cur - 1 \in DOMAIN state /\ start - 1 \in state[cur - 1].segs
      BY DEF IInv, GapInv
    <3>1. \A n, m \in Indexes(state) : n <= m /\ m \in gone => n \in gone
      BY <1>1, PrunedFromTheHead DEF gone
    <3>2. ASSUME NEW a \in Indexes(state'), NEW b \in Indexes(state'), NEW c \in a .. b
          PROVE c \in Indexes(state')
      <4>1. a \in Nat /\ b \in Nat /\ a <= c
        BY <2>2, <3>2, RunNumbers
      <4>2. c \in Indexes(state)
        BY <2>2, <3>0, <3>2 DEF Contiguous
      <4> QED BY <2>2, <3>1, <3>2, <4>1, <4>2
    <3>3. ASSUME NEW r \in DOMAIN state', NEW q \in DOMAIN state', NEW p \in r .. q
          PROVE p \in DOMAIN state'
      <4> SUFFICES ASSUME p \notin DOMAIN state' PROVE FALSE
        OBVIOUS
      <4>1. p \in DOMAIN state /\ r \in DOMAIN state /\ r \in Nat /\ q \in Nat
        BY <1>1, <2>2, <3>0, <3>3, RunNumbers DEF Contiguous
      <4>2. r < p
        BY <3>3, <4>1
      <4>3. PICK n : n \in state'[r].segs
        BY <2>2, <3>3
      <4>4. PICK m : m \in state[p].segs
        BY <1>1, <4>1 DEF Sound, Ordered
      <4>5. m \in gone /\ n \notin gone /\ n \in state[r].segs
        BY <2>2, <3>3, <4>1, <4>3, <4>4
      <4>6. n < m /\ n \in Nat /\ m \in Nat
        BY <1>1, <4>1, <4>2, <4>4, <4>5, RunNumbers DEF Sound, Ordered
      <4>7. n \in Indexes(state) /\ m \in Indexes(state)
        BY <4>1, <4>4, <4>5, ListedPairs
      <4> QED BY <3>1, <4>5, <4>6, <4>7
    <3>4. ASSUME cur > 0, cur \notin DOMAIN state'
          PROVE cur - 1 \in DOMAIN state' /\ start - 1 \in state'[cur - 1].segs
      <4>1. cur \notin DOMAIN state
        BY <2>2, <3>4
      <4>2. cur - 1 \in DOMAIN state /\ start - 1 \in state[cur - 1].segs
        BY <3>0, <3>4, <4>1
      <4>3. start - 1 \notin gone
        <5>1. start - 1 \in Indexes(state)
          BY <4>2, ListedPairs
        <5>2. HighestProduced(state) \in Indexes(state) /\ start - 1 <= HighestProduced(state)
          BY <1>1, <5>1, HighestIsLast
        <5>3. HighestProduced(state) < start /\ HighestProduced(state) \in Nat
          BY <1>1, <4>1, <5>2, ListedPairs, RunNumbers
        <5>4. HighestProduced(state) = start - 1
          BY <1>1, <5>2, <5>3
        <5> QED BY <1>1, <5>1, <5>4, PrunedFromTheHead DEF gone
      <4> QED BY <2>2, <4>2, <4>3
    <3>5. Contiguous(state')
      BY <3>2, <3>3 DEF Contiguous
    <3> QED BY <3>4, <3>5
  <2> QED BY <2>7, <2>8, <2>9, <2>10, <2>11, <2>12, <2>13 DEF IInv
<1> QED BY <1>2, <1>3

\* The rewrite lists what the prune left; a frozen tick's file lists it already.
LEMMA WriteStep ==
  ASSUME IInv, Write
  PROVE IInv'
<1>0. /\ pc = "write" /\ pc' = "restart"
      /\ UNCHANGED <<cur, start, state, frozen, floor, written, endlist, disk, served, held, skipped>>
  BY DEF Write
<1>1. file' = RenderServedPlaylist(state)
  BY <1>0 DEF Write, IInv, TickInv
<1>2. file'.runs = state /\ file'.ended = ServedPlaylistHasEnded(state)
  BY <1>1 DEF RenderServedPlaylist
<1>3. TypeOK'
  <2>1. file'.ended \in BOOLEAN
    BY <1>2, Zenon DEF ServedPlaylistHasEnded
  <2>2. file' = [runs |-> file'.runs, ended |-> file'.ended]
    BY <1>1 DEF RenderServedPlaylist
  <2>3. Runs(state)' /\ Runs(file.runs)'
    BY <1>0, <1>2 DEF IInv, TypeOK, Runs
  <2> QED BY <1>0, <2>1, <2>2, <2>3 DEF IInv, TypeOK
<1>4. ShapeInv'
  BY <1>0, <1>2 DEF IInv, ShapeInv, Ordered, OwnSegments
<1>5. TickInv'
  BY <1>0, <1>1 DEF TickInv, RenderServedPlaylist, ServedPlaylistHasEnded, LastRun
<1>6. PrunedInv'
  BY <1>0 DEF IInv, PrunedInv, OwnSegments
<1>7. DiskInv'
  BY <1>0, <1>2 DEF IInv, DiskInv
<1>8. HeadInv'
  BY <1>0, <1>2 DEF IInv, HeadInv, OwnSegments
<1>9. GapInv'
  BY <1>0, <1>2 DEF IInv, GapInv, Contiguous
<1> QED BY <1>3, <1>4, <1>5, <1>6, <1>7, <1>8, <1>9 DEF IInv

\* A new run starts above everything listed and above the run it replaces.
LEMMA StartsAbove ==
  ASSUME IInv
  PROVE /\ StartSegment \in Nat /\ StartSegment > start
        /\ \A n \in Indexes(state) : n < StartSegment
        /\ cur \in DOMAIN state => StartSegment - 1 \in state[cur].segs
<1>0. Sound(state) /\ start \in Nat
  BY SoundStates DEF Sound
<1> DEFINE high == HighestProduced(state)
<1>1. /\ high \in Nat \cup {-1}
      /\ \A n \in Indexes(state) : n \in Nat /\ n <= high
      /\ Indexes(state) # {} => high \in Indexes(state)
  BY <1>0, HighestIsLast, RunNumbers
<1> HIDE DEF high
<1>2. /\ StartSegment \in {high + 1, start + 1}
      /\ \A y \in {high + 1, start + 1} : y <= StartSegment
  <2> DEFINE S == {high + 1, start + 1}
  <2>1. S # {} /\ S \subseteq 0 .. (high + start + 2) /\ high + start + 2 \in Nat
    BY <1>0, <1>1
  <2>2. StartSegment = Max(S)
    BY DEF StartSegment, high
  <2> HIDE DEF S
  <2>3. Max(S) \in S /\ \A y \in S : y <= Max(S)
    BY ONLY <2>1, MaxIsGreatest
  <2> QED BY <2>2, <2>3 DEF S
<1>3. /\ StartSegment \in Nat /\ StartSegment > start /\ StartSegment > high
      /\ high > start => StartSegment = high + 1
      /\ high = start => StartSegment = high + 1
  BY <1>0, <1>1, <1>2
<1>4. ASSUME cur \in DOMAIN state PROVE StartSegment - 1 \in state[cur].segs
  <2>1. PICK n : n \in state[cur].segs
    BY <1>0, <1>4 DEF Sound, Ordered
  <2>2. n >= start /\ n \in Indexes(state)
    BY <1>0, <1>4, <2>1, ListedPairs, RunNumbers
  <2>3. high >= start /\ high \in Indexes(state)
    BY <1>0, <1>1, <2>2
  <2>4. PICK q \in DOMAIN state : high \in state[q].segs
    BY <2>3, ListedPairs
  <2>5. q = cur
    BY <1>0, <1>1, <2>3, <2>4, RunNumbers
  <2>6. StartSegment - 1 = high
    BY <1>0, <1>1, <1>3, <2>3
  <2> QED BY <2>4, <2>5, <2>6
<1> QED BY <1>1, <1>3, <1>4

\* Nothing is listed of the new run, and all that is lies below its start.
LEMMA RestartStep ==
  ASSUME IInv, Restart
  PROVE IInv'
<1>0. /\ pc = "restart" /\ pc' = "sleep" /\ cur' = cur + 1 /\ start' = StartSegment
      /\ written' = 0 /\ endlist' = FALSE /\ cur < MaxRuns
      /\ skipped' = (skipped \/ cur \notin DOMAIN state)
      /\ UNCHANGED <<state, frozen, floor, file, disk, served, held>>
  BY DEF Restart
<1>1. /\ Sound(state) /\ cur \in Nat /\ cur' \in Nat /\ file.runs = state
      /\ file = RenderServedPlaylist(state)
  BY <1>0, SoundStates DEF Sound, IInv, TickInv, RenderServedPlaylist
<1>2. /\ start' \in Nat
      /\ \A n \in Indexes(state) : n < start'
      /\ cur \in DOMAIN state => start' - 1 \in state[cur].segs
  BY <1>0, StartsAbove
<1>3. OwnSegments' = {}
  BY <1>0, <1>2 DEF OwnSegments
<1>4. \A r \in DOMAIN state : r \in Nat /\ r <= cur /\ r # cur'
  BY <1>0, <1>1, RunNumbers
<1>5. TypeOK'
  <2>1. Runs(state)'
    BY <1>0, <1>1, <1>4 DEF Sound, Runs
  <2>2. cur' \in 0 .. MaxRuns /\ written' \in 0 .. MaxSegments
    BY <1>0, <1>1, PlaylistBounds
  <2>3. 0 .. cur \subseteq 0 .. cur'
    BY <1>0, <1>1
  <2>4. disk' \subseteq (0 .. cur') \X Nat /\ held' \subseteq (0 .. cur') \X Nat
    BY <1>0, <2>3 DEF IInv, TypeOK
  <2>5. {endlist', frozen', skipped'} \subseteq BOOLEAN
    BY <1>0, Zenon DEF IInv, TypeOK
  <2> QED BY <1>0, <1>1, <1>2, <2>1, <2>2, <2>4, <2>5 DEF IInv, TypeOK
<1>6. ShapeInv'
  <2>1. \A r \in DOMAIN state : state[r].segs # {} /\ state[r].segs \subseteq 0 .. start' - 1
    <3> SUFFICES ASSUME NEW r \in DOMAIN state
                 PROVE state[r].segs # {} /\ state[r].segs \subseteq 0 .. start' - 1
      OBVIOUS
    <3>1. \A n \in state[r].segs : n \in Nat /\ n < start'
      BY <1>1, <1>2, ListedPairs, RunNumbers
    <3> QED BY <1>1, <1>2, <3>1 DEF Sound, Ordered
  <2>2. Ordered(state)'
    BY <1>0, <1>1, <1>4, <2>1 DEF Sound, Ordered
  <2> QED BY <1>0, <1>1, <2>2 DEF ShapeInv
<1>7. TickInv'
  BY <1>0, <1>1 DEF TickInv, RenderServedPlaylist, ServedPlaylistHasEnded, LastRun
<1>8. PrunedInv'
  BY <1>0, <1>3 DEF IInv, PrunedInv
<1>9. DiskInv'
  BY <1>0 DEF IInv, DiskInv
<1>10. HeadInv'
  BY <1>0, <1>3 DEF HeadInv
<1>11. GapInv'
  <2> SUFFICES ASSUME ~skipped'
               PROVE /\ Contiguous(state)
                     /\ cur' - 1 \in DOMAIN state /\ start' - 1 \in state[cur' - 1].segs
    BY <1>0, <1>1 DEF GapInv, Contiguous
  <2>1. ~skipped /\ cur \in DOMAIN state
    BY <1>0, Zenon
  <2>2. cur' - 1 = cur
    BY <1>0, <1>1
  <2> QED BY <1>2, <2>1, <2>2 DEF IInv, GapInv
<1> QED BY <1>5, <1>6, <1>7, <1>8, <1>9, <1>10, <1>11 DEF IInv

LEMMA InitStep ==
  ASSUME Init
  PROVE IInv
<1> USE DEF Init
<1>1. /\ DOMAIN state = {} /\ file.runs = state /\ file = RenderServedPlaylist(state)
      /\ file.ended = ServedPlaylistHasEnded(state)
  BY DEF NoRuns, RenderServedPlaylist
<1>2. Indexes(state) = {} /\ Listed(state) = {}
  BY <1>1 DEF Indexes, Listed
<1>3. OwnSegments = {}
  BY DEF OwnSegments
<1>4. TypeOK
  <2>1. file.ended \in BOOLEAN
    BY <1>1, Zenon DEF ServedPlaylistHasEnded
  <2>2. file = [runs |-> file.runs, ended |-> file.ended]
    BY <1>1 DEF RenderServedPlaylist
  <2>3. Runs(state) /\ Runs(file.runs)
    BY <1>1 DEF Runs
  <2>4. {endlist, frozen, skipped} \subseteq BOOLEAN
    OBVIOUS
  <2>5. /\ cur \in 0 .. MaxRuns /\ start \in Nat /\ written \in 0 .. MaxSegments
        /\ disk = {} /\ held = {} /\ {floor, served} \subseteq Nat \cup {-1}
    BY PlaylistBounds
  <2> QED BY <2>1, <2>2, <2>3, <2>4, <2>5 DEF TypeOK
<1>5. ShapeInv /\ TickInv
  BY <1>1 DEF ShapeInv, Ordered, TickInv
<1>6. PrunedInv /\ DiskInv /\ HeadInv
  BY <1>1, <1>2, <1>3 DEF PrunedInv, DiskInv, HeadInv
<1>7. GapInv
  BY <1>1, <1>2 DEF GapInv, Contiguous
<1> QED BY <1>4, <1>5, <1>6, <1>7 DEF IInv

\* The playlist and the disk are what the tick's place says they are.
THEOREM PlaylistInvariance == Spec => []IInv
<1>1. Init => IInv
  BY InitStep
<1>2. IInv /\ [Next]_vars => IInv'
  BY WriteSegmentStep, QuietStep, FoldStep, PruneStep, WriteStep, RestartStep DEF Next
<1> QED BY <1>1, <1>2, PTL DEF Spec

-----------------------------------------------------------------------------
(* The theorems.                                                           *)

\* Between ticks everything media.m3u8 lists is on disk: the worker's fold, prune
\* and freeze never bring back a pruned segment.
THEOREM ListedOnDiskTheorem == Spec => []ListedOnDisk
<1>1. IInv => ListedOnDisk
  BY DEF IInv, DiskInv, ListedOnDisk
<1> QED BY <1>1, PlaylistInvariance, PTL

\* Between a tick's unlinks and its rewrite too, what is listed at or past the
\* viewer is on disk.
THEOREM UnreachedOnDiskTheorem == Spec => []UnreachedOnDisk
<1>1. ASSUME IInv PROVE UnreachedOnDisk
  <2> SUFFICES ASSUME NEW e \in Listed(file.runs), e[2] >= served PROVE e \in disk
    BY DEF UnreachedOnDisk
  <2>1. e[2] \in Nat /\ floor \in Int /\ served \in Int /\ floor <= served
    BY <1>1, SoundStates, ListedPairs, RunNumbers DEF IInv, PrunedInv
  <2>2. e \in disk \/ e[2] < floor
    BY <1>1 DEF IInv, DiskInv
  <2> QED BY <2>1, <2>2
<1> QED BY <1>1, PlaylistInvariance, PTL

\* A playlist is rewritten only by the tick's last step, and one that is frozen, not
\* even there.
LEMMA FileMoves ==
  ASSUME IInv, [Next]_vars
  PROVE \/ file' = file
        \/ /\ pc = "write" /\ ~frozen /\ file'.runs = state
           /\ UNCHANGED <<cur, start, written, state, skipped>>
<1>1. CASE Write
  <2>1. CASE frozen
    BY <1>1, <2>1 DEF Write
  <2>2. CASE ~frozen
    <3>1. file' = RenderServedPlaylist(state) /\ pc = "write"
      BY <1>1, <2>2 DEF Write
    <3>2. UNCHANGED <<cur, start, written, state, skipped>>
      BY <1>1 DEF Write
    <3> QED BY <2>2, <3>1, <3>2 DEF RenderServedPlaylist
  <2> QED BY <2>1, <2>2
<1>2. CASE ~Write
  BY <1>2 DEF Next, vars, workerVars, WriteSegment, WriteEndlist, ReadPlaylist, ServeSegment,
              Fold, Prune, EndTick, Restart
<1> QED BY <1>1, <1>2

\* EXT-X-MEDIA-SEQUENCE, the first segment listed, never decreases.
THEOREM MediaSequenceForwardTheorem == Spec => MediaSequenceForward
<1>1. ASSUME IInv, [Next]_vars, DOMAIN file.runs # {}, DOMAIN file'.runs # {}
      PROVE FirstIndex(file') >= FirstIndex(file)
  <2>1. Sound(state) /\ Sound(file.runs)
    BY <1>1, SoundStates
  <2>2. /\ Indexes(file.runs) \subseteq Nat /\ Indexes(state) \subseteq Nat
        /\ Indexes(file.runs) # {}
    BY <1>1, <2>1, RunsHaveIndexes, RunNumbers
  <2>3. FirstIndex(file) \in Nat /\ \A m \in Indexes(file.runs) : FirstIndex(file) <= m
    BY <2>2, MinIsLeast DEF FirstIndex
  <2>4. CASE file' = file
    BY <2>3, <2>4
  <2>5. CASE pc = "write" /\ file'.runs = state
    <3>1. Indexes(state) # {}
      BY <1>1, <2>1, <2>5, RunsHaveIndexes
    <3>2. FirstIndex(file') \in Indexes(state) /\ FirstIndex(file') \in Nat
      BY <2>2, <2>5, <3>1, MinIsLeast DEF FirstIndex
    <3>3. PICK m \in Indexes(file.runs) : m <= FirstIndex(file')
      BY <1>1, <2>5, <3>2 DEF IInv, HeadInv
    <3> QED BY <2>2, <2>3, <3>2, <3>3
  <2> QED BY <1>1, <2>4, <2>5, FileMoves
<1>2. IInv /\ [Next]_vars =>
        [DOMAIN file.runs # {} /\ DOMAIN file'.runs # {} => FirstIndex(file') >= FirstIndex(file)]_vars
  BY <1>1
<1> QED BY <1>2, PlaylistInvariance, PTL DEF Spec, MediaSequenceForward

\* While the run that ended is the current one, its playlist stands and no segment
\* file goes: playlistFrozen is decided before the fold, from what was rendered.
THEOREM EndedUnchangedTheorem == Spec => EndedUnchanged
<1>1. ASSUME IInv, [Next]_vars, file.ended /\ LastRun(file.runs) = cur
      PROVE file' = file /\ disk \subseteq disk'
  <2>1. CASE Prune \/ Write
    <3>1. frozen
      BY <1>1, <2>1 DEF Prune, Write, IInv, TickInv
    <3> QED BY <2>1, <3>1 DEF Prune, Write
  <2>2. CASE ~(Prune \/ Write)
    BY <1>1, <2>2 DEF Next, vars, workerVars, WriteSegment, WriteEndlist, ReadPlaylist,
                      ServeSegment, Fold, EndTick, Restart
  <2> QED BY <2>1, <2>2
<1>2. IInv /\ [Next]_vars =>
        [file.ended /\ LastRun(file.runs) = cur => file' = file /\ disk \subseteq disk']_vars
  BY <1>1
<1> QED BY <1>2, PlaylistInvariance, PTL DEF Spec, EndedUnchanged

\* A segment is listed in one run.
LEMMA OwnerIsUnique ==
  ASSUME NEW f, Sound(f.runs), NEW r \in DOMAIN f.runs, NEW n \in f.runs[r].segs
  PROVE Owner(f, n) = r
<1>1. ASSUME NEW q \in DOMAIN f.runs, n \in f.runs[q].segs PROVE q = r
  <2>1. q \in Nat /\ r \in Nat /\ n \in Nat
    BY RunNumbers
  <2>2. ~(q < r) /\ ~(r < q)
    BY <1>1, <2>1 DEF Sound, Ordered
  <2> QED BY <2>1, <2>2
<1> QED BY <1>1 DEF Owner

\* In a playlist without gaps the numbers the tags give a segment are its own index
\* and its own run's.
LEMMA GaplessNumbers ==
  ASSUME NEW f, Sound(f.runs), Contiguous(f.runs), NEW n \in Indexes(f.runs)
  PROVE MediaNumber(f, n) = n /\ DiscontinuityNumber(f, n) = Owner(f, n)
<1>1. PICK r \in DOMAIN f.runs : n \in f.runs[r].segs
  BY ListedPairs
<1>2. Owner(f, n) = r /\ r \in Nat /\ n \in Nat
  BY <1>1, OwnerIsUnique, RunNumbers
<1> DEFINE first == FirstIndex(f)
<1>3. first \in Indexes(f.runs) /\ \A m \in Indexes(f.runs) : m \in Nat /\ first <= m
  BY RunNumbers, MinIsLeast DEF FirstIndex
<1>4. PICK p \in DOMAIN f.runs : first \in f.runs[p].segs
  BY <1>3, ListedPairs
<1>5. FirstRun(f) = p /\ p \in Nat
  BY <1>4, OwnerIsUnique, RunNumbers DEF FirstRun
<1>6. \A q \in DOMAIN f.runs : q \in Nat /\ p <= q
  <2> SUFFICES ASSUME NEW q \in DOMAIN f.runs, q < p PROVE FALSE
    BY <1>5, RunNumbers
  <2>1. PICK m : m \in f.runs[q].segs
    BY DEF Sound, Ordered
  <2>2. m < first
    BY <1>4, <2>1 DEF Sound, Ordered
  <2>3. m \in Indexes(f.runs)
    BY <2>1, ListedPairs
  <2> QED BY <1>3, <2>2, <2>3
<1>7. ASSUME NEW lo \in Nat, NEW hi \in Nat, lo <= hi
      PROVE Cardinality(lo .. hi - 1) = hi - lo
  <2>1. CASE lo = hi
    <3>1. lo .. hi - 1 = {}
      BY <2>1
    <3> QED BY <2>1, <3>1, FS_EmptySet
  <2>2. CASE lo < hi
    <3>1. hi - 1 \in Int /\ lo \in Int
      OBVIOUS
    <3>2. Cardinality(lo .. hi - 1) = IF lo > hi - 1 THEN 0 ELSE (hi - 1) - lo + 1
      BY <3>1, FS_Interval
    <3> QED BY <2>2, <3>2
  <2> QED BY <1>7, <2>1, <2>2
<1>8. {m \in Indexes(f.runs) : m < n} = first .. n - 1
  BY <1>2, <1>3 DEF Contiguous
<1>9. {q \in DOMAIN f.runs : q < r} = p .. r - 1
  BY <1>1, <1>2, <1>4, <1>5, <1>6 DEF Contiguous
<1>10. MediaNumber(f, n) = n
  <2>1. Cardinality(first .. n - 1) = n - first
    BY <1>2, <1>3, <1>7
  <2>2. MediaNumber(f, n) = first + Cardinality(first .. n - 1)
    BY <1>8, Zenon DEF MediaNumber
  <2>3. first \in Nat
    BY <1>3
  <2> HIDE DEF first
  <2> QED BY <1>2, <2>1, <2>2, <2>3
<1>11. DiscontinuityNumber(f, n) = r
  <2>1. Cardinality(p .. r - 1) = r - p
    BY <1>1, <1>2, <1>5, <1>6, <1>7
  <2>2. DiscontinuityNumber(f, n) = p + Cardinality(p .. r - 1)
    <3>1. DiscontinuityNumber(f, n) = FirstRun(f) + Cardinality({q \in DOMAIN f.runs : q < r})
      BY <1>2, Zenon DEF DiscontinuityNumber
    <3> QED BY <1>5, <1>9, <3>1, Zenon
  <2> QED BY <1>2, <1>5, <2>1, <2>2
<1> QED BY <1>2, <1>10, <1>11

\* A client numbers a segment the same way in two successive playlists, as long as
\* no run was replaced before it listed anything.
THEOREM StableNumbersTheorem == Spec => StableNumbers
<1>1. ASSUME IInv, [Next]_vars, ~skipped' PROVE NumbersAgree(file, file')
  <2>1. CASE file' = file
    BY <2>1 DEF NumbersAgree
  <2>2. CASE /\ pc = "write" /\ ~frozen /\ file'.runs = state
             /\ UNCHANGED <<cur, start, written, state, skipped>>
    <3>1. /\ Sound(file.runs) /\ Sound(file'.runs)
          /\ Contiguous(file.runs) /\ Contiguous(file'.runs)
      BY <1>1, <2>2, SoundStates DEF IInv, GapInv
    <3> SUFFICES ASSUME NEW n \in Indexes(file.runs) \cap Indexes(file'.runs)
                 PROVE /\ MediaNumber(file, n) = MediaNumber(file', n)
                       /\ DiscontinuityNumber(file, n) = DiscontinuityNumber(file', n)
      BY DEF NumbersAgree
    <3>2. PICK r \in DOMAIN file.runs : n \in file.runs[r].segs
      BY ListedPairs
    <3>3. PICK q \in DOMAIN file'.runs : n \in file'.runs[q].segs
      BY ListedPairs
    <3>4. q = r
      <4>1. CASE q # cur
        <5>1. q \in DOMAIN file.runs /\ n \in file.runs[q].segs
          BY <1>1, <2>2, <3>3, <4>1 DEF IInv, TickInv
        <5> QED BY <3>1, <3>2, <5>1, OwnerIsUnique
      <4>2. CASE q = cur
        <5>1. n >= start /\ n \in Nat
          BY <3>1, <3>3, <4>2, RunNumbers
        <5>2. start \in Nat
          BY <3>1 DEF Sound
        <5> QED BY <3>1, <3>2, <4>2, <5>1, <5>2, RunNumbers
      <4> QED BY <4>1, <4>2
    <3>5. Owner(file, n) = r /\ Owner(file', n) = r
      BY <3>1, <3>2, <3>3, <3>4, OwnerIsUnique
    <3> QED BY <3>1, <3>5, GaplessNumbers
  <2> QED BY <1>1, <2>1, <2>2, FileMoves
<1>2. IInv /\ [Next]_vars => [~skipped' => NumbersAgree(file, file')]_vars
  BY <1>1
<1> QED BY <1>2, PlaylistInvariance, PTL DEF Spec, StableNumbers
=============================================================================
