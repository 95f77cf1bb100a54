-------------------------- MODULE RateLimitProofs --------------------------
(***************************************************************************)
(* The rate limiter keeps its limit, for every window, limit and number of *)
(* identifiers.                                                            *)
(***************************************************************************)
EXTENDS RateLimit, FiniteSetTheorems, TLAPS

Hit == [who : Identifiers, score : Nat]

LimiterTypeOK ==
    /\ now \in Nat
    /\ hits \in Seq(Hit)
    /\ zset \in [Identifiers -> SUBSET (1..Len(hits))]
    /\ admitted \in SUBSET (1..Len(hits))

\* The clock does not go back, and a trim spares what is still in the window.
Past == \A n \in 1..Len(hits) : hits[n].score <= now
Covered == \A n \in admitted : hits[n].score > now - WindowMs => n \in zset[hits[n].who]

InWindow(i, t) == {n \in admitted : /\ hits[n].who = i
                                      /\ t - WindowMs < hits[n].score
                                      /\ hits[n].score <= t}

LimiterInv == LimiterTypeOK /\ Past /\ Covered /\ WindowBound

\* A set that lies within a bounded one is bounded.
LEMMA BoundedBySuperset ==
    ASSUME NEW S, NEW T, S \subseteq T, IsFiniteSet(T), Cardinality(T) <= Limit
    PROVE  Cardinality(S) <= Limit
<1>1. /\ IsFiniteSet(S)
      /\ Cardinality(S) <= Cardinality(T)
  BY FS_Subset
<1>2. Cardinality(S) \in Nat /\ Cardinality(T) \in Nat /\ Limit \in Nat
  BY <1>1, FS_CardinalityType, RateLimitConstants
<1> QED
  BY <1>1, <1>2

\* Numbers of hits form finite sets.
LEMMA HitsAreFinite ==
    ASSUME NEW n \in Nat, NEW S \in SUBSET (1..n)
    PROVE  IsFiniteSet(S)
<1>1. IsFiniteSet(1..n)
  BY FS_Interval
<1> QED
  BY <1>1, FS_Subset

\* The hits so far have an identifier and a time.
LEMMA HitFacts ==
    ASSUME LimiterTypeOK
    PROVE  /\ Len(hits) \in Nat
           /\ \A n \in 1..Len(hits) : hits[n].who \in Identifiers /\ hits[n].score \in Nat
<1>1. hits \in Seq(Hit)
  BY DEF LimiterTypeOK
<1>2. Len(hits) \in Nat /\ \A n \in 1..Len(hits) : hits[n] \in Hit
  BY <1>1
<1> QED
  BY <1>2 DEF Hit

\* One more hit leaves the earlier ones as they are.
LEMMA OneMoreHit ==
    ASSUME LimiterTypeOK, Past, NEW i \in Identifiers, Check(i)
    PROVE  /\ now' = now
           /\ hits' \in Seq(Hit) /\ Len(hits') = Len(hits) + 1 /\ Len(hits) \in Nat
           /\ \A n \in 1..Len(hits) : hits'[n] = hits[n]
           /\ hits'[Latest] = [who |-> i, score |-> now]
           /\ zset' \in [Identifiers -> SUBSET (1..Len(hits'))]
           /\ Past'
<1>1. [who |-> i, score |-> now] \in Hit
  BY DEF LimiterTypeOK, Hit
<1>2. /\ hits' \in Seq(Hit) /\ Len(hits') = Len(hits) + 1 /\ Len(hits) \in Nat
      /\ \A n \in 1..Len(hits) : hits'[n] = hits[n]
      /\ hits'[Len(hits) + 1] = [who |-> i, score |-> now]
  BY <1>1 DEF LimiterTypeOK, Check
<1>3. zset' = [zset EXCEPT ![i] = Trimmed(i) \cup {Latest}] /\ now' = now
  BY DEF Check
<1>4. Trimmed(i) \cup {Latest} \in SUBSET (1..Len(hits'))
  BY <1>2 DEF Trimmed, Latest, LimiterTypeOK
<1>5. \A j \in Identifiers : zset[j] \in SUBSET (1..Len(hits'))
  BY <1>2 DEF LimiterTypeOK
<1>6. zset' \in [Identifiers -> SUBSET (1..Len(hits'))]
  BY <1>3, <1>4, <1>5 DEF LimiterTypeOK
<1>7. Past'
  <2> SUFFICES ASSUME NEW n \in 1..Len(hits') PROVE hits'[n].score <= now'
    BY DEF Past
  <2>1. CASE n \in 1..Len(hits)
    BY <2>1, <1>2, <1>3 DEF Past
  <2>2. CASE n = Len(hits) + 1
    BY <2>2, <1>2, <1>3 DEF LimiterTypeOK
  <2> QED
    BY <2>1, <2>2, <1>2
<1> QED
  BY <1>2, <1>3, <1>6, <1>7 DEF Latest

\* What is admitted and in the window that ends now survives the trim.
LEMMA WindowSurvives ==
    ASSUME LimiterTypeOK, Past, Covered, NEW i \in Identifiers, Check(i), NEW n \in admitted,
           hits[n].score > now - WindowMs
    PROVE  n \in zset'[hits[n].who]
<1>1. n \in zset[hits[n].who] /\ hits[n].who \in Identifiers /\ n \in 1..Len(hits)
  <2>1. n \in 1..Len(hits)
    BY DEF LimiterTypeOK
  <2> QED
    BY <2>1, HitFacts DEF Covered
<1>2. zset' = [zset EXCEPT ![i] = Trimmed(i) \cup {Latest}]
  BY DEF Check
<1>3. CASE hits[n].who = i
  BY <1>1, <1>2, <1>3 DEF Trimmed, LimiterTypeOK
<1>4. CASE hits[n].who # i
  BY <1>1, <1>2, <1>4 DEF LimiterTypeOK
<1> QED
  BY <1>3, <1>4

\* A hit that is not admitted changes no window.
LEMMA NotAdmitted ==
    ASSUME LimiterInv, NEW i \in Identifiers, Check(i), UNCHANGED admitted
    PROVE  LimiterInv'
<1> USE DEF LimiterInv
<1>1. /\ now' = now
      /\ hits' \in Seq(Hit) /\ Len(hits') = Len(hits) + 1 /\ Len(hits) \in Nat
      /\ \A n \in 1..Len(hits) : hits'[n] = hits[n]
      /\ zset' \in [Identifiers -> SUBSET (1..Len(hits'))]
      /\ Past'
  BY OneMoreHit
<1>2. LimiterTypeOK'
  BY <1>1 DEF LimiterTypeOK
<1>3. \A n \in admitted : n \in 1..Len(hits) /\ hits'[n] = hits[n]
  BY <1>1 DEF LimiterTypeOK
<1>4. Covered'
  BY <1>1, <1>3, WindowSurvives DEF Covered
<1>5. \A j \in Identifiers, t \in 0..now : InWindow(j, t)' = InWindow(j, t)
  BY <1>1, <1>3 DEF InWindow
<1>6. WindowBound'
  BY <1>1, <1>5 DEF WindowBound, InWindow
<1> QED
  BY <1>1, <1>2, <1>4, <1>6

\* A hit that is admitted fits into the window that ends now, and into no earlier one.
LEMMA Admitted ==
    ASSUME LimiterInv, NEW i \in Identifiers, Allows(i)
    PROVE  LimiterInv'
<1> USE DEF LimiterInv
<1>1. Check(i) /\ Cardinality(zset'[i]) <= Limit /\ admitted' = admitted \cup {Latest}
  BY DEF Allows
<1>2. /\ now' = now
      /\ hits' \in Seq(Hit) /\ Len(hits') = Len(hits) + 1 /\ Len(hits) \in Nat
      /\ \A n \in 1..Len(hits) : hits'[n] = hits[n]
      /\ hits'[Latest] = [who |-> i, score |-> now]
      /\ zset' \in [Identifiers -> SUBSET (1..Len(hits'))]
      /\ Past'
  BY <1>1, OneMoreHit
<1>3. LimiterTypeOK'
  <2>1. now' \in Nat
    BY <1>2 DEF LimiterTypeOK
  <2>2. admitted \subseteq 1..Len(hits')
    BY <1>2 DEF LimiterTypeOK
  <2>3. Latest \in 1..Len(hits')
    BY <1>2 DEF Latest
  <2> QED
    BY <1>1, <1>2, <2>1, <2>2, <2>3 DEF LimiterTypeOK
<1>4. \A n \in admitted : n \in 1..Len(hits) /\ hits'[n] = hits[n]
  BY <1>2 DEF LimiterTypeOK
<1>5. Latest \in zset'[i]
  BY <1>1 DEF Check, LimiterTypeOK
<1>6. \A n \in admitted' : hits'[n].score > now - WindowMs => n \in zset'[hits'[n].who]
  BY <1>1, <1>2, <1>4, <1>5, WindowSurvives
<1>7. Covered'
  BY <1>2, <1>6 DEF Covered
<1>8. IsFiniteSet(zset'[i])
  <2>1. zset'[i] \in SUBSET (1..Len(hits) + 1) /\ Len(hits) + 1 \in Nat
    BY <1>2
  <2> QED
    BY <2>1, HitsAreFinite
<1>9. ASSUME NEW j \in Identifiers, NEW t \in 0..now
      PROVE  Cardinality(InWindow(j, t)') <= Limit
  <2>1. CASE j = i /\ t = now
    <3>1. \A n \in InWindow(j, t)' : n \in admitted' /\ hits'[n].who = i /\ hits'[n].score > now - WindowMs
      BY <2>1, <1>2, RateLimitConstants DEF InWindow, LimiterTypeOK
    <3>2. InWindow(j, t)' \subseteq zset'[i]
      BY <3>1, <1>6
    <3> QED
      BY <3>2, <1>1, <1>8, BoundedBySuperset
  <2>2. CASE j # i \/ t # now
    <3>1. Latest \notin InWindow(j, t)'
      BY <2>2, <1>2 DEF InWindow, LimiterTypeOK
    <3>2. InWindow(j, t)' = InWindow(j, t)
      BY <3>1, <1>1, <1>4 DEF InWindow
    <3> QED
      BY <3>2 DEF WindowBound, InWindow
  <2> QED
    BY <2>1, <2>2
<1>10. WindowBound'
  BY <1>2, <1>9 DEF WindowBound, InWindow
<1> QED
  BY <1>2, <1>3, <1>7, <1>10

\* Time that passes takes hits out of the window that ends now.
LEMMA TimePasses ==
    ASSUME LimiterInv, Elapse
    PROVE  LimiterInv'
<1> USE DEF LimiterInv
<1>1. now \in Nat /\ now' = now + 1 /\ UNCHANGED <<hits, zset, admitted>>
  BY DEF Elapse, LimiterTypeOK
<1>2. LimiterTypeOK'
  BY <1>1 DEF LimiterTypeOK
<1>3. \A n \in 1..Len(hits) : hits[n].score \in Nat
  BY HitFacts
<1>4. Past'
  BY <1>1, <1>3 DEF Past
<1>5. Covered'
  BY <1>1, <1>3, RateLimitConstants DEF Covered, LimiterTypeOK
<1>6. ASSUME NEW i \in Identifiers, NEW t, t = now + 1
      PROVE  Cardinality(InWindow(i, t)) <= Limit
  <2>1. InWindow(i, t) \subseteq InWindow(i, now)
    <3> SUFFICES ASSUME NEW n \in admitted, t - WindowMs < hits[n].score
                 PROVE  now - WindowMs < hits[n].score /\ hits[n].score <= now
      BY DEF InWindow
    <3>1. n \in 1..Len(hits)
      BY DEF LimiterTypeOK
    <3>2. hits[n].score \in Nat /\ hits[n].score <= now
      BY <3>1, <1>3 DEF Past
    <3> QED
      BY <3>2, <1>1, <1>6, RateLimitConstants
  <2>2. Cardinality(InWindow(i, now)) <= Limit
    <3>1. now \in 0..now
      BY <1>1
    <3> QED
      BY <3>1 DEF WindowBound, InWindow
  <2>3. IsFiniteSet(InWindow(i, now))
    <3>1. InWindow(i, now) \in SUBSET (1..Len(hits))
      BY DEF InWindow, LimiterTypeOK
    <3>2. Len(hits) \in Nat
      BY HitFacts
    <3> QED
      BY <3>1, <3>2, HitsAreFinite
  <2> QED
    BY <2>1, <2>2, <2>3, BoundedBySuperset
<1>7. ASSUME NEW i \in Identifiers, NEW t \in 0..now'
      PROVE  Cardinality(InWindow(i, t)') <= Limit
  <2>1. InWindow(i, t)' = InWindow(i, t)
    BY <1>1 DEF InWindow
  <2>2. CASE t \in 0..now
    BY <2>1, <2>2 DEF WindowBound, InWindow
  <2>3. CASE t = now + 1
    BY <2>1, <2>3, <1>6
  <2> QED
    BY <2>2, <2>3, <1>1
<1>8. WindowBound'
  BY <1>7 DEF WindowBound, InWindow
<1> QED
  BY <1>2, <1>4, <1>5, <1>8

\* The guard keeps its limit (RedisRateLimitGuard.canActivate): no user and no address
\* gets more than Limit counted requests through in any window, whatever fails.
THEOREM LimitIsKept == LimiterSpec => []WindowBound
<1>1. LimiterInit => LimiterInv
  <2> SUFFICES ASSUME LimiterInit PROVE LimiterInv
    OBVIOUS
  <2>1. now = 0 /\ hits = <<>> /\ admitted = {} /\ zset = [i \in Identifiers |-> {}]
    BY DEF LimiterInit
  <2>2. LimiterTypeOK /\ Past /\ Covered
    BY <2>1 DEF LimiterTypeOK, Past, Covered
  <2>3. ASSUME NEW i \in Identifiers, NEW t \in 0..now
        PROVE  Cardinality(InWindow(i, t)) <= Limit
    <3>1. InWindow(i, t) = {}
      BY <2>1 DEF InWindow
    <3> QED
      BY <3>1, FS_EmptySet, RateLimitConstants
  <2> QED
    BY <2>2, <2>3 DEF LimiterInv, WindowBound, InWindow
<1>2. LimiterInv /\ [LimiterNext]_limiterVars => LimiterInv'
  <2> SUFFICES ASSUME LimiterInv, [LimiterNext]_limiterVars PROVE LimiterInv'
    OBVIOUS
  <2>1. CASE Elapse
    BY <2>1, TimePasses
  <2>2. ASSUME NEW i \in Identifiers, Allows(i) PROVE LimiterInv'
    BY <2>2, Admitted
  <2>3. ASSUME NEW i \in Identifiers, Refuses(i) PROVE LimiterInv'
    BY <2>3, NotAdmitted DEF Refuses
  <2>4. CASE UNCHANGED limiterVars
    BY <2>4 DEF limiterVars, LimiterInv, LimiterTypeOK, Past, Covered, WindowBound
  <2>5. ASSUME NEW i \in Identifiers, Breaks(i) PROVE LimiterInv'
    BY <2>5, <2>4, NotAdmitted DEF Breaks, limiterVars
  <2> QED
    BY <2>1, <2>2, <2>3, <2>4, <2>5 DEF LimiterNext
<1>3. LimiterInv => WindowBound
  BY DEF LimiterInv
<1> QED
  BY <1>1, <1>2, <1>3, PTL DEF LimiterSpec
=============================================================================
