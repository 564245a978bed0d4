------------------------- MODULE QuestionBankProofs -------------------------
(***************************************************************************)
(* Proofs about QuestionBank, for any rooms, questions and number of       *)
(* rounds.                                                                 *)
(***************************************************************************)
EXTENDS QuestionBank, SequenceTheorems, FiniteSetTheorems, TLAPS

----------------------------------------------------------------------------
(* Sequences without repetition.                                           *)

LEMMA RangeElements ==
  ASSUME NEW S, NEW s \in Seq(S)
  PROVE  \A x : x \in Range(s) <=> \E i \in 1..Len(s) : s[i] = x
BY LenProperties DEF Range

LEMMA InjectiveElements ==
  ASSUME NEW S, NEW s \in Seq(S)
  PROVE  IsInjective(s) <=> \A i, j \in 1..Len(s) : s[i] = s[j] => i = j
BY LenProperties DEF IsInjective

LEMMA InjectiveConcat ==
  ASSUME NEW S, NEW s \in Seq(S), NEW t \in Seq(S),
         IsInjective(s), IsInjective(t), Range(s) \cap Range(t) = {}
  PROVE  IsInjective(s \o t)
<1>1. /\ Len(s) \in Nat /\ Len(t) \in Nat /\ s \o t \in Seq(S)
      /\ Len(s \o t) = Len(s) + Len(t)
      /\ \A i \in 1..Len(s) + Len(t) :
           (s \o t)[i] = IF i <= Len(s) THEN s[i] ELSE t[i - Len(s)]
  BY ConcatProperties, LenProperties
<1>2. SUFFICES ASSUME NEW i \in 1..Len(s) + Len(t), NEW j \in 1..Len(s) + Len(t),
                      (s \o t)[i] = (s \o t)[j]
               PROVE  i = j
  BY <1>1, InjectiveElements
<1>3. /\ \A k, l \in 1..Len(s) : s[k] = s[l] => k = l
      /\ \A k, l \in 1..Len(t) : t[k] = t[l] => k = l
      /\ \A k \in 1..Len(s), l \in 1..Len(t) : s[k] # t[l]
  BY InjectiveElements, RangeElements
<1>4. CASE i <= Len(s) /\ j <= Len(s)
  BY <1>1, <1>2, <1>3, <1>4
<1>5. CASE i > Len(s) /\ j > Len(s)
  <2>1. i - Len(s) \in 1..Len(t) /\ j - Len(s) \in 1..Len(t)
    BY <1>1, <1>5
  <2>2. t[i - Len(s)] = t[j - Len(s)]
    BY <1>1, <1>2, <1>5
  <2>3. i - Len(s) = j - Len(s)
    BY <1>3, <2>1, <2>2
  <2> QED BY <1>1, <2>3
<1>6. CASE i <= Len(s) /\ j > Len(s)
  <2>1. i \in 1..Len(s) /\ j - Len(s) \in 1..Len(t)
    BY <1>1, <1>6
  <2>2. s[i] = t[j - Len(s)]
    BY <1>1, <1>2, <1>6
  <2> QED BY <1>3, <2>1, <2>2
<1>7. CASE i > Len(s) /\ j <= Len(s)
  <2>1. j \in 1..Len(s) /\ i - Len(s) \in 1..Len(t)
    BY <1>1, <1>7
  <2>2. s[j] = t[i - Len(s)]
    BY <1>1, <1>2, <1>7
  <2> QED BY <1>3, <2>1, <2>2
<1> QED BY <1>1, <1>4, <1>5, <1>6, <1>7

\* A sequence without repetition has as many elements as places.
LEMMA InjectiveSize ==
  ASSUME NEW S, NEW s \in Seq(S), IsInjective(s)
  PROVE  IsFiniteSet(Range(s)) /\ Cardinality(Range(s)) = Len(s)
<1>1. Len(s) \in Nat /\ s \in [1..Len(s) -> S] /\ DOMAIN s = 1..Len(s)
  BY LenProperties
<1>2. s \in Bijection(1..Len(s), Range(s))
  BY <1>1 DEF Bijection, Injection, Surjection, Range, IsInjective
<1>3. ExistsBijection(1..Len(s), Range(s))
  BY <1>2 DEF ExistsBijection
<1>4. IsFiniteSet(1..Len(s)) /\ Cardinality(1..Len(s)) = Len(s)
  BY <1>1, FS_Interval
<1> QED BY <1>3, <1>4, FS_Bijection

\* What a pop leaves.
LEMMA TailInjective ==
  ASSUME NEW S, NEW s \in Seq(S), s # << >>, IsInjective(s)
  PROVE  /\ Tail(s) \in Seq(S) /\ IsInjective(Tail(s))
         /\ Len(Tail(s)) = Len(s) - 1 /\ Len(s) \in Nat /\ Head(s) \in S
         /\ Range(Tail(s)) \subseteq Range(s)
         /\ Head(s) \in Range(s) /\ Head(s) \notin Range(Tail(s))
<1>1. /\ Len(s) \in Nat \ {0} /\ Tail(s) \in Seq(S) /\ Head(s) \in S
      /\ Len(Tail(s)) = Len(s) - 1
      /\ \A i \in 1..Len(Tail(s)) : Tail(s)[i] = s[i + 1]
  BY EmptySeq, HeadTailProperties
<1>2. \A i, j \in 1..Len(s) : s[i] = s[j] => i = j
  BY InjectiveElements
<1>3. \A i \in 1..Len(Tail(s)) : i + 1 \in 1..Len(s) /\ i + 1 # 1
  BY <1>1
<1>4. \A i, j \in 1..Len(Tail(s)) : Tail(s)[i] = Tail(s)[j] => i = j
  <2> TAKE i, j \in 1..Len(Tail(s))
  <2> HAVE Tail(s)[i] = Tail(s)[j]
  <2>1. i + 1 = j + 1
    BY <1>1, <1>2, <1>3
  <2> QED BY <2>1
<1>5. Head(s) = s[1] /\ 1 \in 1..Len(s)
  BY <1>1
<1>6. Range(Tail(s)) \subseteq Range(s) /\ Head(s) \in Range(s)
  <2>1. ASSUME NEW x \in Range(Tail(s)) PROVE x \in Range(s)
    <3>1. PICK i \in 1..Len(Tail(s)) : Tail(s)[i] = x
      BY <1>1, RangeElements
    <3>2. i + 1 \in 1..Len(s) /\ s[i + 1] = x
      BY <1>1, <1>3, <3>1
    <3> QED BY <3>2, RangeElements
  <2> QED BY <1>5, <2>1, RangeElements
<1>7. Head(s) \notin Range(Tail(s))
  <2> SUFFICES ASSUME NEW i \in 1..Len(Tail(s)), Tail(s)[i] = Head(s) PROVE FALSE
    BY <1>1, RangeElements
  <2>1. s[i + 1] = s[1]
    BY <1>1, <1>5
  <2> QED BY <1>2, <1>3, <1>5, <2>1
<1> QED BY <1>1, <1>4, <1>6, <1>7, InjectiveElements

LEMMA AppendInjectiveSeq ==
  ASSUME NEW S, NEW s \in Seq(S), NEW e \in S, IsInjective(s), e \notin Range(s)
  PROVE  /\ Append(s, e) \in Seq(S) /\ IsInjective(Append(s, e))
         /\ Range(Append(s, e)) = Range(s) \cup {e}
<1>1. <<e>> \in Seq(S) /\ Len(<<e>>) = 1 /\ <<e>>[1] = e
  OBVIOUS
<1>0. \A i \in 1..Len(<<e>>) : i = 1
  BY <1>1
<1>2. Range(<<e>>) = {e} /\ IsInjective(<<e>>)
  <2>1. IsInjective(<<e>>)
    BY <1>0, <1>1, InjectiveElements
  <2>2. \A x : x \in Range(<<e>>) <=> \E i \in 1..Len(<<e>>) : <<e>>[i] = x
    BY <1>1, RangeElements
  <2>3. \A x : x \in Range(<<e>>) <=> x = e
    BY <1>0, <1>1, <2>2
  <2> QED BY <2>1, <2>3
<1>3. Append(s, e) = s \o <<e>>
  BY AppendIsConcat
<1>4. IsInjective(s \o <<e>>) /\ s \o <<e>> \in Seq(S)
  BY <1>1, <1>2, InjectiveConcat, ConcatProperties
<1>5. Range(s \o <<e>>) = Range(s) \cup Range(<<e>>)
  BY <1>1, RangeConcatenation
<1> QED BY <1>2, <1>3, <1>4, <1>5

LEMMA EmptyInjective == IsInjective(<< >>) /\ Range(<< >>) = {}
BY DEF IsInjective, Range

----------------------------------------------------------------------------
(* The draw.                                                               *)

\* The length of a list that was filled up.
Full == Lesser(Count, Cardinality(Questions))

\* The places of the first i buckets.
Quota(i) ==
  IF i = 0 THEN 0 ELSE IF i = 1 THEN TwoFifths
  ELSE IF i = 2 THEN 2 * TwoFifths ELSE Count

LEMMA Numbers ==
  /\ Cardinality(Questions) \in Nat /\ Count \in Nat
  /\ Full \in Nat /\ Full <= Count /\ Full <= Cardinality(Questions)
  /\ \A m, n \in Nat : Lesser(m, n) \in Nat /\ Lesser(m, n) <= m /\ Lesser(m, n) <= n
BY BankAssumption, FS_CardinalityType DEF Full, Lesser

LEMMA Shares ==
  /\ \A i \in 0..3 : Quota(i) \in Nat /\ Quota(i) <= Count
  /\ \A i \in 1..3 : Share[i] \in Nat /\ Quota(i) = Quota(i - 1) + Share[i]
<1>1. TwoFifths \in Nat /\ 2 * TwoFifths <= Count
  BY BankAssumption DEF TwoFifths
<1> QED BY <1>1, BankAssumption DEF Quota, Share

LEMMA SampleType ==
  ASSUME NEW E \in SUBSET Questions, NEW n \in Nat, NEW s \in Samples(E, n)
  PROVE  /\ s \in Seq(Questions) /\ IsInjective(s) /\ Range(s) \subseteq E
         /\ Len(s) = Lesser(n, Cardinality(E)) /\ Len(s) \in Nat
         /\ Cardinality(E) \in Nat
<1>1. IsFiniteSet(E) /\ Cardinality(E) \in Nat
  BY BankAssumption, FS_Subset, FS_CardinalityType
<1>2. Lesser(n, Cardinality(E)) \in Nat
  BY <1>1, Numbers
<1>3. s \in [1..Lesser(n, Cardinality(E)) -> E] /\ IsInjective(s)
  BY DEF Samples
<1>4. s \in Seq(E)
  BY <1>2, <1>3, SeqDef
<1>5. Len(s) = Lesser(n, Cardinality(E))
  BY <1>2, <1>3, <1>4, LenProperties
<1> QED BY <1>1, <1>2, <1>3, <1>4, <1>5, SeqMonotonic, RangeOfSeq

\* A list of questions without repetition.
Draft(s) == s \in Seq(Questions) /\ IsInjective(s)

LEMMA DraftSize ==
  ASSUME NEW s, Draft(s)
  PROVE  /\ Len(s) \in Nat /\ Len(s) <= Cardinality(Questions)
         /\ Range(s) \subseteq Questions
         /\ Cardinality(Questions \ Range(s)) = Cardinality(Questions) - Len(s)
<1>1. Range(s) \subseteq Questions /\ Len(s) \in Nat
  BY RangeOfSeq, LenProperties DEF Draft
<1>2. IsFiniteSet(Range(s)) /\ Cardinality(Range(s)) = Len(s)
  BY InjectiveSize DEF Draft
<1>3. /\ IsFiniteSet(Questions \ Range(s))
      /\ Cardinality(Questions \ Range(s)) \in Nat
      /\ Cardinality(Questions) \in Nat
  BY BankAssumption, FS_Subset, FS_CardinalityType
<1>4. /\ Range(s) \cup (Questions \ Range(s)) = Questions
      /\ Range(s) \cap (Questions \ Range(s)) = {}
  BY <1>1
<1>5. Cardinality(Questions)
        = Len(s) + Cardinality(Questions \ Range(s)) - Cardinality({})
  BY <1>2, <1>3, <1>4, FS_Union
<1> QED BY <1>1, <1>3, <1>5, FS_EmptySet

\* Another sample behind a list, from questions that are not in it.
LEMMA DraftGrows ==
  ASSUME NEW p, Draft(p), NEW E \in SUBSET Questions, E \cap Range(p) = {},
         NEW n \in Nat, NEW s \in Samples(E, n)
  PROVE  /\ Draft(p \o s) /\ Range(p \o s) = Range(p) \cup Range(s)
         /\ Len(p \o s) = Len(p) + Lesser(n, Cardinality(E))
<1>1. p \in Seq(Questions) /\ s \in Seq(Questions)
  BY SampleType DEF Draft
<1>2. Range(p) \cap Range(s) = {}
  BY SampleType
<1>3. IsInjective(p \o s)
  BY <1>1, <1>2, SampleType, InjectiveConcat DEF Draft
<1>4. p \o s \in Seq(Questions) /\ Len(p \o s) = Len(p) + Len(s)
  BY <1>1, ConcatProperties
<1> QED BY <1>1, <1>3, <1>4, RangeConcatenation, SampleType DEF Draft

----------------------------------------------------------------------------
(* The invariant.                                                          *)

Drawing == {"draw", "fill"}
Drawn   == {"delete", "push"}

\* The job: what is picked is new to the players and fills the buckets, or
\* one of them was short; afterwards it is full, but for a fill that failed.
JobInv ==
  /\ job.at \in Stages => Draft(job.picked) /\ Len(job.picked) <= Full
  /\ job.at = "history" => job.picked = << >> /\ job.drawn = 0
  /\ job.at = "draw" => job.drawn \in 0..2
  /\ job.at = "fill" => job.drawn = 3
  /\ job.at \in Drawing =>
       /\ job.seen = known /\ Range(job.picked) \cap known = {}
       /\ Len(job.picked) <= Quota(job.drawn)
       /\ Len(job.picked) = Quota(job.drawn) \/ \E i \in 1..3 : Short(i)
       /\ \A q \in Range(job.picked) : \E i \in 1..job.drawn : q \in Bucket(i)
  /\ job.at \in Drawn /\ job.filled => Len(job.picked) = Full
  /\ job.at = "push" => list[job.room] = << >>

\* The lists, and the rounds that depend on them.
ListInv ==
  /\ \A r \in Rooms : Draft(list[r]) /\ Len(list[r]) <= Full /\ left[r] <= Full
  /\ QuestionsSuffice

\* A count in flight stays within the list until a loop pops from it.
CountInv ==
  \A r \in Rooms : \A c \in counts[r] :
    /\ c.rounds <= Full
    /\ ~c.stale /\ r \notin lacking => c.rounds <= Len(list[r])

\* What was asked, or is in hand, is not in the list any more.
AskedInv ==
  \A r \in Rooms \ reselected :
    /\ IsInjective(asked[r])
    /\ Range(asked[r]) \cap Range(list[r]) = {}
    /\ hand[r] \cap (Range(asked[r]) \cup Range(list[r])) = {}

Inv == TypeOK /\ JobInv /\ SeenOnlyAsFiller /\ ListInv /\ CountInv /\ AskedInv

LEMMA Initially == Init => Inv
<1> SUFFICES ASSUME Init PROVE Inv
  OBVIOUS
<1>1. TypeOK
  BY BankAssumption, EmptySeq DEF Init, TypeOK, Jobs
<1>2. Draft(<< >>) /\ Len(<< >>) = 0 /\ 0 <= Full
  BY EmptySeq, EmptyInjective, Numbers DEF Draft
<1>3. JobInv /\ SeenOnlyAsFiller
  BY DEF Init, JobInv, SeenOnlyAsFiller, Idle, Stages, Drawing, Drawn
<1>4. ListInv /\ CountInv
  BY <1>2 DEF Init, ListInv, QuestionsSuffice, CountInv
<1>5. AskedInv
  BY EmptyInjective DEF Init, AskedInv
<1> QED BY <1>1, <1>3, <1>4, <1>5 DEF Inv

----------------------------------------------------------------------------
(* The consumer draws.                                                     *)

LEMMA JobFields ==
  ASSUME TypeOK
  PROVE  /\ job.at \in Stages =>
              /\ job = [at |-> job.at, room |-> job.room, seen |-> job.seen,
                        drawn |-> job.drawn, picked |-> job.picked,
                        filled |-> job.filled]
              /\ job.room \in Rooms /\ job.seen \subseteq Questions
              /\ job.drawn \in 0..3 /\ job.picked \in Seq(Questions)
              /\ job.filled \in BOOLEAN
         /\ job = Idle \/ job.at \in Stages
BY DEF TypeOK, Jobs, Idle, Stages

LEMMA FaultType ==
  ASSUME TypeOK, Works \/ Fails
  PROVE  faults' \in 0..MaxFaults
BY BankAssumption DEF TypeOK, Works, Fails

LEMMA RequeueType ==
  ASSUME TypeOK, job.at \in Stages, Requeue
  PROVE  /\ job' \in Jobs /\ queue' \in Seq(Rooms) /\ known' \subseteq Questions
         /\ JobInv' /\ SeenOnlyAsFiller'
<1>1. job.room \in Rooms /\ queue \in Seq(Rooms)
  BY JobFields DEF TypeOK
<1>2. queue' \in Seq(Rooms)
  BY <1>1 DEF Requeue
<1>3. job' = [at |-> "idle"] /\ known' = {}
  BY DEF Requeue, Idle
<1> QED BY <1>2, <1>3 DEF Jobs, Idle, JobInv, SeenOnlyAsFiller, Stages, Drawing, Drawn

\* The lists and the loops are as before.
LEMMA UnstoredKeeps ==
  ASSUME Inv, Unstored
  PROVE  ListInv' /\ CountInv' /\ AskedInv'
BY DEF Inv, Unstored, Elsewhere, listVars, loopVars, ListInv, QuestionsSuffice, CountInv,
       AskedInv

LEMMA UnstoredType ==
  ASSUME TypeOK, Unstored, Works \/ Fails,
         job' \in Jobs, queue' \in Seq(Rooms), known' \subseteq Questions
  PROVE  TypeOK'
BY FaultType DEF TypeOK, Unstored, Elsewhere, listVars, loopVars

LEMMA DeliverStep ==
  ASSUME Inv, Deliver
  PROVE  Inv'
<1>1. /\ queue \in Seq(Rooms) /\ queue # << >> /\ Unstored /\ Works /\ known' = known
      /\ queue' = Tail(queue)
      /\ job' = [at |-> "history", room |-> Head(queue), seen |-> {}, drawn |-> 0,
                 picked |-> << >>, filled |-> TRUE]
  BY DEF Deliver, Inv, TypeOK, Works
<1>2. Head(queue) \in Rooms /\ queue' \in Seq(Rooms)
  BY <1>1, HeadTailProperties
<1>3. << >> \in Seq(Questions) /\ Len(<< >>) = 0 /\ IsInjective(<< >>)
  BY EmptySeq, EmptyInjective
<1>4. job' \in Jobs /\ known' \subseteq Questions
  BY <1>1, <1>2, <1>3 DEF Jobs, Stages, Inv, TypeOK
<1>5. JobInv' /\ SeenOnlyAsFiller'
  BY <1>1, <1>3, Numbers DEF JobInv, SeenOnlyAsFiller, Stages, Drawing, Drawn, Draft, Full
<1> QED BY <1>1, <1>2, <1>4, <1>5, UnstoredType, UnstoredKeeps DEF Inv

LEMMA FetchSeenStep ==
  ASSUME Inv, FetchSeen
  PROVE  Inv'
<1>1. job.at \in Stages /\ job.at = "history" /\ Unstored /\ TypeOK
  BY DEF FetchSeen, Stages, Inv
<1>2. CASE Requeue /\ Fails
  BY <1>1, <1>2, RequeueType, UnstoredType, UnstoredKeeps DEF Inv
<1>3. CASE ~(Requeue /\ Fails)
  <2> DEFINE S == QuestionsIn(RecordsOf(PlayersOf[job.room]))
  <2>1. /\ Works /\ known' = S /\ queue' = queue
        /\ job' = [job EXCEPT !.at = "draw", !.seen = S]
    BY <1>3 DEF FetchSeen
  <2>2. S \subseteq Questions
    BY DEF QuestionsIn, RecordsOf, Inv, TypeOK, Documents
  <2>3. job.picked = << >> /\ job.drawn = 0
    BY <1>1 DEF Inv, JobInv
  <2> HIDE DEF S
  <2>4. job' = [at |-> "draw", room |-> job.room, seen |-> S, drawn |-> 0,
                picked |-> << >>, filled |-> job.filled]
    BY <1>1, <2>1, <2>3, JobFields
  <2>5. job' \in Jobs /\ known' \subseteq Questions /\ queue' \in Seq(Rooms)
    BY <1>1, <2>1, <2>2, <2>4, JobFields, EmptySeq DEF Jobs, Stages, TypeOK
  <2>6. Draft(<< >>) /\ Len(<< >>) = 0 /\ Range(<< >>) = {}
    BY EmptySeq, EmptyInjective DEF Draft
  <2>a. /\ job'.at = "draw" /\ job'.picked = << >> /\ job'.drawn = 0
        /\ job'.seen = known' /\ Quota(0) = 0 /\ Full' = Full
    <3>1. job'.at = "draw" /\ job'.picked = << >> /\ job'.drawn = 0 /\ job'.seen = S
      BY <2>4
    <3>2. known' = S
      BY <2>1
    <3>3. Quota(0) = 0
      BY DEF Quota
    <3>4. Full' = Full
      BY DEF Full
    <3> QED BY <3>1, <3>2, <3>3, <3>4
  <2>7. JobInv' /\ SeenOnlyAsFiller'
    <3>1. SeenOnlyAsFiller'
      BY <2>a DEF SeenOnlyAsFiller
    <3>2. /\ Draft(job'.picked) /\ Len(job'.picked) <= Full
          /\ Range(job'.picked) = {} /\ Len(job'.picked) = 0
      BY <2>a, <2>6, Numbers
    <3>3. /\ Len(job'.picked) <= Quota(job'.drawn)
          /\ Len(job'.picked) = Quota(job'.drawn) \/ \E i \in 1..3 : Short(i)'
          /\ \A q \in Range(job'.picked) : \E i \in 1..job'.drawn : q \in Bucket(i)
      BY <2>a, <3>2
    <3> QED BY <2>a, <3>1, <3>2, <3>3 DEF JobInv, Drawing, Drawn
  <2> QED BY <1>1, <2>1, <2>5, <2>7, UnstoredType, UnstoredKeeps DEF Inv
<1> QED BY <1>2, <1>3

\* The part of a bucket that is new to the players, when its turn comes.
LEMMA Eligible ==
  ASSUME Inv, NEW i \in 1..3, job.at = "draw", job.drawn = i - 1
  PROVE  LET E == Bucket(i) \ (job.seen \cup Range(job.picked))
         IN  /\ E = Bucket(i) \ known /\ E \subseteq Questions
             /\ E \cap Range(job.picked) = {}
<1>1. /\ job.seen = known
      /\ \A q \in Range(job.picked) : \E j \in 1..(i - 1) : q \in Bucket(j)
  BY DEF Inv, JobInv, Drawing
<1>2. \A q \in Questions : \A j \in 1..(i - 1) : ~(q \in Bucket(j) /\ q \in Bucket(i))
  BY DEF Bucket, Levels
<1>3. \A q \in Range(job.picked) : q \notin Bucket(i)
  BY <1>1, <1>2 DEF Bucket
<1> QED BY <1>1, <1>3 DEF Bucket

LEMMA DrawStep ==
  ASSUME Inv, NEW i \in 1..3, Draw(i)
  PROVE  Inv'
<1>1. /\ job.at \in Stages /\ job.at = "draw" /\ job.drawn = i - 1
      /\ Unstored /\ TypeOK
  BY DEF Draw, Stages, Inv
<1>2. CASE Requeue /\ Fails
  BY <1>1, <1>2, RequeueType, UnstoredType, UnstoredKeeps DEF Inv
<1>3. CASE ~(Requeue /\ Fails)
  <2> DEFINE E == Bucket(i) \ (job.seen \cup Range(job.picked))
             place == IF i = 3 THEN "fill" ELSE "draw"
  <2>1. /\ Works /\ known' = known /\ queue' = queue
        /\ \E s \in Samples(E, Share[i]) :
             job' = [job EXCEPT !.at = place, !.drawn = i, !.picked = @ \o s]
    BY <1>3 DEF Draw
  <2>2. E = Bucket(i) \ known /\ E \subseteq Questions /\ E \cap Range(job.picked) = {}
    BY <1>1, Eligible
  <2>3. /\ Draft(job.picked) /\ Len(job.picked) <= Full
        /\ job.seen = known /\ Range(job.picked) \cap known = {}
        /\ Len(job.picked) <= Quota(i - 1)
        /\ Len(job.picked) = Quota(i - 1) \/ \E j \in 1..3 : Short(j)
        /\ \A q \in Range(job.picked) : \E j \in 1..(i - 1) : q \in Bucket(j)
    BY <1>1 DEF Inv, JobInv, Drawing
  <2>4. /\ Share[i] \in Nat /\ Quota(i) = Quota(i - 1) + Share[i]
        /\ Quota(i) \in Nat /\ Quota(i - 1) \in Nat /\ Quota(i) <= Count
    BY Shares
  <2>5. Short(i) <=> Cardinality(E) < Share[i]
    BY <2>2 DEF Short
  <2> HIDE DEF E
  <2>6. PICK s \in Samples(E, Share[i]) :
          job' = [job EXCEPT !.at = place, !.drawn = i, !.picked = @ \o s]
    BY <2>1
  <2> DEFINE p == job.picked \o s
  <2>7. /\ Draft(p) /\ Range(p) = Range(job.picked) \cup Range(s)
        /\ Len(p) = Len(job.picked) + Lesser(Share[i], Cardinality(E))
        /\ Range(s) \subseteq E /\ Cardinality(E) \in Nat
    <3>1. s \in Samples(E, Share[i])
      BY <2>6
    <3>2. Range(s) \subseteq E /\ Cardinality(E) \in Nat
      BY <2>2, <2>4, <3>1, SampleType
    <3>3. /\ Draft(job.picked) /\ E \in SUBSET Questions /\ Share[i] \in Nat
          /\ E \cap Range(job.picked) = {}
      BY <2>2, <2>3, <2>4
    <3> HIDE DEF place
    <3>4. /\ Draft(p) /\ Range(p) = Range(job.picked) \cup Range(s)
          /\ Len(p) = Len(job.picked) + Lesser(Share[i], Cardinality(E))
      BY <3>1, <3>3, DraftGrows
    <3> QED BY <3>2, <3>4
  <2>8. Len(p) \in Nat /\ Len(p) <= Cardinality(Questions) /\ Len(job.picked) \in Nat
    BY <2>3, <2>7, DraftSize
  <2>9. /\ job' = [at |-> place, room |-> job.room, seen |-> job.seen, drawn |-> i,
                   picked |-> p, filled |-> job.filled]
        /\ job'.at \in {"draw", "fill"} /\ (job'.at = "fill" <=> i = 3)
    BY <1>1, <2>6, JobFields
  <2> HIDE DEF p, place
  <2>10. Len(p) <= Quota(i) /\ (Len(p) = Quota(i) \/ \E j \in 1..3 : Short(j))
    BY <2>3, <2>4, <2>5, <2>7, <2>8 DEF Lesser
  <2>11. Len(p) <= Full
    BY <2>4, <2>8, <2>10, Numbers DEF Full, Lesser
  <2>12. Range(p) \cap known = {} /\ \A q \in Range(p) : \E j \in 1..i : q \in Bucket(j)
    BY <2>2, <2>3, <2>7
  <2>13. job' \in Jobs /\ known' \subseteq Questions /\ queue' \in Seq(Rooms)
    <3>1. /\ place \in Stages /\ i \in 0..3 /\ p \in Seq(Questions)
          /\ job.room \in Rooms /\ job.seen \in SUBSET Questions /\ job.filled \in BOOLEAN
      BY <1>1, <2>7, JobFields DEF Stages, Draft, place
    <3>2. job' \in Jobs
      BY <2>9, <3>1 DEF Jobs
    <3> QED BY <1>1, <2>1, <3>2 DEF TypeOK
  <2>14. \A j \in 1..3 : Short(j)' <=> Short(j)
    BY <2>1 DEF Short
  <2>15. SeenOnlyAsFiller'
    BY <2>9 DEF SeenOnlyAsFiller
  <2>16. JobInv'
    <3>1. /\ job'.picked = p /\ job'.drawn = i /\ job'.seen = known' /\ known' = known
          /\ Full' = Full
      BY <2>1, <2>3, <2>9 DEF Full
    <3>2. Draft(job'.picked) /\ Len(job'.picked) <= Full
      BY <2>7, <2>11, <3>1
    <3>3. /\ Len(job'.picked) <= Quota(job'.drawn)
          /\ Len(job'.picked) = Quota(job'.drawn) \/ \E j \in 1..3 : Short(j)'
          /\ Range(job'.picked) \cap known' = {}
          /\ \A q \in Range(job'.picked) : \E j \in 1..job'.drawn : q \in Bucket(j)
      BY <2>10, <2>12, <2>14, <3>1
    <3>4. job'.at = "draw" => job'.drawn \in 0..2
      BY <2>9, <3>1
    <3>5. job'.at = "fill" => job'.drawn = 3
      BY <2>9, <3>1
    <3> QED BY <2>9, <3>1, <3>2, <3>3, <3>4, <3>5 DEF JobInv, Drawing, Drawn
  <2> QED BY <1>1, <2>1, <2>13, <2>15, <2>16, UnstoredType, UnstoredKeeps DEF Inv
<1> QED BY <1>2, <1>3

LEMMA FillStep ==
  ASSUME Inv, Fill
  PROVE  Inv'
<1>1. job.at \in Stages /\ job.at = "fill" /\ Unstored /\ TypeOK /\ (Works \/ Fails)
  BY DEF Fill, Stages, Inv
<1>2. CASE Requeue
  BY <1>1, <1>2, RequeueType, UnstoredType, UnstoredKeeps DEF Inv
<1> DEFINE p == job.picked
           E == Questions \ Range(p)
<1>3. /\ Draft(p) /\ Len(p) <= Full /\ Range(p) \cap known = {}
      /\ Len(p) <= Count /\ (Len(p) = Count \/ \E j \in 1..3 : Short(j))
      /\ Len(p) \in Nat /\ Count \in Nat /\ job.drawn \in 0..3
  BY <1>1, DraftSize, BankAssumption DEF Inv, JobInv, Drawing, Quota
<1>4. /\ known' = known => Full' = Full /\ \A j \in 1..3 : Short(j)' <=> Short(j)
  BY DEF Full, Short
<1>5. CASE \E s \in Samples(E, Count - Len(p)) :
             /\ job' = [job EXCEPT !.at = "delete", !.picked = @ \o s]
             /\ UNCHANGED <<queue, known>>
  <2>1. PICK s \in Samples(E, Count - Len(p)) :
          /\ job' = [job EXCEPT !.at = "delete", !.picked = @ \o s]
          /\ UNCHANGED <<queue, known>>
    BY <1>5
  <2>2. /\ E \in SUBSET Questions /\ E \cap Range(p) = {} /\ Count - Len(p) \in Nat
        /\ Cardinality(E) = Cardinality(Questions) - Len(p)
    BY <1>3, DraftSize
  <2> HIDE DEF E
  <2>3. /\ Draft(p \o s) /\ Range(p \o s) = Range(p) \cup Range(s)
        /\ Len(p \o s) = Len(p) + Lesser(Count - Len(p), Cardinality(E))
    BY <1>3, <2>2, DraftGrows
  <2>4. /\ s \in Seq(Questions) /\ Len(s) = Lesser(Count - Len(p), Cardinality(E))
        /\ Cardinality(E) \in Nat
    BY <2>2, SampleType
  <2>5. Len(p \o s) = Full
    BY <1>3, <2>2, <2>3, <2>4, Numbers DEF Full, Lesser
  <2>6. Range(p \o s) \cap known # {} => \E j \in 1..3 : Short(j)
    <3>1. CASE Len(p) = Count
      <4>1. Len(s) = 0
        BY <1>3, <2>4, <3>1 DEF Lesser
      <4>2. Range(s) = {}
        <5>1. \A i \in 1..Len(s) : FALSE
          BY <4>1
        <5>2. \A x : x \in Range(s) <=> \E i \in 1..Len(s) : s[i] = x
          BY <2>4, RangeElements
        <5> QED BY <5>1, <5>2
      <4> QED BY <1>3, <2>3, <4>2
    <3> QED BY <1>3, <3>1
  <2> DEFINE q == p \o s
  <2>7. job' = [at |-> "delete", room |-> job.room, seen |-> job.seen,
                drawn |-> job.drawn, picked |-> q, filled |-> job.filled]
    BY <1>1, <2>1, JobFields
  <2>8. Draft(q) /\ Len(q) = Full /\ (Range(q) \cap known # {} => \E j \in 1..3 : Short(j))
    BY <2>3, <2>5, <2>6
  <2> HIDE DEF q
  <2>9. job' \in Jobs
    <3>1. /\ job.room \in Rooms /\ job.seen \in SUBSET Questions
          /\ job.filled \in BOOLEAN /\ q \in Seq(Questions)
      BY <1>1, <2>8, JobFields DEF Draft
    <3> QED BY <1>3, <2>7, <3>1 DEF Jobs, Stages
  <2>10. known' \subseteq Questions /\ queue' \in Seq(Rooms)
    BY <1>1, <2>1 DEF TypeOK
  <2>11. /\ job'.at = "delete" /\ job'.picked = q /\ known' = known /\ Full' = Full
         /\ \A j \in 1..3 : Short(j)' <=> Short(j)
    <3>1. known' = known
      BY <2>1
    <3> QED BY <1>4, <2>7, <3>1
  <2>12. SeenOnlyAsFiller'
    BY <2>8, <2>11 DEF SeenOnlyAsFiller
  <2>13. Len(q) <= Full
    BY <2>8, Numbers
  <2>14. JobInv'
    BY <2>8, <2>11, <2>13 DEF JobInv, Drawing, Drawn
  <2> QED BY <1>1, <2>9, <2>10, <2>12, <2>14, UnstoredType, UnstoredKeeps DEF Inv
<1>6. CASE /\ job' = [job EXCEPT !.at = "delete", !.filled = FALSE]
           /\ UNCHANGED <<queue, known>>
  <2>1. job' = [at |-> "delete", room |-> job.room, seen |-> job.seen,
                drawn |-> job.drawn, picked |-> p, filled |-> FALSE]
    BY <1>1, <1>6, JobFields
  <2>2. known' = known /\ queue' = queue
    BY <1>6
  <2>3. job' \in Jobs
    <3>1. job.room \in Rooms /\ job.seen \in SUBSET Questions /\ p \in Seq(Questions)
      BY <1>1, JobFields
    <3> QED BY <1>3, <2>1, <3>1 DEF Jobs, Stages
  <2>4. /\ job'.at = "delete" /\ job'.picked = p /\ job'.filled = FALSE /\ Full' = Full
    BY <1>4, <2>1, <2>2
  <2>5. SeenOnlyAsFiller'
    BY <1>3, <2>2, <2>4 DEF SeenOnlyAsFiller
  <2>6. JobInv'
    BY <1>3, <2>4 DEF JobInv, Drawing, Drawn
  <2>7. known' \subseteq Questions /\ queue' \in Seq(Rooms)
    BY <1>1, <2>2 DEF TypeOK
  <2> QED BY <1>1, <2>3, <2>5, <2>6, <2>7, UnstoredType, UnstoredKeeps DEF Inv
<1> QED BY <1>2, <1>5, <1>6 DEF Fill

----------------------------------------------------------------------------
(* The consumer stores the list.                                           *)

\* The loops and streams stand still.
Still == UNCHANGED <<counts, running, overtaken, left, hand, asked>>

\* A room whose list changes to one that does not lack, or that is excused.
LEMMA ListChanges ==
  ASSUME Inv, NEW r \in Rooms, NEW s, Draft(s), Len(s) <= Full,
         list' = [list EXCEPT ![r] = s], Still,
         lacking \ {r} \subseteq lacking',
         r \in lacking' \/ Len(s) = Full,
         reselected \subseteq reselected',
         \/ r \in reselected' \/ (asked[r] = << >> /\ hand[r] = {})
         \/ Range(s) \subseteq Range(list[r])
  PROVE  ListInv' /\ CountInv' /\ AskedInv'
<1>1. /\ list'[r] = s /\ \A t \in Rooms : t # r => list'[t] = list[t]
      /\ left' = left /\ running' = running /\ asked' = asked /\ hand' = hand
      /\ counts' = counts /\ overtaken' = overtaken
  BY DEF Inv, TypeOK, Still
<1>2. /\ \A t \in Rooms : Draft(list[t]) /\ Len(list[t]) <= Full /\ left[t] <= Full
      /\ \A t \in running \ (lacking \cup overtaken) : left[t] <= Len(list[t])
      /\ running \subseteq Rooms
  BY DEF Inv, ListInv, QuestionsSuffice, TypeOK
<1>3. Full' = Full
  BY DEF Full
<1>4. \A t \in Rooms : Draft(list'[t]) /\ Len(list'[t]) <= Full /\ left'[t] <= Full
  BY <1>1, <1>2
<1>5. \A t \in running' \ (lacking' \cup overtaken') : left'[t] <= Len(list'[t])
  BY <1>1, <1>2
<1>6. AskedInv'
  <2> SUFFICES ASSUME NEW t \in Rooms \ reselected'
               PROVE  /\ IsInjective(asked[t]) /\ Range(asked[t]) \cap Range(list'[t]) = {}
                      /\ hand[t] \cap (Range(asked[t]) \cup Range(list'[t])) = {}
    BY <1>1 DEF AskedInv
  <2>1. /\ IsInjective(asked[t]) /\ Range(asked[t]) \cap Range(list[t]) = {}
        /\ hand[t] \cap (Range(asked[t]) \cup Range(list[t])) = {}
    BY DEF Inv, AskedInv
  <2>2. CASE t = r
    BY <1>1, <2>1, <2>2, EmptyInjective
  <2> QED BY <1>1, <2>1, <2>2
<1>7. CountInv'
  <2> SUFFICES ASSUME NEW t \in Rooms, NEW c \in counts[t]
               PROVE  /\ c.rounds <= Full
                      /\ ~c.stale /\ t \notin lacking' => c.rounds <= Len(list'[t])
    BY <1>1, <1>3 DEF CountInv
  <2>1. /\ c.rounds <= Full
        /\ ~c.stale /\ t \notin lacking => c.rounds <= Len(list[t])
    BY DEF Inv, CountInv
  <2> QED BY <1>1, <2>1
<1> QED BY <1>3, <1>4, <1>5, <1>6, <1>7 DEF ListInv, QuestionsSuffice

LEMMA EmptyListKeeps ==
  ASSUME Inv, NEW r \in Rooms, EmptyList(r), Still, reselected' = reselected
  PROVE  /\ ListInv' /\ CountInv' /\ AskedInv' /\ list' \in [Rooms -> Seq(Questions)]
         /\ lacking' \subseteq Rooms /\ list'[r] = << >>
         /\ \A t \in Rooms : list[t] = << >> => list'[t] = << >>
<1>1. list \in [Rooms -> Seq(Questions)] /\ lacking \subseteq Rooms
  BY DEF Inv, TypeOK
<1>2. /\ << >> \in Seq(Questions) /\ Draft(<< >>) /\ Len(<< >>) = 0 /\ 0 <= Full
      /\ Range(<< >>) = {}
  BY EmptySeq, EmptyInjective, Numbers DEF Draft
<1>3. list' = [list EXCEPT ![r] = << >>] /\ lacking' = lacking \cup {r}
  BY DEF EmptyList
<1>4. ListInv' /\ CountInv' /\ AskedInv'
  BY <1>2, <1>3, ListChanges
<1> QED BY <1>1, <1>2, <1>3, <1>4

LEMMA DeleteListStep ==
  ASSUME Inv, DeleteList
  PROVE  Inv'
<1>1. /\ job.at \in Stages /\ job.at = "delete" /\ TypeOK /\ Elsewhere
      /\ (Works \/ Fails) /\ reselected' = reselected
      /\ Still /\ faults' \in 0..MaxFaults
  BY FaultType DEF DeleteList, Stages, Inv, Elsewhere, loopVars, Still
<1>2. job.room \in Rooms
  BY <1>1, JobFields
<1>3. /\ ListInv' /\ CountInv' /\ AskedInv' /\ list' \in [Rooms -> Seq(Questions)]
      /\ lacking' \subseteq Rooms
  <2>1. CASE EmptyList(job.room)
    BY <1>1, <1>2, <2>1, EmptyListKeeps
  <2>2. CASE UNCHANGED listVars
    BY <1>1, <2>2
       DEF Inv, TypeOK, ListInv, QuestionsSuffice, CountInv, AskedInv, listVars, Full, Still
  <2> QED BY <2>1, <2>2 DEF DeleteList
<1>4. /\ job' \in Jobs /\ queue' \in Seq(Rooms) /\ known' \subseteq Questions
      /\ JobInv' /\ SeenOnlyAsFiller'
  <2>1. CASE Requeue
    BY <1>1, <2>1, RequeueType
  <2>2. CASE ~Requeue
    <3>1. /\ job' = [job EXCEPT !.at = "push"] /\ queue' = queue /\ known' = known
          /\ EmptyList(job.room)
      BY <2>2 DEF DeleteList
    <3>2. job' = [at |-> "push", room |-> job.room, seen |-> job.seen,
                  drawn |-> job.drawn, picked |-> job.picked, filled |-> job.filled]
      BY <1>1, <3>1, JobFields
    <3>3. job' \in Jobs
      BY <1>1, <3>2, JobFields DEF Jobs, Stages
    <3>4. list'[job.room] = << >>
      BY <1>1, <1>2, <3>1, EmptyListKeeps
    <3>5. /\ Draft(job.picked) /\ Len(job.picked) <= Full
          /\ job.filled => Len(job.picked) = Full
          /\ Range(job.picked) \cap known # {} => \E i \in 1..3 : Short(i)
      BY <1>1 DEF Inv, JobInv, Drawn, SeenOnlyAsFiller
    <3>6. /\ Full' = Full /\ \A i \in 1..3 : Short(i)' <=> Short(i)
      BY <3>1 DEF Full, Short
    <3>7. /\ job'.at = "push" /\ job'.room = job.room /\ job'.picked = job.picked
          /\ job'.filled = job.filled
      BY <3>2
    <3>8. SeenOnlyAsFiller'
      BY <3>1, <3>5, <3>6, <3>7 DEF SeenOnlyAsFiller
    <3>9. JobInv'
      BY <3>4, <3>5, <3>6, <3>7 DEF JobInv, Drawing, Drawn
    <3> QED BY <1>1, <3>1, <3>3, <3>8, <3>9 DEF TypeOK
  <2> QED BY <2>1, <2>2
<1> QED BY <1>1, <1>3, <1>4 DEF Inv, TypeOK, Elsewhere, loopVars

LEMMA StoreListKeeps ==
  ASSUME Inv, job.at = "push", StoreList, Still
  PROVE  /\ ListInv' /\ CountInv' /\ AskedInv' /\ list' \in [Rooms -> Seq(Questions)]
         /\ lacking' \subseteq Rooms /\ reselected' \subseteq Rooms
<1> DEFINE r == job.room
<1>1. r \in Rooms /\ job.picked \in Seq(Questions) /\ TypeOK
  BY JobFields DEF Inv, Stages
<1>2. /\ list[r] = << >> /\ Draft(job.picked) /\ Len(job.picked) <= Full
      /\ job.filled => Len(job.picked) = Full
  BY DEF Inv, JobInv, Stages, Drawn
<1>3. list[r] \o job.picked = job.picked
  BY <1>1, <1>2, ConcatEmptySeq
<1>4. /\ list' = [list EXCEPT ![r] = job.picked]
      /\ lacking' = IF job.filled THEN lacking \ {r} ELSE lacking \cup {r}
      /\ reselected' = IF asked[r] = << >> /\ hand[r] = {} THEN reselected
                                                         ELSE reselected \cup {r}
  BY <1>1, <1>3 DEF StoreList, TypeOK
<1> HIDE DEF r
<1>5. /\ lacking \ {r} \subseteq lacking'
      /\ r \in lacking' \/ Len(job.picked) = Full
      /\ reselected \subseteq reselected'
      /\ r \in reselected' \/ (asked[r] = << >> /\ hand[r] = {})
  <2>1. /\ lacking \ {r} \subseteq lacking'
        /\ r \in lacking' \/ Len(job.picked) = Full
    <3>1. CASE job.filled
      BY <1>2, <1>4, <3>1
    <3>2. CASE ~job.filled
      BY <1>4, <3>2
    <3> QED BY <3>1, <3>2
  <2>2. /\ reselected \subseteq reselected'
        /\ r \in reselected' \/ (asked[r] = << >> /\ hand[r] = {})
    BY <1>4
  <2> QED BY <2>1, <2>2
<1>6. ListInv' /\ CountInv' /\ AskedInv'
  BY <1>1, <1>2, <1>4, <1>5, ListChanges
<1> QED BY <1>1, <1>4, <1>6 DEF TypeOK

LEMMA PushListStep ==
  ASSUME Inv, PushList
  PROVE  Inv'
<1>1. /\ job.at \in Stages /\ job.at = "push" /\ TypeOK /\ Elsewhere
      /\ (Works \/ Fails)
      /\ Still /\ faults' \in 0..MaxFaults
  BY FaultType DEF PushList, Stages, Inv, Elsewhere, loopVars, Still
<1>2. /\ ListInv' /\ CountInv' /\ AskedInv' /\ list' \in [Rooms -> Seq(Questions)]
      /\ lacking' \subseteq Rooms /\ reselected' \subseteq Rooms
  <2>1. CASE StoreList
    BY <1>1, <2>1, StoreListKeeps
  <2>2. CASE UNCHANGED <<listVars, reselected>>
    BY <1>1, <2>2
       DEF Inv, TypeOK, ListInv, QuestionsSuffice, CountInv, AskedInv, listVars, Full, Still
  <2> QED BY <2>1, <2>2 DEF PushList
<1>3. /\ job' \in Jobs /\ queue' \in Seq(Rooms) /\ known' \subseteq Questions
      /\ JobInv' /\ SeenOnlyAsFiller'
  <2>1. CASE Requeue
    BY <1>1, <2>1, RequeueType
  <2>2. CASE ~Requeue
    <3>1. job' = [at |-> "idle"] /\ queue' = queue /\ known' = {}
      BY <2>2 DEF PushList, Idle
    <3> QED BY <1>1, <3>1
        DEF TypeOK, Jobs, Idle, JobInv, SeenOnlyAsFiller, Stages, Drawing, Drawn
  <2> QED BY <2>1, <2>2
<1> QED BY <1>1, <1>2, <1>3 DEF Inv, TypeOK, Elsewhere, loopVars

----------------------------------------------------------------------------
(* The game loop.                                                          *)

LEMMA LoopKeepsJob ==
  ASSUME Inv, UNCHANGED jobVars, \A r \in Rooms : list[r] = << >> => list'[r] = << >>
  PROVE  /\ JobInv' /\ SeenOnlyAsFiller'
         /\ job' \in Jobs /\ queue' \in Seq(Rooms) /\ known' \subseteq Questions
<1>1. job' = job /\ queue' = queue /\ known' = known
  BY DEF jobVars
<1>2. /\ Full' = Full /\ \A i \in 1..3 : Short(i)' <=> Short(i)
  BY <1>1 DEF Full, Short
<1>3. job.at = "push" => job.room \in Rooms /\ list[job.room] = << >>
  BY JobFields DEF Inv, JobInv, Stages
<1>4. SeenOnlyAsFiller'
  BY <1>1, <1>2 DEF Inv, SeenOnlyAsFiller
<1>5. JobInv'
  BY <1>1, <1>2, <1>3 DEF Inv, JobInv
<1> QED BY <1>1, <1>4, <1>5 DEF Inv, TypeOK

\* What a step of the stream or the loop of r leaves behind.
LEMMA LoopKeepsLists ==
  ASSUME Inv, NEW r \in Rooms, running' \subseteq running \cup {r}, lacking' = lacking,
         overtaken \ {r} \subseteq overtaken',
         list' = list \/ (list[r] # << >> /\ PopList(r)),
         left' \in [Rooms -> Nat],
         \A t \in Rooms : t # r => left'[t] = left[t],
         left'[r] <= Full,
         r \in running' \ (lacking' \cup overtaken') => left'[r] <= Len(list'[r])
  PROVE  /\ ListInv' /\ list' \in [Rooms -> Seq(Questions)]
         /\ left' \in [Rooms -> 0..Count]
         /\ Range(list'[r]) \subseteq Range(list[r])
         /\ \A t \in Rooms : t # r => list'[t] = list[t]
<1>1. /\ list \in [Rooms -> Seq(Questions)] /\ left \in [Rooms -> 0..Count]
      /\ running \subseteq Rooms
  BY DEF Inv, TypeOK
<1>2. /\ \A t \in Rooms : Draft(list[t]) /\ Len(list[t]) <= Full /\ left[t] <= Full
      /\ \A t \in running \ (lacking \cup overtaken) : left[t] <= Len(list[t])
  BY DEF Inv, ListInv, QuestionsSuffice
<1>3. /\ Draft(list'[r]) /\ Len(list'[r]) <= Full /\ Range(list'[r]) \subseteq Range(list[r])
      /\ \A t \in Rooms : t # r => list'[t] = list[t]
      /\ list' \in [Rooms -> Seq(Questions)]
  <2>1. CASE list' = list
    BY <1>1, <1>2, <2>1
  <2>2. CASE list[r] # << >> /\ PopList(r)
    <3>1. list' = [list EXCEPT ![r] = Tail(list[r])]
      BY <2>2 DEF PopList
    <3>2. /\ Tail(list[r]) \in Seq(Questions) /\ IsInjective(Tail(list[r]))
          /\ Len(Tail(list[r])) = Len(list[r]) - 1 /\ Len(list[r]) \in Nat
          /\ Range(Tail(list[r])) \subseteq Range(list[r])
      BY <1>1, <1>2, <2>2, TailInjective DEF Draft
    <3>a. Len(list[r]) <= Full /\ Full \in Nat
      BY <1>2, Numbers
    <3>3. Len(Tail(list[r])) <= Full
      BY <3>2, <3>a
    <3> QED BY <1>1, <3>1, <3>2, <3>3 DEF Draft
  <2> QED BY <2>1, <2>2
<1>4. Full' = Full
  BY DEF Full
<1>5. \A t \in Rooms : Draft(list'[t]) /\ Len(list'[t]) <= Full /\ left'[t] <= Full
  BY <1>2, <1>3
<1>6. \A t \in running' \ (lacking' \cup overtaken') : left'[t] <= Len(list'[t])
  BY <1>1, <1>2, <1>3
<1>8. left' \in [Rooms -> 0..Count]
  BY <1>5, Numbers
<1> QED BY <1>3, <1>4, <1>5, <1>6, <1>8 DEF ListInv, QuestionsSuffice

\* With each list its old self or shorter, no question comes back to it.
LEMMA AskedStays ==
  ASSUME Inv, NEW r \in Rooms, reselected' = reselected, asked' = asked,
         Range(list'[r]) \subseteq Range(list[r]),
         \A t \in Rooms : t # r => list'[t] = list[t] /\ hand'[t] = hand[t],
         hand'[r] \subseteq hand[r]
  PROVE  AskedInv'
BY DEF Inv, AskedInv

\* The counts of r as they were, fewer of them, or overtaken by a pop.
LEMMA CountsKept ==
  ASSUME Inv, NEW r \in Rooms, lacking' = lacking,
         \/ list' = list /\ UNCHANGED counts
         \/ list' = list /\ \E c \in counts[r] : counts' = [counts EXCEPT ![r] = @ \ {c}]
         \/ PopList(r)
  PROVE  CountInv' /\ counts' \in [Rooms -> SUBSET Counts]
<1>1. /\ counts \in [Rooms -> SUBSET Counts] /\ list \in [Rooms -> Seq(Questions)]
      /\ Full' = Full
      /\ \A t \in Rooms : \A c \in counts[t] :
           /\ c.rounds <= Full
           /\ ~c.stale /\ t \notin lacking => c.rounds <= Len(list[t])
  BY DEF Inv, TypeOK, CountInv, Full
<1>2. CASE list' = list /\ counts' = counts
  BY <1>1, <1>2 DEF CountInv
<1>3. CASE list' = list /\ \E c \in counts[r] : counts' = [counts EXCEPT ![r] = @ \ {c}]
  <2>1. /\ counts' \in [Rooms -> SUBSET Counts]
        /\ \A t \in Rooms : counts'[t] \subseteq counts[t]
    BY <1>1, <1>3
  <2> QED BY <1>1, <1>3, <2>1 DEF CountInv
<1>4. CASE PopList(r)
  <2> DEFINE O == {[c EXCEPT !.stale = TRUE] : c \in counts[r]}
  <2>1. counts' = [counts EXCEPT ![r] = O] /\ list' = [list EXCEPT ![r] = Tail(list[r])]
    BY <1>4 DEF PopList
  <2>2. \A d \in O : d \in Counts /\ d.stale = TRUE /\ d.rounds <= Full
    <3> SUFFICES ASSUME NEW c \in counts[r]
                 PROVE  LET d == [c EXCEPT !.stale = TRUE]
                        IN  d \in Counts /\ d.stale = TRUE /\ d.rounds <= Full
      OBVIOUS
    <3>1. c \in Counts /\ c.rounds <= Full
      BY <1>1
    <3> QED BY <3>1 DEF Counts
  <2>3. O \subseteq Counts
    BY <2>2
  <2> HIDE DEF O
  <2>4. /\ counts'[r] = O /\ \A t \in Rooms : t # r => counts'[t] = counts[t]
        /\ counts' \in [Rooms -> SUBSET Counts]
        /\ \A t \in Rooms : t # r => list'[t] = list[t]
    BY <1>1, <2>1, <2>3
  <2>5. \A t \in Rooms : \A c \in counts'[t] :
          /\ c.rounds <= Full
          /\ ~c.stale /\ t \notin lacking' => c.rounds <= Len(list'[t])
    BY <1>1, <2>2, <2>4
  <2> QED BY <1>1, <2>4, <2>5 DEF CountInv
<1> QED BY <1>2, <1>3, <1>4

LEMMA StopsType ==
  ASSUME TypeOK, NEW r \in Rooms, Stops(r)
  PROVE  /\ running' \subseteq running /\ r \notin running' /\ running' \subseteq Rooms
         /\ overtaken' = overtaken \ {r}
         /\ left' \in [Rooms -> Nat] /\ left'[r] = 0
         /\ \A t \in Rooms : t # r => left'[t] = left[t] /\ hand'[t] = hand[t]
         /\ played' \in [Rooms -> SUBSET Questions]
         /\ hand' \in [Rooms -> SUBSET Questions] /\ hand'[r] = {}
BY BankAssumption DEF TypeOK, Stops

LEMMA UncountedKeeps ==
  ASSUME Inv, Uncounted, LoopOnly, CountInv', counts' \in [Rooms -> SUBSET Counts]
  PROVE  Inv'
<1>1. /\ UNCHANGED <<unsent, queue, job, known, list, lacking, running, overtaken, left,
                     hand, played, asked, records, reselected, faults>>
      /\ UNCHANGED jobVars
  BY DEF Uncounted, LoopOnly, listVars, jobVars
<1>2. JobInv' /\ SeenOnlyAsFiller'
  BY <1>1, LoopKeepsJob
<1>3. ListInv' /\ AskedInv'
  BY <1>1 DEF Inv, ListInv, QuestionsSuffice, AskedInv, Full
<1>4. TypeOK'
  BY <1>1 DEF Inv, TypeOK
<1> QED BY <1>2, <1>3, <1>4 DEF Inv

LEMMA CountQuestionsStep ==
  ASSUME Inv, NEW r \in Rooms, CountQuestions(r)
  PROVE  Inv'
<1> DEFINE n == [rounds |-> Len(list[r]), stale |-> FALSE]
<1>1. /\ counts' = [counts EXCEPT ![r] = @ \cup {n}] /\ Uncounted /\ LoopOnly
      /\ list' = list /\ lacking' = lacking
  BY DEF CountQuestions, Uncounted, listVars
<1>2. /\ Len(list[r]) \in Nat /\ Len(list[r]) <= Full /\ Full <= Count
      /\ Count \in Nat /\ Full \in Nat
  BY DraftSize, Numbers DEF Inv, ListInv
<1>3. n \in Counts /\ n.rounds = Len(list[r])
  <2>1. Len(list[r]) \in 0..Count
    BY <1>2
  <2> QED BY <2>1 DEF Counts
<1> HIDE DEF n
<1>4. counts' \in [Rooms -> SUBSET Counts]
  BY <1>1, <1>3 DEF Inv, TypeOK
<1>5. \A t \in Rooms : \A c \in counts'[t] : c \in counts[t] \/ (t = r /\ c = n)
  BY <1>1 DEF Inv, TypeOK
<1>6. \A t \in Rooms : \A c \in counts'[t] :
        /\ c.rounds <= Full
        /\ ~c.stale /\ t \notin lacking => c.rounds <= Len(list[t])
  <2> SUFFICES ASSUME NEW t \in Rooms, NEW c \in counts'[t]
               PROVE  /\ c.rounds <= Full
                      /\ ~c.stale /\ t \notin lacking => c.rounds <= Len(list[t])
    OBVIOUS
  <2>1. CASE c \in counts[t]
    BY <2>1 DEF Inv, CountInv
  <2>2. CASE t = r /\ c = n
    BY <1>2, <1>3, <2>2
  <2> QED BY <1>5, <2>1, <2>2
<1>7. CountInv'
  BY <1>1, <1>6 DEF CountInv, Full
<1> QED BY <1>1, <1>4, <1>7, UncountedKeeps

LEMMA JoinStep ==
  ASSUME Inv, NEW r \in Rooms, Join(r)
  PROVE  Inv'
<1>1. /\ \E c \in counts[r] : counts' = [counts EXCEPT ![r] = @ \ {c}]
      /\ Uncounted /\ LoopOnly /\ list' = list /\ lacking' = lacking
  BY DEF Join, Uncounted, listVars
<1>2. CountInv' /\ counts' \in [Rooms -> SUBSET Counts]
  BY <1>1, CountsKept
<1> QED BY <1>1, <1>2, UncountedKeeps

LEMMA OpenStep ==
  ASSUME Inv, NEW r \in Rooms, Open(r)
  PROVE  Inv'
<1>1. /\ list' = list /\ lacking' = lacking /\ reselected' = reselected /\ asked' = asked
      /\ hand' = hand /\ played' = played /\ running' = running \cup {r}
      /\ UNCHANGED jobVars /\ UNCHANGED <<unsent, records, faults>> /\ TypeOK
  BY DEF Open, LoopOnly, listVars, Inv
<1>2. PICK c \in counts[r] :
        /\ UNCHANGED counts \/ counts' = [counts EXCEPT ![r] = @ \ {c}]
        /\ left' = [left EXCEPT ![r] = c.rounds]
        /\ overtaken' = IF c.stale THEN overtaken \cup {r} ELSE overtaken \ {r}
  BY DEF Open
<1>3. c \in Counts /\ c.rounds \in Nat /\ c.rounds <= Full
      /\ (~c.stale /\ r \notin lacking => c.rounds <= Len(list[r]))
  BY <1>1, BankAssumption DEF Inv, TypeOK, Counts, CountInv
<1>4. /\ left' \in [Rooms -> Nat] /\ left'[r] = c.rounds
      /\ \A t \in Rooms : t # r => left'[t] = left[t]
  BY <1>1, <1>2, <1>3 DEF TypeOK
<1>5. /\ overtaken \ {r} \subseteq overtaken' /\ overtaken' \subseteq Rooms
      /\ r \notin overtaken' => ~c.stale
  BY <1>1, <1>2, <1>3 DEF TypeOK
<1>6. r \in running' \ (lacking' \cup overtaken') => left'[r] <= Len(list'[r])
  BY <1>1, <1>3, <1>4, <1>5
<1>7. /\ ListInv' /\ list' \in [Rooms -> Seq(Questions)] /\ left' \in [Rooms -> 0..Count]
  BY <1>1, <1>3, <1>4, <1>5, <1>6, LoopKeepsLists
<1>8. AskedInv'
  BY <1>1, AskedStays
<1>9. CountInv' /\ counts' \in [Rooms -> SUBSET Counts]
  BY <1>1, <1>2, CountsKept
<1>10. /\ JobInv' /\ SeenOnlyAsFiller'
       /\ job' \in Jobs /\ queue' \in Seq(Rooms) /\ known' \subseteq Questions
  BY <1>1, LoopKeepsJob
<1>11. TypeOK'
  BY <1>1, <1>5, <1>7, <1>9, <1>10 DEF TypeOK
<1> QED BY <1>7, <1>8, <1>9, <1>10, <1>11 DEF Inv

\* The steps that end a loop without asking.
LEMMA StopStep ==
  ASSUME Inv, NEW r \in Rooms, Stops(r), asked' = asked, LoopOnly, Works \/ Fails,
         lacking' = lacking,
         UNCHANGED <<list, counts>> \/ (list[r] # << >> /\ PopList(r)),
         records' \subseteq Documents
  PROVE  Inv'
<1>1. /\ TypeOK /\ reselected' = reselected /\ unsent' = unsent /\ UNCHANGED jobVars
      /\ faults' \in 0..MaxFaults
  BY FaultType DEF Inv, LoopOnly
<1>2. /\ running' \subseteq running /\ r \notin running' /\ running' \subseteq Rooms
      /\ overtaken' = overtaken \ {r}
      /\ left' \in [Rooms -> Nat] /\ left'[r] = 0
      /\ \A t \in Rooms : t # r => left'[t] = left[t] /\ hand'[t] = hand[t]
      /\ played' \in [Rooms -> SUBSET Questions]
      /\ hand' \in [Rooms -> SUBSET Questions] /\ hand'[r] = {}
  BY <1>1, StopsType
<1>3. 0 <= Full
  BY Numbers
<1>a. list' = list \/ (list[r] # << >> /\ PopList(r))
  OBVIOUS
<1>4. /\ ListInv' /\ list' \in [Rooms -> Seq(Questions)]
      /\ left' \in [Rooms -> 0..Count] /\ Range(list'[r]) \subseteq Range(list[r])
      /\ \A t \in Rooms : t # r => list'[t] = list[t]
  BY <1>1, <1>2, <1>3, <1>a, LoopKeepsLists
<1>5. \A t \in Rooms : list[t] = << >> => list'[t] = << >>
  BY <1>1 DEF PopList, TypeOK
<1>6. /\ JobInv' /\ SeenOnlyAsFiller'
      /\ job' \in Jobs /\ queue' \in Seq(Rooms) /\ known' \subseteq Questions
  BY <1>1, <1>5, LoopKeepsJob
<1>7. CountInv' /\ counts' \in [Rooms -> SUBSET Counts]
  BY CountsKept
<1>8. AskedInv'
  BY <1>1, <1>2, <1>4, AskedStays
<1>9. TypeOK'
  BY <1>1, <1>2, <1>4, <1>6, <1>7 DEF TypeOK
<1> QED BY <1>4, <1>6, <1>7, <1>8, <1>9 DEF Inv

LEMMA PopStep ==
  ASSUME Inv, NEW r \in Rooms, Pop(r)
  PROVE  Inv'
<1>1. /\ r \in running /\ left[r] > 0 /\ list[r] # << >> /\ hand[r] = {} /\ TypeOK
      /\ lacking' = lacking /\ records' = records /\ asked' = asked /\ LoopOnly
      /\ UNCHANGED jobVars /\ unsent' = unsent /\ reselected' = reselected
  BY DEF Pop, Inv, LoopOnly
<1>2. CASE Fails /\ Stops(r) /\ (PopList(r) \/ UNCHANGED <<list, counts>>)
  BY <1>1, <1>2, StopStep DEF TypeOK
<1>3. CASE Works /\ PopList(r) /\ InHand(r)
  <2> DEFINE q == Head(list[r])
  <2>1. /\ list \in [Rooms -> Seq(Questions)] /\ asked \in [Rooms -> Seq(Questions)]
        /\ left \in [Rooms -> 0..Count] /\ Count \in Nat /\ Full \in Nat
        /\ hand \in [Rooms -> SUBSET Questions]
        /\ \A t \in Rooms : Draft(list[t]) /\ Len(list[t]) <= Full /\ left[t] <= Full
        /\ \A t \in running \ (lacking \cup overtaken) : left[t] <= Len(list[t])
    BY <1>1, BankAssumption, Numbers DEF Inv, TypeOK, ListInv, QuestionsSuffice
  <2>2. /\ list' = [list EXCEPT ![r] = Tail(list[r])]
        /\ list'[r] = Tail(list[r])
    BY <1>3, <2>1 DEF PopList
  <2>3. /\ Len(Tail(list[r])) = Len(list[r]) - 1 /\ Len(list[r]) \in Nat
        /\ q \in Questions /\ q \in Range(list[r]) /\ q \notin Range(Tail(list[r]))
    BY <1>1, <2>1, TailInjective DEF Draft
  <2>4. /\ left' = [left EXCEPT ![r] = @ - 1] /\ hand' = [hand EXCEPT ![r] = {q}]
        /\ running' = running /\ overtaken' = overtaken /\ played' = played
    BY <1>3 DEF InHand
  <2> HIDE DEF q
  <2>5. /\ left' \in [Rooms -> Nat] /\ left'[r] = left[r] - 1
        /\ \A t \in Rooms : t # r => left'[t] = left[t]
        /\ hand' \in [Rooms -> SUBSET Questions] /\ hand'[r] = {q}
        /\ \A t \in Rooms : t # r => hand'[t] = hand[t]
    BY <1>1, <2>1, <2>3, <2>4
  <2>6. left[r] \in Nat /\ left[r] <= Full
    BY <2>1
  <2>7. left'[r] <= Full
    BY <2>1, <2>5, <2>6
  <2>8. r \in running' \ (lacking' \cup overtaken') => left'[r] <= Len(list'[r])
    BY <1>1, <2>1, <2>2, <2>3, <2>4, <2>5, <2>6
  <2>9. list[r] # << >> /\ PopList(r)
    BY <1>1, <1>3
  <2>10. /\ ListInv' /\ list' \in [Rooms -> Seq(Questions)]
         /\ left' \in [Rooms -> 0..Count] /\ Range(list'[r]) \subseteq Range(list[r])
         /\ \A t \in Rooms : t # r => list'[t] = list[t]
    BY <1>1, <2>4, <2>5, <2>7, <2>8, <2>9, LoopKeepsLists
  <2>11. AskedInv'
    <3> SUFFICES ASSUME NEW t \in Rooms \ reselected
                 PROVE  /\ IsInjective(asked[t])
                        /\ Range(asked[t]) \cap Range(list'[t]) = {}
                        /\ hand'[t] \cap (Range(asked[t]) \cup Range(list'[t])) = {}
      BY <1>1 DEF AskedInv
    <3>1. /\ IsInjective(asked[t]) /\ Range(asked[t]) \cap Range(list[t]) = {}
          /\ hand[t] \cap (Range(asked[t]) \cup Range(list[t])) = {}
      BY DEF Inv, AskedInv
    <3>2. CASE t = r
      BY <2>2, <2>3, <2>5, <2>10, <3>1, <3>2
    <3>3. CASE t # r
      BY <2>5, <2>10, <3>1, <3>3
    <3> QED BY <3>2, <3>3
  <2>12. CountInv' /\ counts' \in [Rooms -> SUBSET Counts]
    BY <1>1, <1>3, CountsKept
  <2>13. \A t \in Rooms : list[t] = << >> => list'[t] = << >>
    BY <1>1, <2>10
  <2>14. /\ JobInv' /\ SeenOnlyAsFiller'
         /\ job' \in Jobs /\ queue' \in Seq(Rooms) /\ known' \subseteq Questions
    BY <1>1, <2>13, LoopKeepsJob
  <2>15. TypeOK'
    BY <1>1, <1>3, <2>4, <2>5, <2>10, <2>12, <2>14 DEF TypeOK, Works
  <2> QED BY <2>10, <2>11, <2>12, <2>14, <2>15 DEF Inv
<1> QED BY <1>2, <1>3 DEF Pop

LEMMA AskStep ==
  ASSUME Inv, NEW r \in Rooms, Ask(r)
  PROVE  Inv'
<1>1. /\ TypeOK /\ list' = list /\ lacking' = lacking /\ records' = records /\ LoopOnly
      /\ UNCHANGED jobVars /\ unsent' = unsent /\ reselected' = reselected
  BY DEF Ask, Inv, LoopOnly, listVars
<1>2. CASE Fails /\ Stops(r) /\ UNCHANGED <<counts, asked>>
  BY <1>1, <1>2, StopStep DEF TypeOK
<1>3. CASE Works /\ UNCHANGED <<counts, running, overtaken, left>>
  <2>1. PICK q \in hand[r] :
          /\ asked' = [asked EXCEPT ![r] = Append(asked[r], q)]
          /\ played' = [played EXCEPT ![r] = @ \cup {q}]
          /\ hand' = [hand EXCEPT ![r] = {}]
    BY <1>3 DEF Ask, Stops
  <2>2. /\ q \in Questions /\ asked \in [Rooms -> Seq(Questions)]
        /\ hand \in [Rooms -> SUBSET Questions] /\ played \in [Rooms -> SUBSET Questions]
    BY <1>1 DEF TypeOK
  <2>3. Append(asked[r], q) \in Seq(Questions)
    BY <2>2, AppendProperties
  <2>4. /\ asked' \in [Rooms -> Seq(Questions)] /\ played' \in [Rooms -> SUBSET Questions]
        /\ hand' \in [Rooms -> SUBSET Questions] /\ hand'[r] = {}
        /\ asked'[r] = Append(asked[r], q)
        /\ \A t \in Rooms : t # r => asked'[t] = asked[t] /\ hand'[t] = hand[t]
    BY <2>1, <2>2, <2>3
  <2>5. AskedInv'
    <3> SUFFICES ASSUME NEW t \in Rooms \ reselected
                 PROVE  /\ IsInjective(asked'[t])
                        /\ Range(asked'[t]) \cap Range(list[t]) = {}
                        /\ hand'[t] \cap (Range(asked'[t]) \cup Range(list[t])) = {}
      BY <1>1 DEF AskedInv
    <3>1. /\ IsInjective(asked[t]) /\ Range(asked[t]) \cap Range(list[t]) = {}
          /\ hand[t] \cap (Range(asked[t]) \cup Range(list[t])) = {}
      BY DEF Inv, AskedInv
    <3>2. CASE t = r
      <4>1. q \notin Range(asked[r]) /\ q \notin Range(list[r])
        BY <2>1, <3>1, <3>2
      <4>2. /\ IsInjective(Append(asked[r], q))
            /\ Range(Append(asked[r], q)) = Range(asked[r]) \cup {q}
        BY <2>2, <3>1, <3>2, <4>1, AppendInjectiveSeq
      <4> QED BY <2>4, <3>1, <3>2, <4>1, <4>2
    <3>3. CASE t # r
      BY <2>4, <3>1, <3>3
    <3> QED BY <3>2, <3>3
  <2>6. ListInv' /\ CountInv'
    BY <1>1, <1>3 DEF Inv, ListInv, QuestionsSuffice, CountInv, Full
  <2>7. JobInv' /\ SeenOnlyAsFiller'
    BY <1>1, LoopKeepsJob
  <2>8. TypeOK'
    BY <1>1, <1>3, <2>4 DEF TypeOK, Works, jobVars
  <2> QED BY <2>5, <2>6, <2>7, <2>8 DEF Inv
<1> QED BY <1>2, <1>3 DEF Ask

LEMMA EndStep ==
  ASSUME Inv, NEW r \in Rooms, End(r)
  PROVE  Inv'
<1>1. /\ Stops(r) /\ asked' = asked /\ LoopOnly /\ list' = list /\ lacking' = lacking
      /\ counts' = counts
  BY DEF End, listVars
<1>2. Works \/ Fails
  BY DEF End
<1>3. /\ records \subseteq Documents
      /\ played[r] \subseteq Questions /\ PlayersOf[r] \subseteq Players
  BY BankAssumption DEF Inv, TypeOK
<1>4. records' \subseteq Documents
  BY <1>3 DEF End, Documents
<1> QED BY <1>1, <1>2, <1>4, StopStep

LEMMA RunDryStep ==
  ASSUME Inv, NEW r \in Rooms, RunDry(r)
  PROVE  Inv'
<1>1. /\ Stops(r) /\ asked' = asked /\ LoopOnly /\ list' = list /\ lacking' = lacking
      /\ records' = records /\ counts' = counts /\ Works
  BY DEF RunDry, listVars, Works
<1> QED BY <1>1, StopStep DEF Inv, TypeOK

----------------------------------------------------------------------------
(* The rest, and the theorems.                                             *)

LEMMA PublishStep ==
  ASSUME Inv, NEW r \in Rooms, Publish(r)
  PROVE  Inv'
<1>1. /\ UNCHANGED <<job, known, list, lacking, counts, running, overtaken, left, hand,
                     played, asked, records, reselected, faults>>
      /\ unsent' \subseteq unsent /\ queue' = Append(queue, r)
  BY DEF Publish, listVars, loopVars
<1>2. queue' \in Seq(Rooms)
  BY <1>1, AppendProperties DEF Inv, TypeOK
<1>3. TypeOK'
  BY <1>1, <1>2 DEF Inv, TypeOK
<1>4. /\ Full' = Full /\ \A i \in 1..3 : Short(i)' <=> Short(i)
  BY <1>1 DEF Full, Short
<1>5. JobInv' /\ SeenOnlyAsFiller'
  BY <1>1, <1>4 DEF Inv, JobInv, SeenOnlyAsFiller
<1>6. ListInv' /\ CountInv' /\ AskedInv'
  BY <1>1, <1>4 DEF Inv, ListInv, QuestionsSuffice, CountInv, AskedInv
<1> QED BY <1>3, <1>5, <1>6 DEF Inv

LEMMA ExpireStep ==
  ASSUME Inv, NEW r \in Rooms, Expire(r)
  PROVE  Inv'
<1>1. /\ EmptyList(r) /\ UNCHANGED jobVars /\ faults' = faults
      /\ Still /\ UNCHANGED <<unsent, played, records, reselected>>
  BY DEF Expire, loopVars, Still
<1>2. /\ ListInv' /\ CountInv' /\ AskedInv' /\ list' \in [Rooms -> Seq(Questions)]
      /\ lacking' \subseteq Rooms
      /\ \A t \in Rooms : list[t] = << >> => list'[t] = << >>
  BY <1>1, EmptyListKeeps
<1>3. /\ JobInv' /\ SeenOnlyAsFiller'
      /\ job' \in Jobs /\ queue' \in Seq(Rooms) /\ known' \subseteq Questions
  BY <1>1, <1>2, LoopKeepsJob
<1> QED BY <1>1, <1>2, <1>3 DEF Inv, TypeOK, Still

LEMMA ForgetStep ==
  ASSUME Inv, NEW h \in records, Forget(h)
  PROVE  Inv'
<1>1. /\ UNCHANGED <<unsent, queue, job, known, list, lacking, counts, running, overtaken,
                     left, hand, played, asked, reselected, faults>>
      /\ records' \subseteq records
  BY DEF Forget, jobVars, listVars, loopVars
<1>2. /\ Full' = Full /\ \A i \in 1..3 : Short(i)' <=> Short(i)
  BY <1>1 DEF Full, Short
<1>3. TypeOK'
  BY <1>1 DEF Inv, TypeOK
<1>4. JobInv' /\ SeenOnlyAsFiller'
  BY <1>1, <1>2 DEF Inv, JobInv, SeenOnlyAsFiller
<1>5. ListInv' /\ CountInv' /\ AskedInv'
  BY <1>1, <1>2 DEF Inv, ListInv, QuestionsSuffice, CountInv, AskedInv
<1> QED BY <1>3, <1>4, <1>5 DEF Inv

LEMMA RestartStep ==
  ASSUME Inv, Restart
  PROVE  Inv'
<1>1. /\ TypeOK /\ UNCHANGED <<unsent, asked, list, lacking, records, reselected>>
      /\ counts' = [r \in Rooms |-> {}] /\ running' = {} /\ overtaken' = {}
      /\ left' = [r \in Rooms |-> 0] /\ hand' = [r \in Rooms |-> {}]
      /\ played' = [r \in Rooms |-> {}] /\ faults' \in 0..MaxFaults
  BY FaultType DEF Restart, listVars, Inv
<1>2. /\ JobInv' /\ SeenOnlyAsFiller'
      /\ job' \in Jobs /\ queue' \in Seq(Rooms) /\ known' \subseteq Questions
  <2>1. CASE job = Idle /\ UNCHANGED jobVars
    BY <1>1, <2>1, LoopKeepsJob
  <2>2. CASE job # Idle /\ Requeue
    BY <1>1, <2>2, JobFields, RequeueType
  <2> QED BY <2>1, <2>2 DEF Restart
<1>3. ListInv' /\ CountInv' /\ AskedInv'
  <2>1. Full' = Full /\ 0 <= Full
    BY Numbers DEF Full
  <2>2. AskedInv' /\ CountInv'
    BY <1>1 DEF Inv, AskedInv, CountInv
  <2>3. ListInv'
    BY <1>1, <2>1 DEF Inv, ListInv, QuestionsSuffice
  <2> QED BY <2>2, <2>3
<1>4. TypeOK'
  BY <1>1, <1>2, BankAssumption DEF TypeOK
<1> QED BY <1>2, <1>3, <1>4 DEF Inv

LEMMA StutterStep == Inv /\ UNCHANGED vars => Inv'
<1> SUFFICES ASSUME Inv, UNCHANGED vars PROVE Inv'
  OBVIOUS
<1>1. /\ Full' = Full /\ \A i \in 1..3 : Short(i)' <=> Short(i)
  BY DEF Full, Short, vars, jobVars
<1>2. TypeOK'
  BY DEF Inv, TypeOK, vars, jobVars, listVars, loopVars
<1>3. JobInv' /\ SeenOnlyAsFiller'
  BY <1>1 DEF Inv, JobInv, SeenOnlyAsFiller, vars, jobVars, listVars
<1>4. ListInv' /\ CountInv' /\ AskedInv'
  BY <1>1 DEF Inv, ListInv, QuestionsSuffice, CountInv, AskedInv, vars, listVars, loopVars
<1> QED BY <1>2, <1>3, <1>4 DEF Inv

LEMMA Inductive == Spec => []Inv
<1>1. Init => Inv
  BY Initially
<1>2. Inv /\ [Next]_vars => Inv'
  <2> SUFFICES ASSUME Inv, [Next]_vars PROVE Inv'
    OBVIOUS
  <2>1. CASE \E r \in Rooms : Publish(r) \/ StreamStep(r) \/ LoopStep(r) \/ Expire(r)
    <3>1. PICK r \in Rooms : Publish(r) \/ StreamStep(r) \/ LoopStep(r) \/ Expire(r)
      BY <2>1
    <3>2. CASE LoopStep(r)
      BY <3>2, PopStep, AskStep, RunDryStep, EndStep DEF LoopStep
    <3>3. CASE StreamStep(r)
      BY <3>3, CountQuestionsStep, JoinStep, OpenStep DEF StreamStep
    <3> QED BY <3>1, <3>2, <3>3, PublishStep, ExpireStep
  <2>2. CASE ConsumerStep
    BY <2>2, DeliverStep, FetchSeenStep, DrawStep, FillStep, DeleteListStep, PushListStep
    DEF ConsumerStep
  <2>3. CASE \E h \in records : Forget(h)
    BY <2>3, ForgetStep
  <2>4. CASE Restart
    BY <2>4, RestartStep
  <2>5. CASE UNCHANGED vars
    BY <2>5, StutterStep
  <2> QED BY <2>1, <2>2, <2>3, <2>4, <2>5 DEF Next
<1> QED BY <1>1, <1>2, PTL DEF Spec

\* Lists, rounds and jobs stay what they are meant to be: in particular no
\* loop has more rounds than the match was made for (selection.go:33-89).
THEOREM TypeCorrect == Spec => []TypeOK
<1>1. Inv => TypeOK
  BY DEF Inv
<1> QED BY <1>1, Inductive, PTL

\* A question that a player has met in a recorded match is drawn again only
\* if a bucket is short of new ones (selection.go:23-32).
THEOREM SeenFillOnly == Spec => []SeenOnlyAsFiller
<1>1. Inv => SeenOnlyAsFiller
  BY DEF Inv
<1> QED BY <1>1, Inductive, PTL

\* No question comes twice in a room whose questions were not selected again
\* after the first was popped, whatever falls between the pop and the
\* broadcast (selection.go:21, 29-31, quiz.go:81-127).
THEOREM QuestionsUnique == Spec => []NoRepeatUnlessReselected
<1>1. Inv => NoRepeatUnlessReselected
  BY DEF Inv, AskedInv, NoRepeatUnlessReselected
<1> QED BY <1>1, Inductive, PTL

\* A loop whose list is whole, and whose number of rounds was not overtaken
\* between LLEN and getOrCreate, does not run out of questions
\* (quiz_handler.go:365-383, 479-482).
THEOREM EnoughQuestions == Spec => []QuestionsSuffice
<1>1. Inv => QuestionsSuffice
  BY DEF Inv, ListInv
<1> QED BY <1>1, Inductive, PTL
=============================================================================
