--------------------------- MODULE MatchesProofs ---------------------------
(***************************************************************************)
(* Matches.tla, and Tracker.tla within it, for every set of games and      *)
(* endpoints and every length of window, stability and confirmation.       *)
(*                                                                         *)
(* First the tracker alone: types, the meaning of the challenger           *)
(* book-keeping, the confidence of the bound endpoint, the refinement of   *)
(* EndpointBinding.  Then the ranking: the replay of a window, its tracks  *)
(* and scores, and what tops it.  Last the two together: the tracker is    *)
(* driven as Tracker.tla says, what tops the ranking is what is there, and *)
(* the session follows the game and nothing else.                          *)
(***************************************************************************)
EXTENDS Matches, FiniteSetTheorems, SequenceTheorems, WellFoundedInduction, TLAPS

LEMMA ConfidenceOrder ==
  /\ Confidence = {1, 2, 3}
  /\ Low = 1 /\ Medium = 2 /\ High = 3
BY DEF Confidence, Low, Medium, High

(* The candidates' fields, and that no candidate is None. *)
LEMMA CandidateFields ==
  ASSUME NEW c \in Candidate
  PROVE  /\ c # None
         /\ c.ep \in Endpoints /\ c.ep # None
         /\ c.conf \in Confidence
BY TrackerAssumption DEF Candidate

(* Raising a candidate's confidence to another's gives a candidate of the  *)
(* same endpoint.                                                          *)
LEMMA RaisedCandidate ==
  ASSUME NEW c \in Candidate, NEW n \in Confidence
  PROVE  /\ [c EXCEPT !.conf = n] \in Candidate
         /\ [c EXCEPT !.conf = n].ep = c.ep
         /\ [c EXCEPT !.conf = n].conf = n
BY DEF Candidate

(* What the history of a poll's run can be. *)
LEMMA StreakBounds ==
  ASSUME TypeOK, NEW e \in Endpoints \cup {None}
  PROVE  /\ Binding!StreakWith(e) \in 0..ConfirmPolls
         /\ e # None => Binding!StreakWith(e) > 0
         /\ e = None => Binding!StreakWith(e) = 0
BY TrackerAssumption DEF TypeOK, Binding!StreakWith

LEMMA OfferedType ==
  ASSUME NEW cand \in Candidate \cup {None}
  PROVE  Offered(cand) \in Endpoints \cup {None}
BY CandidateFields DEF Offered, Eligible

-----------------------------------------------------------------------------
(* Type correctness: in particular the challenger count never rests at the *)
(* confirming count (tracker.go's Observe).                                *)
THEOREM TypeCorrect == Spec => []TypeOK
<1>1. Init => TypeOK
  BY TrackerAssumption, ConfidenceOrder DEF Init, TypeOK
<1>2. TypeOK /\ [Next]_vars => TypeOK'
  <2> SUFFICES ASSUME TypeOK, [Next]_vars PROVE TypeOK'
    OBVIOUS
  <2>1. ASSUME NEW cand \in Candidate \cup {None}, Observe(cand)
        PROVE  TypeOK'
    <3>1. /\ seen' \in Candidate \cup {None}
          /\ last' \in Endpoints \cup {None}
          /\ streak' \in 0..ConfirmPolls
      BY <2>1, OfferedType, StreakBounds DEF Observe, Record
    <3>2. floor' \in Confidence
      BY <2>1 DEF Observe, TypeOK
    <3>3. /\ active' \in Candidate \cup {None}
          /\ pendingKey' \in Endpoints \cup {None}
          /\ pendingCount' \in 0..(ConfirmPolls - 1)
      <4>1. CASE IgnoreIneligible(cand)
        BY <4>1, TrackerAssumption DEF IgnoreIneligible, TypeOK
      <4>2. CASE FirstLock(cand)
        BY <4>2, TrackerAssumption DEF FirstLock, Eligible, TypeOK
      <4>3. CASE RefreshSame(cand)
        BY <4>3, TrackerAssumption DEF RefreshSame, Eligible, TypeOK
      <4>4. CASE RaiseConfidence(cand)
        BY <4>4, TrackerAssumption, RaisedCandidate, CandidateFields
           DEF RaiseConfidence, Eligible, TypeOK
      <4>5. CASE Challenge(cand)
        BY <4>5, TrackerAssumption, CandidateFields
           DEF Challenge, Challenges, Confirmed, Eligible, TypeOK
      <4> QED BY <2>1, <4>1, <4>2, <4>3, <4>4, <4>5 DEF Observe, ObserveCode
    <3> QED BY <3>1, <3>2, <3>3 DEF TypeOK
  <2>2. CASE RelaxFloor
    BY <2>2, ConfidenceOrder DEF RelaxFloor, LowerFloor, TypeOK, code, history
  <2>3. CASE UNCHANGED vars
    BY <2>3 DEF vars, TypeOK
  <2> QED BY <2>1, <2>2, <2>3 DEF Next, Poll
<1> QED BY <1>1, <1>2, PTL DEF Spec

-----------------------------------------------------------------------------
(* A step of Observe keeps PendingIsStreak: pendingCount is the length of  *)
(* the run of polls `last` has topped whenever `last` is on another server *)
(* than the bound endpoint.                                                *)
LEMMA PendingStep ==
  ASSUME TypeOK, PendingIsStreak,
         NEW cand \in Candidate \cup {None}, Observe(cand)
  PROVE  PendingIsStreak'
<1> USE TrackerAssumption
<1> DEFINE e == Offered(cand)
           n == Binding!StreakWith(e)
<1>1. last' = e /\ streak' = n
  BY DEF Observe, Record
<1>2. /\ n \in 0..ConfirmPolls
      /\ e # None => n > 0
      /\ e = None => n = 0
  BY OfferedType, StreakBounds
<1>3. CASE IgnoreIneligible(cand)
  BY <1>1, <1>2, <1>3 DEF IgnoreIneligible, Offered, PendingIsStreak
<1> SUFFICES ASSUME Eligible(cand) PROVE PendingIsStreak'
  BY <1>3 DEF Observe, ObserveCode, FirstLock, RefreshSame, RaiseConfidence, Challenge
<1>4. /\ cand \in Candidate /\ cand.ep # None /\ e = cand.ep /\ n > 0
  BY <1>2, CandidateFields DEF Eligible, Offered
<1> HIDE DEF n
<1>5. CASE FirstLock(cand)
  BY <1>1, <1>4, <1>5 DEF FirstLock, PendingIsStreak
<1>6. CASE RefreshSame(cand)
  BY <1>1, <1>4, <1>6 DEF RefreshSame, PendingIsStreak
<1>7. CASE RaiseConfidence(cand)
  <2>1. active \in Candidate /\ active'.ep = active.ep /\ active' # None
    BY <1>4, <1>7, CandidateFields, RaisedCandidate DEF RaiseConfidence, TypeOK
  <2>2. ServerOf(cand.ep) = ServerOf(active.ep)
    BY <1>7 DEF RaiseConfidence, SameServer, ServerOf
  <2>3. pendingCount' = 0
    BY <1>7 DEF RaiseConfidence
  <2> QED BY <1>1, <1>4, <2>1, <2>2, <2>3 DEF PendingIsStreak, ServerOf
<1>8. CASE Challenge(cand)
  <2>1. active \in Candidate /\ ServerOf(cand.ep) # ServerOf(active.ep)
    BY <1>8 DEF Challenge, SameServer, ServerOf, TypeOK
  <2>2. Challenges(cand) >= ConfirmPolls
          => active' = cand /\ pendingCount' = 0
    BY <1>8 DEF Challenge, Confirmed
  <2>3. ~ (Challenges(cand) >= ConfirmPolls)
          => /\ active' = active /\ pendingKey' = cand.ep
             /\ pendingCount' = Challenges(cand)
             /\ Challenges(cand) < ConfirmPolls
    BY <1>8 DEF Challenge, Confirmed, Challenges, TypeOK
  <2>4. ~ (Challenges(cand) >= ConfirmPolls) => n = Challenges(cand)
    <3>1. CASE cand.ep = last
      BY <1>4, <2>1, <3>1 DEF n, Binding!StreakWith, Challenges, PendingIsStreak, TypeOK
    <3>2. CASE cand.ep # last
      <4>1. n = 1
        BY <1>4, <3>2 DEF n, Binding!StreakWith
      <4>2. Challenges(cand) = 1
        BY <1>8, <2>1, <3>2 DEF Challenge, Challenges, PendingIsStreak, TypeOK
      <4> QED BY <4>1, <4>2
    <3> QED BY <3>1, <3>2
  <2>5. CASE Challenges(cand) >= ConfirmPolls
    BY <1>1, <1>4, <2>2, <2>5, CandidateFields DEF PendingIsStreak
  <2>6. CASE ~ (Challenges(cand) >= ConfirmPolls)
    BY <1>1, <1>4, <2>1, <2>3, <2>4, <2>6, CandidateFields DEF PendingIsStreak, ServerOf
  <2> QED BY <2>5, <2>6
<1> QED BY <1>5, <1>6, <1>7, <1>8
        DEF Observe, ObserveCode, IgnoreIneligible

(* The challenger count is the run of polls the challenger has topped: the *)
(* fact the flap guard rests on.                                           *)
THEOREM PendingCountsTheStreak == Spec => []PendingIsStreak
<1>1. Init => PendingIsStreak
  BY DEF Init, PendingIsStreak
<1>2. TypeOK /\ PendingIsStreak /\ [Next]_vars => PendingIsStreak'
  <2> SUFFICES ASSUME TypeOK, PendingIsStreak, [Next]_vars PROVE PendingIsStreak'
    OBVIOUS
  <2>1. ASSUME NEW cand \in Candidate \cup {None}, Observe(cand)
        PROVE  PendingIsStreak'
    BY <2>1, PendingStep
  <2>2. CASE RelaxFloor
    BY <2>2 DEF RelaxFloor, LowerFloor, PendingIsStreak, ServerOf, code, history
  <2>3. CASE UNCHANGED vars
    BY <2>3 DEF vars, PendingIsStreak, ServerOf
  <2> QED BY <2>1, <2>2, <2>3 DEF Next, Poll
<1> QED BY <1>1, <1>2, TypeCorrect, PTL DEF Spec

(* Nothing below the floor binds, refreshes or survives a refresh.         *)
THEOREM FloorIsMet == Spec => []ActiveMeetsFloor
<1>1. Init => ActiveMeetsFloor
  BY DEF Init, ActiveMeetsFloor
<1>2. TypeOK /\ ActiveMeetsFloor /\ [Next]_vars => ActiveMeetsFloor'
  <2> SUFFICES ASSUME TypeOK, ActiveMeetsFloor, [Next]_vars PROVE ActiveMeetsFloor'
    OBVIOUS
  <2>1. ASSUME NEW cand \in Candidate \cup {None}, Observe(cand)
        PROVE  ActiveMeetsFloor'
    <3>1. floor' = floor /\ floor \in {1, 2, 3}
      BY <2>1, ConfidenceOrder DEF Observe, TypeOK
    <3>2. CASE RaiseConfidence(cand)
      <4>1. active \in Candidate /\ cand \in Candidate /\ cand.conf >= floor
        BY <3>2 DEF RaiseConfidence, Eligible, TypeOK
      <4>2. active'.conf = cand.conf \/ active' = active
        BY <3>2, <4>1, CandidateFields, RaisedCandidate DEF RaiseConfidence
      <4> QED BY <3>1, <4>1, <4>2 DEF ActiveMeetsFloor
    <3>3. CASE ~ RaiseConfidence(cand)
      BY <2>1, <3>1, <3>3
         DEF Observe, ObserveCode, IgnoreIneligible, FirstLock, RefreshSame, Challenge,
             Eligible, ActiveMeetsFloor
    <3> QED BY <3>2, <3>3
  <2>2. CASE RelaxFloor
    <3>1. active # None => active.conf \in {1, 2, 3}
      BY CandidateFields, ConfidenceOrder DEF TypeOK
    <3> QED BY <2>2, <3>1, ConfidenceOrder
            DEF RelaxFloor, LowerFloor, ActiveMeetsFloor, TypeOK, code
  <2>3. CASE UNCHANGED vars
    BY <2>3 DEF vars, ActiveMeetsFloor
  <2> QED BY <2>1, <2>2, <2>3 DEF Next, Poll
<1> QED BY <1>1, <1>2, TypeCorrect, PTL DEF Spec

-----------------------------------------------------------------------------
(* Refinement: the tracker's book-keeping moves the binding exactly when   *)
(* EndpointBinding says, so a flow that tops fewer than ConfirmPolls polls *)
(* in a row never fragments the session.                                   *)

(* The bound endpoint after a poll is the one EndpointBinding computes.    *)
LEMMA BindingMoves ==
  ASSUME TypeOK, PendingIsStreak,
         NEW cand \in Candidate \cup {None}, Observe(cand)
  PROVE  LET bound == IF active = None THEN None ELSE active.ep
         IN  (IF active' = None THEN None ELSE active'.ep)
               = IF Binding!TakesOver(Offered(cand)) THEN Offered(cand) ELSE bound
<1> USE TrackerAssumption
<1> DEFINE e == Offered(cand)
<1>1. CASE IgnoreIneligible(cand)
  BY <1>1 DEF IgnoreIneligible, Offered, Binding!TakesOver
<1>2. CASE Eligible(cand)
  <2>1. cand \in Candidate /\ cand # None /\ cand.ep # None /\ e = cand.ep
    BY <1>2, CandidateFields DEF Eligible, Offered
  <2>2. CASE FirstLock(cand)
    BY <2>1, <2>2 DEF FirstLock, Binding!TakesOver
  <2>3. ASSUME active # None
        PROVE  active \in Candidate /\ active.ep # None
    BY <2>3, CandidateFields DEF TypeOK
  <2>4. ASSUME active # None, Binding!ServerOf(cand.ep) = Binding!ServerOf(active.ep)
        PROVE  ~ Binding!TakesOver(e)
    BY <2>1, <2>3, <2>4 DEF Binding!TakesOver
  <2>5. CASE RefreshSame(cand)
    BY <2>1, <2>4, <2>5 DEF RefreshSame
  <2>6. CASE RaiseConfidence(cand)
    <3>1. active # None /\ active' # None /\ active'.ep = active.ep
      BY <2>1, <2>3, <2>6, CandidateFields, RaisedCandidate DEF RaiseConfidence
    <3>2. Binding!ServerOf(cand.ep) = Binding!ServerOf(active.ep)
      BY <2>6 DEF RaiseConfidence, SameServer, Binding!ServerOf
    <3> QED BY <2>4, <3>1, <3>2
  <2>7. CASE Challenge(cand)
    <3>1. /\ active # None
          /\ Binding!ServerOf(cand.ep) # Binding!ServerOf(active.ep)
          /\ ServerOf(cand.ep) # ServerOf(active.ep)
      BY <2>7 DEF Challenge, SameServer, Binding!ServerOf, ServerOf
    <3>2. Binding!StreakWith(e) >= ConfirmPolls <=> Challenges(cand) >= ConfirmPolls
      <4>1. CASE cand.ep = last
        BY <2>1, <3>1, <4>1
           DEF Binding!StreakWith, Challenges, PendingIsStreak, TypeOK
      <4>2. CASE cand.ep # last
        <5>1. Binding!StreakWith(e) = 1
          BY <2>1, <4>2 DEF Binding!StreakWith
        <5>2. Challenges(cand) = 1
          BY <2>1, <3>1, <4>2 DEF Challenges, PendingIsStreak, TypeOK
        <5> QED BY <5>1, <5>2
      <4> QED BY <4>1, <4>2
    <3>3. Binding!TakesOver(e) <=> Challenges(cand) >= ConfirmPolls
      BY <2>1, <2>3, <3>1, <3>2 DEF Binding!TakesOver
    <3> QED BY <2>1, <2>3, <2>7, <3>1, <3>3 DEF Challenge, Confirmed
  <2> QED BY <1>2, <2>2, <2>5, <2>6, <2>7
          DEF Observe, ObserveCode, IgnoreIneligible
<1> QED BY <1>1, <1>2
        DEF Observe, ObserveCode, FirstLock, RefreshSame, RaiseConfidence, Challenge

THEOREM TrackerRefinesBinding == Spec => ImplementsBinding
<1>1. Init => Binding!Init
  BY DEF Init, Binding!Init
<1>2. TypeOK /\ PendingIsStreak /\ [Next]_vars => [Binding!Next]_(Binding!vars)
  <2> SUFFICES ASSUME TypeOK, PendingIsStreak, [Next]_vars
               PROVE  [Binding!Next]_(Binding!vars)
    OBVIOUS
  <2>1. ASSUME NEW cand \in Candidate \cup {None}, Observe(cand)
        PROVE  Binding!Next
    <3>1. Offered(cand) \in Endpoints \cup {None}
      BY OfferedType
    <3>2. Binding!Poll(Offered(cand))
      BY <2>1, BindingMoves DEF Binding!Poll, Observe, Record
    <3> QED BY <3>1, <3>2 DEF Binding!Next
  <2>2. CASE RelaxFloor
    BY <2>2 DEF RelaxFloor, LowerFloor, code, history, Binding!vars
  <2>3. CASE UNCHANGED vars
    BY <2>3 DEF vars, Binding!vars
  <2> QED BY <2>1, <2>2, <2>3 DEF Next, Poll
<1> QED BY <1>1, <1>2, TypeCorrect, PendingCountsTheStreak, PTL
        DEF Spec, ImplementsBinding, Binding!Spec

-----------------------------------------------------------------------------
(* Counting *)

LEMMA LeastNumber ==
  ASSUME NEW S, S \subseteq Nat, S # {}
  PROVE  \E n \in S : \A m \in S : n <= m
<1>1. \E n \in S : \A m \in S : ~ (<<m, n>> \in OpToRel(<, Nat))
  BY NatLessThanWellFounded, WFMin
<1>2. PICK n \in S : \A m \in S : ~ (<<m, n>> \in OpToRel(<, Nat))
  BY <1>1
<1>3. ASSUME NEW m \in S PROVE n <= m
  <2>1. <<m, n>> \in Nat \X Nat
    OBVIOUS
  <2>2. <<m, n>>[1] < <<m, n>>[2] => <<m, n>> \in OpToRel(<, Nat)
    BY <2>1 DEF OpToRel
  <2>3. ~ (m < n)
    BY <1>2, <2>2
  <2> QED BY <2>3
<1> QED BY <1>3

(* The packets of a set of observations, one taken out at a time. *)
OneOf(T) == CHOOSE x \in T : TRUE

Small(S, n) == {T \in SUBSET S : Cardinality(T) <= n}

Summed(D, f) ==
  f = [T \in D |-> IF T = {} THEN 0 ELSE OneOf(T).packets + f[T \ {OneOf(T)}]]

LEMMA TakeOneOut ==
  ASSUME NEW S, IsFiniteSet(S), NEW T \in SUBSET S, T # {}
  PROVE  /\ OneOf(T) \in T /\ T \ {OneOf(T)} \in SUBSET S
         /\ Cardinality(T) \in Nat \ {0}
         /\ Cardinality(T \ {OneOf(T)}) = Cardinality(T) - 1
<1>1. OneOf(T) \in T
  BY DEF OneOf
<1>2. IsFiniteSet(T)
  BY FS_Subset
<1> QED BY <1>1, <1>2, FS_CardinalityType, FS_RemoveElement, FS_EmptySet

LEMMA SumExists ==
  ASSUME NEW S, IsFiniteSet(S), NEW n \in Nat
  PROVE  \E f : Summed(Small(S, n), f)
<1> DEFINE Wrong == {m \in Nat : ~ \E f : Summed(Small(S, m), f)}
<1> SUFFICES ASSUME Wrong # {} PROVE FALSE
  OBVIOUS
<1>1. PICK m \in Wrong : \A l \in Wrong : m <= l
  BY LeastNumber
<1>2. ASSUME NEW T \in Small(S, 0) PROVE T = {}
  <2>1. T \in SUBSET S /\ Cardinality(T) <= 0
    BY DEF Small
  <2>2. T # {} => Cardinality(T) \in Nat \ {0}
    BY <2>1, TakeOneOut
  <2> QED BY <2>1, <2>2
<1>3. CASE m = 0
  <2> DEFINE f == [T \in Small(S, 0) |-> 0]
  <2>1. Summed(Small(S, 0), f)
    BY <1>2 DEF Summed
  <2> QED BY <1>1, <1>3, <2>1
<1>4. CASE m # 0
  <2>1. m - 1 \in Nat /\ m - 1 \notin Wrong
    BY <1>1, <1>4
  <2>2. PICK f : Summed(Small(S, m - 1), f)
    BY <2>1
  <2> DEFINE g == [T \in Small(S, m) |->
                     IF T = {} THEN 0 ELSE OneOf(T).packets + f[T \ {OneOf(T)}]]
  <2>3. ASSUME NEW T \in Small(S, m - 1)
        PROVE  T \in Small(S, m) /\ g[T] = f[T]
    <3>1. T \in SUBSET S /\ Cardinality(T) <= m - 1 /\ Cardinality(T) \in Nat
      BY FS_Subset, FS_CardinalityType DEF Small
    <3>2. T \in Small(S, m)
      BY <2>1, <3>1 DEF Small
    <3>3. f[T] = IF T = {} THEN 0 ELSE OneOf(T).packets + f[T \ {OneOf(T)}]
      BY <2>2 DEF Summed
    <3> QED BY <3>2, <3>3
  <2>4. ASSUME NEW T \in Small(S, m), T # {}
        PROVE  T \ {OneOf(T)} \in Small(S, m - 1)
    <3>1. T \in SUBSET S /\ Cardinality(T) <= m
      BY DEF Small
    <3>2. /\ T \ {OneOf(T)} \in SUBSET S /\ Cardinality(T) \in Nat
          /\ Cardinality(T \ {OneOf(T)}) = Cardinality(T) - 1
      BY <2>4, <3>1, TakeOneOut
    <3>3. Cardinality(T \ {OneOf(T)}) <= m - 1
      BY <1>1, <3>1, <3>2
    <3> QED BY <3>2, <3>3 DEF Small
  <2>5. ASSUME NEW T \in Small(S, m)
        PROVE  g[T] = IF T = {} THEN 0 ELSE OneOf(T).packets + g[T \ {OneOf(T)}]
    <3>1. g[T] = IF T = {} THEN 0 ELSE OneOf(T).packets + f[T \ {OneOf(T)}]
      OBVIOUS
    <3>2. T # {} => g[T \ {OneOf(T)}] = f[T \ {OneOf(T)}]
      BY <2>3, <2>4
    <3> HIDE DEF g
    <3> QED BY <3>1, <3>2
  <2>6. g = [T \in Small(S, m) |-> g[T]]
    OBVIOUS
  <2> HIDE DEF g
  <2>7. Summed(Small(S, m), g)
    BY <2>5, <2>6, Zenon DEF Summed
  <2> QED BY <1>1, <2>7
<1> QED BY <1>3, <1>4

(* The packets of a finite set of observations are a natural number. *)
LEMMA PacketsAdded ==
  ASSUME NEW S, IsFiniteSet(S), \A o \in S : o.packets \in Nat
  PROVE  MapThenSumSet(LAMBDA o : o.packets, S) \in Nat
<1> DEFINE f == CHOOSE f : Summed(SUBSET S, f)
<1>1. Summed(SUBSET S, f)
  <2>1. Cardinality(S) \in Nat
    BY FS_CardinalityType
  <2>2. ASSUME NEW T \in SUBSET S PROVE Cardinality(T) <= Cardinality(S)
    BY FS_Subset
  <2>3. Small(S, Cardinality(S)) = SUBSET S
    BY <2>2 DEF Small
  <2>4. \E h : Summed(Small(S, Cardinality(S)), h)
    BY <2>1, SumExists
  <2> QED BY <2>3, <2>4
<1>2. MapThenSumSet(LAMBDA o : o.packets, S) = f[S]
  BY Zenon DEF MapThenSumSet, MapThenFoldSet, Summed, OneOf
<1> HIDE DEF f
<1> DEFINE Wrong == {n \in Nat : \E T \in SUBSET S : Cardinality(T) = n /\ f[T] \notin Nat}
<1>3. ASSUME Wrong # {} PROVE FALSE
  <2>1. PICK n \in Wrong : \A l \in Wrong : n <= l
    BY <1>3, LeastNumber
  <2>2. PICK T \in SUBSET S : Cardinality(T) = n /\ f[T] \notin Nat
    BY <2>1
  <2>3. f[T] = IF T = {} THEN 0 ELSE OneOf(T).packets + f[T \ {OneOf(T)}]
    BY <1>1 DEF Summed
  <2>4. T # {}
    BY <2>2, <2>3
  <2> DEFINE U == T \ {OneOf(T)}
  <2>5. /\ OneOf(T) \in T /\ U \in SUBSET S /\ Cardinality(T) \in Nat \ {0}
        /\ Cardinality(U) = Cardinality(T) - 1
    BY <2>4, TakeOneOut
  <2> HIDE DEF U
  <2>6. n - 1 \in Nat /\ n - 1 \notin Wrong /\ Cardinality(U) = n - 1
    BY <2>1, <2>2, <2>5
  <2>7. f[U] \in Nat
    BY <2>5, <2>6
  <2>8. f[T] = OneOf(T).packets + f[U] /\ OneOf(T).packets \in Nat
    BY <2>3, <2>4, <2>5 DEF U
  <2> QED BY <2>2, <2>7, <2>8
<1>4. f[S] \in Nat
  <2>1. Cardinality(S) \in Nat /\ S \in SUBSET S
    BY FS_CardinalityType
  <2>2. Cardinality(S) \notin Wrong
    BY <1>3
  <2> QED BY <2>1, <2>2
<1> QED BY <1>2, <1>4

-----------------------------------------------------------------------------
(* Tracks *)

(* The first n polls can be replayed. *)
Replayable(e, w, n) ==
  \E f : f = [k \in 0 .. n |-> IF k = 0 THEN Unseen ELSE AddPoll(f[k - 1], Of(e, w, k))]

LEMMA AllReplayable ==
  ASSUME NEW e, NEW w, NEW n \in Nat
  PROVE  Replayable(e, w, n)
<1> DEFINE Wrong == {m \in Nat : ~ Replayable(e, w, m)}
<1> SUFFICES ASSUME Wrong # {} PROVE FALSE
  OBVIOUS
<1>1. PICK m \in Wrong : \A l \in Wrong : m <= l
  BY LeastNumber
<1>2. CASE m = 0
  <2> DEFINE f == [k \in 0 .. 0 |-> Unseen]
  <2>1. f = [k \in 0 .. 0 |-> IF k = 0 THEN Unseen ELSE AddPoll(f[k - 1], Of(e, w, k))]
    OBVIOUS
  <2>2. Replayable(e, w, 0)
    BY <2>1 DEF Replayable
  <2> QED BY <1>1, <1>2, <2>2
<1>3. CASE m # 0
  <2>1. m \in Nat /\ m - 1 \in Nat /\ m - 1 \notin Wrong
    BY <1>1, <1>3
  <2>2. PICK f : f = [k \in 0 .. (m - 1) |->
                        IF k = 0 THEN Unseen ELSE AddPoll(f[k - 1], Of(e, w, k))]
    BY <2>1 DEF Replayable
  <2> DEFINE g == [k \in 0 .. m |-> IF k = m THEN AddPoll(f[m - 1], Of(e, w, m)) ELSE f[k]]
  <2>3. ASSUME NEW k \in 0 .. m
        PROVE  g[k] = IF k = 0 THEN Unseen ELSE AddPoll(g[k - 1], Of(e, w, k))
    <3>1. CASE k = m
      <4>1. g[k] = AddPoll(f[m - 1], Of(e, w, m)) /\ g[m - 1] = f[m - 1]
        BY <1>3, <2>1, <3>1
      <4> QED BY <1>3, <3>1, <4>1
    <3>2. CASE k # m
      <4>1. k \in 0 .. (m - 1) /\ g[k] = f[k] /\ (k # 0 => g[k - 1] = f[k - 1])
        BY <2>1, <3>2
      <4>2. f[k] = IF k = 0 THEN Unseen ELSE AddPoll(f[k - 1], Of(e, w, k))
        BY <2>2, <4>1
      <4> HIDE DEF g
      <4> QED BY <4>1, <4>2
    <3> QED BY <3>1, <3>2
  <2>4. g = [k \in 0 .. m |-> g[k]]
    OBVIOUS
  <2> HIDE DEF g
  <2>5. g = [k \in 0 .. m |-> IF k = 0 THEN Unseen ELSE AddPoll(g[k - 1], Of(e, w, k))]
    BY <2>3, <2>4, Zenon
  <2>6. Replayable(e, w, m)
    BY <2>5 DEF Replayable
  <2> QED BY <1>1, <2>6
<1> QED BY <1>2, <1>3

(* A track, poll by poll. *)
LEMMA TrackSteps ==
  ASSUME NEW e, NEW w, Len(w) \in Nat
  PROVE  /\ TrackOf(e, w)[0] = Unseen
         /\ \A k \in 1 .. Len(w) :
              TrackOf(e, w)[k] = AddPoll(TrackOf(e, w)[k - 1], Of(e, w, k))
<1> DEFINE f == TrackOf(e, w)
<1>1. f = [k \in 0 .. Len(w) |-> IF k = 0 THEN Unseen ELSE AddPoll(f[k - 1], Of(e, w, k))]
  <2>1. Replayable(e, w, Len(w))
    BY AllReplayable
  <2> QED BY <2>1, Zenon DEF TrackOf, Replayable
<1> HIDE DEF f
<1>2. f[0] = Unseen
  BY <1>1
<1>3. ASSUME NEW k \in 1 .. Len(w) PROVE f[k] = AddPoll(f[k - 1], Of(e, w, k))
  <2>1. k \in 0 .. Len(w) /\ k # 0
    OBVIOUS
  <2> QED BY <1>1, <2>1
<1> QED BY <1>2, <1>3 DEF f

Track ==
  [poll : Nat, bidir : BOOLEAN, packets : Nat,
   lastPoll : Nat, consecutive : Nat, maxConsecutive : Nat]

(* What one poll does to a track. *)
LEMMA PollAdded ==
  ASSUME NEW t \in Track, NEW mine, IsFiniteSet(mine),
         \A o \in mine : o.bidir \in BOOLEAN /\ o.packets \in Nat
  PROVE  LET u == AddPoll(t, mine) IN
         /\ u \in Track /\ u.poll = t.poll + 1
         /\ mine = {} => /\ u.lastPoll = t.lastPoll /\ u.bidir = t.bidir
                         /\ u.maxConsecutive = t.maxConsecutive
         /\ mine # {} => /\ u.lastPoll = t.poll + 1
                         /\ u.consecutive = ExtendRun(t)
                         /\ u.maxConsecutive >= t.maxConsecutive
                         /\ u.maxConsecutive >= u.consecutive
                         /\ t.bidir \/ (\E o \in mine : o.bidir) => u.bidir
<1> DEFINE u == AddPoll(t, mine)
<1>1. /\ t.poll \in Nat /\ t.bidir \in BOOLEAN /\ t.packets \in Nat /\ t.lastPoll \in Nat
      /\ t.consecutive \in Nat /\ t.maxConsecutive \in Nat
  BY DEF Track
<1>2. CASE mine = {}
  <2>1. u = [t EXCEPT !.poll = @ + 1]
    BY <1>2 DEF AddPoll
  <2> QED BY <1>1, <1>2, <2>1 DEF Track
<1>3. CASE mine # {}
  <2> DEFINE run   == ExtendRun(t)
             both  == t.bidir \/ \E o \in mine : o.bidir
             total == t.packets + MapThenSumSet(LAMBDA o : o.packets, mine)
  <2>1. run \in Nat
    BY <1>1 DEF ExtendRun
  <2>2. total \in Nat
    <3>1. MapThenSumSet(LAMBDA o : o.packets, mine) \in Nat
      BY PacketsAdded
    <3> QED BY <1>1, <3>1
  <2>3. both \in BOOLEAN
    OBVIOUS
  <2>4. u = [poll           |-> t.poll + 1,
             bidir          |-> both,
             packets        |-> total,
             lastPoll       |-> t.poll + 1,
             consecutive    |-> run,
             maxConsecutive |-> IF run > t.maxConsecutive THEN run ELSE t.maxConsecutive]
    BY <1>3, Zenon DEF AddPoll
  <2>5. t.bidir \/ (\E o \in mine : o.bidir) => both
    OBVIOUS
  <2> HIDE DEF run, both, total
  <2>6. /\ u \in Track /\ u.poll = t.poll + 1 /\ u.lastPoll = t.poll + 1
        /\ u.consecutive = run /\ u.bidir = both
        /\ u.maxConsecutive >= t.maxConsecutive /\ u.maxConsecutive >= run
    BY <1>1, <2>1, <2>2, <2>3, <2>4 DEF Track
  <2> QED BY <1>3, <2>5, <2>6 DEF run
<1> QED BY <1>2, <1>3

(* Seen in every poll from i to k. *)
SeenAll(e, w, i, k) == \A j \in i .. k : Of(e, w, j) # {}

(* What a track says of the first n polls. *)
Shows(e, w, n, t) ==
  /\ t \in Track /\ t.poll = n /\ t.lastPoll <= n
  /\ n > 0 => (t.lastPoll = n <=> Of(e, w, n) # {})
  /\ \A i \in 1 .. n : SeenAll(e, w, i, n) => t.consecutive >= n - i + 1
  /\ \A i, k \in 1 .. n : i <= k /\ SeenAll(e, w, i, k) => t.maxConsecutive >= k - i + 1
  /\ \A i \in 1 .. n : (\E o \in Of(e, w, i) : o.bidir) => t.bidir

LEMMA ShowsUnseen ==
  ASSUME NEW e, NEW w
  PROVE  Shows(e, w, 0, Unseen)
<1>1. /\ Unseen \in Track /\ Unseen.poll = 0 /\ Unseen.lastPoll = 0
  BY DEF Unseen, Track
<1> QED BY <1>1 DEF Shows

LEMMA ShowsOneMore ==
  ASSUME NEW e, NEW w, NEW n \in Nat, NEW t, Shows(e, w, n, t),
         IsFiniteSet(Of(e, w, n + 1)),
         \A o \in Of(e, w, n + 1) : o.bidir \in BOOLEAN /\ o.packets \in Nat
  PROVE  Shows(e, w, n + 1, AddPoll(t, Of(e, w, n + 1)))
<1> DEFINE mine == Of(e, w, n + 1)
           u    == AddPoll(t, mine)
<1>1. /\ t \in Track /\ t.poll = n /\ t.lastPoll <= n
      /\ n > 0 => (t.lastPoll = n <=> Of(e, w, n) # {})
  BY DEF Shows
<1>2. /\ u \in Track /\ u.poll = n + 1
      /\ mine = {} => /\ u.lastPoll = t.lastPoll /\ u.bidir = t.bidir
                      /\ u.maxConsecutive = t.maxConsecutive
      /\ mine # {} => /\ u.lastPoll = n + 1
                      /\ u.consecutive = ExtendRun(t)
                      /\ u.maxConsecutive >= t.maxConsecutive
                      /\ u.maxConsecutive >= u.consecutive
                      /\ t.bidir \/ (\E o \in mine : o.bidir) => u.bidir
  BY <1>1, PollAdded
<1> HIDE DEF u
<1>3. /\ t.consecutive \in Nat /\ t.maxConsecutive \in Nat /\ t.lastPoll \in Nat
      /\ u.consecutive \in Nat /\ u.maxConsecutive \in Nat
  BY <1>1, <1>2 DEF Track
<1>4. u.lastPoll <= n + 1 /\ (u.lastPoll = n + 1 <=> mine # {})
  <2> HIDE DEF mine
  <2> QED BY <1>1, <1>2, <1>3
<1>5. ASSUME NEW i \in 1 .. (n + 1), SeenAll(e, w, i, n + 1)
      PROVE  u.consecutive >= (n + 1) - i + 1
  <2>1. mine # {}
    <3>1. n + 1 \in i .. (n + 1)
      OBVIOUS
    <3> QED BY <1>5, <3>1 DEF SeenAll
  <2>2. u.consecutive = ExtendRun(t)
    BY <1>2, <2>1
  <2>3. CASE i = n + 1
    BY <1>3, <2>2, <2>3 DEF ExtendRun
  <2>4. CASE i # n + 1
    <3>1. i \in 1 .. n /\ n > 0 /\ n \in i .. (n + 1)
      BY <2>4
    <3>2. SeenAll(e, w, i, n)
      <4>1. ASSUME NEW j \in i .. n PROVE Of(e, w, j) # {}
        <5>1. j \in i .. (n + 1)
          OBVIOUS
        <5> QED BY <1>5, <5>1 DEF SeenAll
      <4> QED BY <4>1 DEF SeenAll
    <3>3. t.consecutive >= n - i + 1
      BY <3>1, <3>2 DEF Shows
    <3>4. t.lastPoll = t.poll
      BY <1>1, <1>5, <3>1 DEF SeenAll
    <3> QED BY <1>3, <2>2, <3>1, <3>3, <3>4 DEF ExtendRun
  <2> QED BY <2>3, <2>4
<1>6. ASSUME NEW i \in 1 .. (n + 1), NEW k \in 1 .. (n + 1), i <= k, SeenAll(e, w, i, k)
      PROVE  u.maxConsecutive >= k - i + 1
  <2>1. CASE k = n + 1
    <3>1. u.consecutive >= (n + 1) - i + 1
      BY <1>5, <1>6, <2>1
    <3>2. mine # {}
      <4>1. n + 1 \in i .. k
        BY <2>1
      <4> QED BY <1>6, <4>1 DEF SeenAll
    <3>3. u.maxConsecutive >= u.consecutive
      BY <1>2, <3>2
    <3> QED BY <1>3, <2>1, <3>1, <3>3
  <2>2. CASE k # n + 1
    <3>1. i \in 1 .. n /\ k \in 1 .. n
      BY <1>6, <2>2
    <3>2. t.maxConsecutive >= k - i + 1
      BY <1>6, <3>1 DEF Shows
    <3>3. u.maxConsecutive >= t.maxConsecutive
      BY <1>2, <1>3
    <3> QED BY <1>3, <3>2, <3>3
  <2> QED BY <2>1, <2>2
<1>7. ASSUME NEW i \in 1 .. (n + 1), \E o \in Of(e, w, i) : o.bidir
      PROVE  u.bidir
  <2>1. CASE i = n + 1
    BY <1>2, <1>7, <2>1
  <2>2. CASE i # n + 1
    <3>1. i \in 1 .. n
      BY <2>2
    <3>2. t.bidir
      BY <1>7, <3>1 DEF Shows
    <3> QED BY <1>2, <3>2
  <2> QED BY <2>1, <2>2
<1>8. Shows(e, w, n + 1, u)
  <2> HIDE DEF mine
  <2> QED BY <1>2, <1>4, <1>5, <1>6, <1>7 DEF Shows, mine
<1> QED BY <1>8 DEF u

(* A window of polls of the game recorded. *)
Polls(w) == Len(w) \in Nat /\ \A i \in 1 .. Len(w) : w[i] \subseteq game.flows

LEMMA SeenTyped ==
  ASSUME game \in Games, NEW e, NEW w, Polls(w), NEW i \in 1 .. Len(w)
  PROVE  /\ Of(e, w, i) \subseteq game.flows /\ IsFiniteSet(Of(e, w, i))
         /\ \A o \in Of(e, w, i) : o.bidir \in BOOLEAN /\ o.packets \in Nat
<1>1. w[i] \subseteq game.flows
  BY DEF Polls
<1>2. Of(e, w, i) \subseteq game.flows
  BY <1>1 DEF Of
<1>3. /\ IsFiniteSet(game.flows)
      /\ \A o \in game.flows : o.bidir \in BOOLEAN /\ o.packets \in Nat
  BY RankingAssumption
<1>4. IsFiniteSet(Of(e, w, i))
  BY <1>2, <1>3, FS_Subset
<1> QED BY <1>2, <1>3, <1>4

(* A replayed track says what the window shows. *)
LEMMA TrackShows ==
  ASSUME game \in Games, NEW e, NEW w, Polls(w)
  PROVE  Shows(e, w, Len(w), TrackOf(e, w)[Len(w)])
<1> DEFINE f == TrackOf(e, w)
           Wrong == {n \in Nat : n <= Len(w) /\ ~ Shows(e, w, n, f[n])}
<1>1. /\ Len(w) \in Nat /\ f[0] = Unseen
      /\ \A k \in 1 .. Len(w) : f[k] = AddPoll(f[k - 1], Of(e, w, k))
  BY TrackSteps DEF Polls
<1> HIDE DEF f
<1>2. Wrong = {}
  <2> SUFFICES ASSUME Wrong # {} PROVE FALSE
    OBVIOUS
  <2>1. PICK n \in Wrong : \A l \in Wrong : n <= l
    BY LeastNumber
  <2>2. n # 0
    BY <1>1, <2>1, ShowsUnseen
  <2> DEFINE m == n - 1
  <2>3. m \in Nat /\ n = m + 1 /\ m <= Len(w) /\ n \in 1 .. Len(w) /\ m \notin Wrong
    BY <1>1, <2>1, <2>2
  <2>4. Shows(e, w, m, f[m])
    BY <2>3
  <2>5. f[n] = AddPoll(f[m], Of(e, w, n))
    BY <1>1, <2>3
  <2> HIDE DEF m
  <2>6. /\ IsFiniteSet(Of(e, w, m + 1))
        /\ \A o \in Of(e, w, m + 1) : o.bidir \in BOOLEAN /\ o.packets \in Nat
    BY <2>3, SeenTyped
  <2>7. Shows(e, w, m + 1, AddPoll(f[m], Of(e, w, m + 1)))
    BY <2>3, <2>4, <2>6, ShowsOneMore
  <2>8. Shows(e, w, n, f[n])
    BY <2>3, <2>5, <2>7
  <2> QED BY <2>1, <2>8
<1> QED BY <1>1, <1>2 DEF f

-----------------------------------------------------------------------------
(* The ranking *)

Latest(e, w) == TrackOf(e, w)[Len(w)]

Entry(e, w) == [ep |-> e, track |-> Latest(e, w)]

Ranked(w) == {Rank(s) : s \in {t \in Replay(w) : SeenNow(t)}}

(* Seen in the latest poll, at a public address. *)
InTheRunning(e, w) == Of(e, w, Len(w)) # {} /\ Public(e)

LEMMA RankFields ==
  ASSUME NEW e, NEW w
  PROVE  /\ Rank(Entry(e, w)).ep = e
         /\ Rank(Entry(e, w)).conf = ConfidenceOf(e, Latest(e, w))
         /\ Rank(Entry(e, w)).score = Score(e, Latest(e, w))
BY DEF Rank, Entry

LEMMA RankedAre ==
  ASSUME game \in Games, NEW w, Polls(w), Len(w) > 0
  PROVE  /\ \A e \in Keys : InTheRunning(e, w) => Rank(Entry(e, w)) \in Ranked(w)
         /\ \A r \in Ranked(w) :
              \E e \in Keys : r = Rank(Entry(e, w)) /\ InTheRunning(e, w)
<1>1. ASSUME NEW e \in Keys
      PROVE  SeenNow(Entry(e, w)) <=> InTheRunning(e, w)
  <2>1. Shows(e, w, Len(w), Latest(e, w))
    BY TrackShows DEF Latest
  <2>2. /\ Latest(e, w).poll = Len(w)
        /\ Latest(e, w).lastPoll = Len(w) <=> Of(e, w, Len(w)) # {}
    BY <2>1 DEF Shows
  <2>3. Entry(e, w).ep = e /\ Entry(e, w).track = Latest(e, w)
    BY DEF Entry
  <2> QED BY <2>2, <2>3 DEF SeenNow, InTheRunning
<1>2. Replay(w) = {Entry(e, w) : e \in Keys}
  BY DEF Replay, Entry, Latest
<1>3. ASSUME NEW e \in Keys, InTheRunning(e, w) PROVE Rank(Entry(e, w)) \in Ranked(w)
  <2>1. Entry(e, w) \in Replay(w) /\ SeenNow(Entry(e, w))
    BY <1>1, <1>2, <1>3
  <2> QED BY <2>1 DEF Ranked
<1>4. ASSUME NEW r \in Ranked(w)
      PROVE  \E e \in Keys : r = Rank(Entry(e, w)) /\ InTheRunning(e, w)
  <2>1. PICK s \in Replay(w) : SeenNow(s) /\ r = Rank(s)
    BY DEF Ranked
  <2>2. PICK e \in Keys : s = Entry(e, w)
    BY <1>2, <2>1
  <2> QED BY <1>1, <2>1, <2>2
<1> QED BY <1>3, <1>4

(* The top is an endpoint seen in the latest poll. *)
LEMMA TopIsSeen ==
  ASSUME game \in Games, NEW w, Polls(w), Len(w) > 0,
         NEW c \in Tops(Candidates(w)), c # Nothing
  PROVE  /\ c.ep \in Keys /\ InTheRunning(c.ep, w)
         /\ c = [ep |-> c.ep, conf |-> c.conf]
         /\ c.conf \in Confidence
<1>1. PICK b \in Candidates(w) : c = [ep |-> b.ep, conf |-> b.conf]
  BY DEF Tops
<1>2. \E r \in Ranked(w) : b = r \/ b = [r EXCEPT !.conf = Low]
  BY <1>1 DEF Candidates, Preferred, Ranked
<1>3. PICK r \in Ranked(w) : b = r \/ b = [r EXCEPT !.conf = Low]
  BY <1>2
<1>4. PICK e \in Keys : r = Rank(Entry(e, w)) /\ InTheRunning(e, w)
  BY RankedAre
<1>5. b.ep = e /\ (b.conf = r.conf \/ b.conf = Low)
  BY <1>3, <1>4 DEF Rank, Entry
<1>6. r.conf \in Confidence /\ Low \in Confidence
  <2>1. r.conf = ConfidenceOf(e, Latest(e, w))
    BY <1>4, RankFields
  <2> QED BY <2>1, ConfidenceOrder DEF ConfidenceOf
<1> QED BY <1>1, <1>4, <1>5, <1>6

(* Against a flow that is seen, public and not on port 443, the top is one *)
(* that scores no less.                                                    *)
LEMMA TopScoresBest ==
  ASSUME game \in Games, NEW w, Polls(w), Len(w) > 0,
         NEW e \in Keys, InTheRunning(e, w), ~ Tls(e),
         NEW c \in Tops(Candidates(w))
  PROVE  /\ c.ep \in Keys /\ InTheRunning(c.ep, w)
         /\ c.conf = ConfidenceOf(c.ep, Latest(c.ep, w))
         /\ ~ (Score(e, Latest(e, w)) > Score(c.ep, Latest(c.ep, w)))
<1> DEFINE rest == {r \in Ranked(w) : ~ Tls(r.ep)}
           mine == Rank(Entry(e, w))
<1>1. mine \in rest
  BY RankedAre, RankFields
<1>2. Candidates(w) = rest
  BY <1>1 DEF Candidates, Preferred, Ranked
<1>3. PICK b \in rest : /\ c = [ep |-> b.ep, conf |-> b.conf]
                        /\ ~ Precedes(mine, b)
  BY <1>1, <1>2 DEF Tops
<1>4. PICK d \in Keys : b = Rank(Entry(d, w)) /\ InTheRunning(d, w)
  BY RankedAre
<1>5. c.ep = d /\ c.conf = ConfidenceOf(d, Latest(d, w)) /\ b.score = Score(d, Latest(d, w))
  BY <1>3, <1>4, RankFields
<1>6. ~ (mine.score > b.score)
  BY <1>3 DEF Precedes
<1> QED BY <1>4, <1>5, <1>6, RankFields

-----------------------------------------------------------------------------
(* What outranks what *)

LEMMA ScoreParts ==
  ASSUME NEW e, NEW t \in Track
  PROVE  \E u \in {0, 40}, s \in {0, 30}, b \in {0, 20}, v \in 0 .. 10, p \in {0, 15},
            x \in {-200, 0, 200} :
         /\ Score(e, t) = u + s + b + v + p + x
         /\ u = 40 <=> e.proto = "udp"
         /\ s = 30 <=> Stable(t)
         /\ b = 20 <=> t.bidir
         /\ game.ports = {} => p = 0
         /\ x = IF ~ game.valorant THEN 0 ELSE IF ValorantGame(e) THEN 200 ELSE -200
<1> DEFINE u == Bonus(e.proto = "udp", 40)
           s == Bonus(Stable(t), 30)
           b == Bonus(t.bidir, 20)
           v == Smaller(t.packets, 10)
           p == Bonus(e.port \in game.ports, 15)
           x == IF ~ game.valorant THEN 0 ELSE IF ValorantGame(e) THEN 200 ELSE -200
<1>1. Score(e, t) = u + s + b + v + p + x
  BY DEF Score
<1>2. /\ u \in {0, 40} /\ (u = 40 <=> e.proto = "udp")
      /\ s \in {0, 30} /\ (s = 30 <=> Stable(t))
      /\ b \in {0, 20} /\ (b = 20 <=> t.bidir)
      /\ p \in {0, 15} /\ (game.ports = {} => p = 0)
      /\ x \in {-200, 0, 200}
  BY DEF Bonus
<1>3. v \in 0 .. 10
  BY DEF Smaller, Track
<1> HIDE DEF u, s, b, v, p
<1> QED BY <1>1, <1>2, <1>3

(* A stable two-way UDP flow against a TCP connection. *)
LEMMA TcpIsOutranked ==
  ASSUME NEW e, NEW t \in Track, NEW d, NEW q \in Track,
         e.proto = "udp", Stable(t), t.bidir, d.proto # "udp"
  PROVE  Score(e, t) > Score(d, q)
<1>1. PICK v \in 0 .. 10, p \in {0, 15}, x \in {-200, 0, 200} :
        /\ Score(e, t) = 90 + v + p + x
        /\ x = IF ~ game.valorant THEN 0 ELSE IF ValorantGame(e) THEN 200 ELSE -200
  BY ScoreParts
<1>2. PICK s \in {0, 30}, b \in {0, 20}, v2 \in 0 .. 10, p2 \in {0, 15}, x2 \in {-200, 0, 200} :
        /\ Score(d, q) = s + b + v2 + p2 + x2
        /\ x2 = IF ~ game.valorant THEN 0 ELSE IF ValorantGame(d) THEN 200 ELSE -200
  BY ScoreParts
<1>3. ~ ValorantGame(d)
  BY DEF ValorantGame
<1>4. x2 <= x
  BY <1>1, <1>2, <1>3
<1> QED BY <1>1, <1>2, <1>4

(* ... and, without hints, against anything that is not one. *)
LEMMA LesserIsOutranked ==
  ASSUME NEW e, NEW t \in Track, NEW d, NEW q \in Track,
         game.ports = {}, ~ game.valorant,
         e.proto = "udp", Stable(t), t.bidir,
         ~ (d.proto = "udp" /\ Stable(q) /\ q.bidir)
  PROVE  Score(e, t) > Score(d, q)
<1>1. PICK v \in 0 .. 10 : Score(e, t) = 90 + v
  BY ScoreParts
<1>2. PICK u \in {0, 40}, s \in {0, 30}, b \in {0, 20}, v2 \in 0 .. 10 :
        /\ Score(d, q) = u + s + b + v2
        /\ u = 40 <=> d.proto = "udp"
        /\ s = 30 <=> Stable(q)
        /\ b = 20 <=> q.bidir
  BY ScoreParts
<1> QED BY <1>1, <1>2

LEMMA LatestIsATrack ==
  ASSUME game \in Games, NEW e, NEW w, Polls(w)
  PROVE  Latest(e, w) \in Track
BY TrackShows DEF Latest, Shows

LEMMA SteadyIsStable ==
  ASSUME game \in Games, NEW e, NEW w, Polls(w),
         NEW i \in 1 .. Len(w), i + StablePolls - 1 <= Len(w),
         SeenAll(e, w, i, i + StablePolls - 1)
  PROVE  Stable(Latest(e, w))
<1> DEFINE t == Latest(e, w)
           k == i + StablePolls - 1
<1>1. Shows(e, w, Len(w), t)
  BY TrackShows DEF Latest
<1>2. t.maxConsecutive \in Nat
  BY LatestIsATrack DEF Track
<1> HIDE DEF t
<1>3. StablePolls \in Nat \ {0} /\ Len(w) \in Nat
  BY RankingAssumption DEF Polls
<1>4. k \in 1 .. Len(w) /\ i <= k /\ k - i + 1 = StablePolls
  BY <1>3
<1>5. SeenAll(e, w, i, k)
  OBVIOUS
<1> HIDE DEF k
<1>6. t.maxConsecutive >= k - i + 1
  BY <1>1, <1>4, <1>5 DEF Shows
<1> QED BY <1>2, <1>4, <1>6 DEF Stable, t

LEMMA TwoWayIsBidir ==
  ASSUME game \in Games, NEW e, NEW w, Polls(w),
         NEW i \in 1 .. Len(w), \E o \in Of(e, w, i) : o.bidir
  PROVE  Latest(e, w).bidir
<1>1. Shows(e, w, Len(w), Latest(e, w))
  BY TrackShows DEF Latest
<1> QED BY <1>1 DEF Shows

-----------------------------------------------------------------------------
(* The window *)

(* The last polls of u but one are the last polls of w. *)
Shifted(w, u) ==
  \A i \in 1 .. (Len(u) - 1) :
    Len(w) - i + 1 \in 1 .. Len(w) /\ u[Len(u) - i] = w[Len(w) - i + 1]

LEMMA Slid ==
  ASSUME NEW S, NEW w \in Seq(S), NEW obs \in S, Len(w) <= WindowPolls
  PROVE  LET u == Slide(w, obs) IN
         /\ u \in Seq(S) /\ Len(u) \in Nat \ {0} /\ Len(u) <= WindowPolls
         /\ u[Len(u)] = obs
         /\ Len(u) = IF Len(w) = WindowPolls THEN WindowPolls ELSE Len(w) + 1
         /\ Shifted(w, u)
<1> DEFINE a == Append(w, obs)
           u == Slide(w, obs)
<1>1. WindowPolls \in Nat \ {0} /\ Len(w) \in Nat
  BY RankingAssumption
<1>2. /\ a \in Seq(S) /\ a # <<>> /\ Len(a) = Len(w) + 1 /\ a[Len(w) + 1] = obs
      /\ \A i \in 1 .. Len(w) : a[i] = w[i]
  BY AppendProperties
<1>3. u = IF Len(a) > WindowPolls THEN Tail(a) ELSE a
  BY DEF Slide
<1> HIDE DEF a, u
<1>4. CASE Len(w) = WindowPolls
  <2>1. /\ u = Tail(a) /\ u \in Seq(S) /\ Len(u) = Len(w)
        /\ \A i \in 1 .. Len(u) : u[i] = a[i + 1]
    BY <1>1, <1>2, <1>3, <1>4, HeadTailProperties
  <2>2. u[Len(u)] = obs
    BY <1>1, <1>2, <1>4, <2>1
  <2>3. ASSUME NEW i \in 1 .. (Len(u) - 1)
        PROVE  Len(w) - i + 1 \in 1 .. Len(w) /\ u[Len(u) - i] = w[Len(w) - i + 1]
    <3>1. Len(u) - i \in 1 .. Len(u) /\ Len(w) - i + 1 \in 1 .. Len(w)
          /\ (Len(u) - i) + 1 = Len(w) - i + 1
      BY <1>1, <2>1
    <3>2. u[Len(u) - i] = a[Len(w) - i + 1]
      BY <2>1, <3>1
    <3> QED BY <1>2, <3>1, <3>2
  <2>4. Shifted(w, u)
    BY <2>3 DEF Shifted
  <2> QED BY <1>1, <1>4, <2>1, <2>2, <2>4 DEF u
<1>5. CASE Len(w) # WindowPolls
  <2>1. u = a /\ Len(u) = Len(w) + 1
    BY <1>1, <1>2, <1>3, <1>5
  <2>2. ASSUME NEW i \in 1 .. (Len(u) - 1)
        PROVE  Len(w) - i + 1 \in 1 .. Len(w) /\ u[Len(u) - i] = w[Len(w) - i + 1]
    <3>1. Len(u) - i = Len(w) - i + 1 /\ Len(w) - i + 1 \in 1 .. Len(w)
      BY <1>1, <2>1
    <3> QED BY <1>2, <2>1, <3>1
  <2>3. Shifted(w, u)
    BY <2>2 DEF Shifted
  <2> QED BY <1>1, <1>2, <1>5, <2>1, <2>3 DEF u
<1> QED BY <1>4, <1>5

(* The window and what was last ranked of it. *)
WindowOK ==
  /\ game \in Games
  /\ window \in Seq(SUBSET game.flows) /\ Len(window) <= WindowPolls
  /\ IF window = <<>> THEN top = Nothing ELSE top \in Tops(Candidates(window))

LEMMA WindowPollsOK ==
  ASSUME NEW w \in Seq(SUBSET game.flows)
  PROVE  Polls(w) /\ (w # <<>> <=> Len(w) > 0)
BY EmptySeq DEF Polls

LEMMA RankingKept ==
  ASSUME game' = game, NEW w
  PROVE  Candidates(w)' = Candidates(w)
BY DEF Candidates, Preferred, Replay, Rank, ConfidenceOf, Score, Keys, Stable, Bonus, SeenNow

LEMMA WindowStep ==
  ASSUME WindowOK, NEW obs, RankPoll(obs)
  PROVE  /\ WindowOK' /\ game' = game
         /\ window' \in Seq(SUBSET game.flows) /\ Polls(window') /\ Len(window') > 0
         /\ top' \in Tops(Candidates(window'))
<1>1. /\ obs \in SUBSET game.flows /\ window' = Slide(window, obs)
      /\ top' \in Tops(Candidates(window')) /\ game' = game
  BY DEF RankPoll
<1>2. window \in Seq(SUBSET game.flows) /\ Len(window) <= WindowPolls /\ game \in Games
  BY DEF WindowOK
<1>3. /\ window' \in Seq(SUBSET game.flows) /\ Len(window') <= WindowPolls
      /\ Len(window') \in Nat \ {0}
  BY <1>1, <1>2, Slid
<1>4. Polls(window') /\ window' # <<>> /\ Len(window') > 0
  BY <1>3, WindowPollsOK
<1>5. (top \in Tops(Candidates(window)))'
  BY <1>1, RankingKept
<1>6. WindowOK'
  BY <1>1, <1>2, <1>3, <1>4, <1>5 DEF WindowOK
<1> QED BY <1>1, <1>3, <1>4, <1>6

(* The tracker is offered endpoints seen in the latest poll. *)
LEMMA PointerIsSeen ==
  ASSUME WindowOK, NEW obs, RankPoll(obs)
  PROVE  LET c == Pointer(top') IN
         /\ c \in Candidate \cup {None}
         /\ c # None => /\ c = top' /\ c.ep \in Keys /\ InTheRunning(c.ep, window')
<1>1. CASE top' = Nothing
  BY <1>1 DEF Pointer
<1>2. CASE top' # Nothing
  <2>1. /\ game \in Games /\ Polls(window') /\ Len(window') > 0
        /\ top' \in Tops(Candidates(window'))
    BY WindowStep DEF WindowOK
  <2>2. /\ top'.ep \in Keys /\ InTheRunning(top'.ep, window')
        /\ top' = [ep |-> top'.ep, conf |-> top'.conf]
        /\ top'.conf \in Confidence
    BY <1>2, <2>1, TopIsSeen
  <2>3. top'.ep \in Endpoints
    BY <2>1, <2>2, MatchesAssumption DEF Keys, AllKeys
  <2>4. top' \in Candidate
    BY <2>2, <2>3 DEF Candidate
  <2> QED BY <1>2, <2>2, <2>4 DEF Pointer
<1> QED BY <1>1, <1>2

LEMMA WindowHolds == MatchesSpec => []WindowOK
<1>1. MatchesInit => WindowOK
  BY EmptySeq, RankingAssumption DEF MatchesInit, RankingInit, WindowOK
<1>2. WindowOK /\ [MatchesNext]_allVars => WindowOK'
  <2> SUFFICES ASSUME WindowOK, [MatchesNext]_allVars PROVE WindowOK'
    OBVIOUS
  <2>1. ASSUME NEW obs \in SUBSET game.flows, Discover(obs) PROVE WindowOK'
    BY <2>1, WindowStep DEF Discover
  <2>2. CASE TimePasses \/ UNCHANGED allVars
    <3>1. UNCHANGED <<game, window, top>>
      BY <2>2 DEF TimePasses, allVars
    <3>2. Candidates(window)' = Candidates(window)
      BY <3>1, RankingKept
    <3> QED BY <3>1, <3>2 DEF WindowOK
  <2> QED BY <2>1, <2>2 DEF MatchesNext
<1> QED BY <1>1, <1>2, PTL DEF MatchesSpec

(* The discovery case drives the tracker as Tracker.tla says it may be     *)
(* driven, so what is proved of the tracker holds behind the ranking.      *)
THEOREM MatchesDrivesTracker == MatchesSpec => Spec
<1>1. MatchesInit => Init
  BY DEF MatchesInit
<1>2. WindowOK /\ [MatchesNext]_allVars => [Next]_vars
  <2> SUFFICES ASSUME WindowOK, [MatchesNext]_allVars PROVE [Next]_vars
    OBVIOUS
  <2>1. ASSUME NEW obs \in SUBSET game.flows, Discover(obs) PROVE Next
    <3>1. RankPoll(obs) /\ Observe(Pointer(top'))
      BY <2>1 DEF Discover
    <3>2. Pointer(top') \in Candidate \cup {None}
      BY <3>1, PointerIsSeen
    <3> QED BY <3>1, <3>2 DEF Next, Poll
  <2>2. CASE TimePasses
    BY <2>2 DEF TimePasses, Next
  <2>3. CASE UNCHANGED allVars
    BY <2>3 DEF allVars, vars
  <2> QED BY <2>1, <2>2, <2>3 DEF MatchesNext
<1> QED BY <1>1, <1>2, WindowHolds, PTL DEF MatchesSpec, Spec

-----------------------------------------------------------------------------
(* What the window promises of a flow *)

LEMMA SeenInIs ==
  ASSUME NEW e, NEW i
  PROVE  SeenIn(e, i) <=> Of(e, window, i) # {}
BY DEF SeenIn, Of

(* A steady two-way UDP flow is trusted: the game's own log is not needed, *)
(* nor a port hint.                                                        *)
LEMMA SteadyTwoWay ==
  ASSUME WindowOK, NEW e \in Keys, OnStage(e), Steady(e), TwoWay(e)
  PROVE  /\ Polls(window) /\ Len(window) > 0 /\ InTheRunning(e, window)
         /\ Latest(e, window) \in Track
         /\ Stable(Latest(e, window)) /\ Latest(e, window).bidir
<1>1. game \in Games /\ window \in Seq(SUBSET game.flows)
  BY DEF WindowOK
<1>2. Polls(window) /\ Len(window) > 0 /\ Len(window) \in Nat
  BY <1>1, WindowPollsOK DEF OnStage
<1>3. InTheRunning(e, window)
  BY <1>2, SeenInIs DEF OnStage, InTheRunning
<1>4. Latest(e, window) \in Track
  BY <1>1, <1>2, LatestIsATrack
<1>5. Stable(Latest(e, window))
  <2>1. PICK i \in 1 .. (Len(window) - StablePolls + 1) :
          \A j \in i .. (i + StablePolls - 1) : SeenIn(e, j)
    BY DEF Steady
  <2>2. StablePolls \in Nat \ {0}
    BY RankingAssumption
  <2>3. i \in 1 .. Len(window) /\ i + StablePolls - 1 <= Len(window)
    BY <1>2, <2>2
  <2>4. SeenAll(e, window, i, i + StablePolls - 1)
    BY <2>1, SeenInIs DEF SeenAll
  <2> QED BY <1>1, <1>2, <2>3, <2>4, SteadyIsStable
<1>6. Latest(e, window).bidir
  <2>1. PICK i \in DOMAIN window : \E o \in window[i] : KeyOf(o) = e /\ o.bidir
    BY DEF TwoWay
  <2>2. i \in 1 .. Len(window) /\ \E o \in Of(e, window, i) : o.bidir
    BY <1>1, <2>1 DEF Of
  <2> QED BY <1>1, <1>2, <2>2, TwoWayIsBidir
<1> QED BY <1>2, <1>3, <1>4, <1>5, <1>6

(* For a game without hints, the top of every poll is a steady two-way UDP *)
(* flow as long as there is one: no volume and no number of other          *)
(* connections outweighs that.                                             *)
THEOREM GameFlowStaysOnTop == MatchesSpec => []GameFlowIsOnTop
<1>1. WindowOK => GameFlowIsOnTop
  <2> SUFFICES ASSUME WindowOK, game.ports = {}, ~ game.valorant,
                      NEW e \in Keys, OnStage(e), ~ Tls(e), e.proto = "udp",
                      Steady(e), TwoWay(e)
               PROVE  top.conf = High
    BY DEF GameFlowIsOnTop
  <2>1. /\ Polls(window) /\ Len(window) > 0 /\ InTheRunning(e, window)
        /\ Latest(e, window) \in Track
        /\ Stable(Latest(e, window)) /\ Latest(e, window).bidir
    BY SteadyTwoWay
  <2>2. game \in Games /\ top \in Tops(Candidates(window))
    BY <2>1, WindowPollsOK DEF WindowOK
  <2> DEFINE d == top.ep
             q == Latest(d, window)
  <2>3. /\ top.conf = ConfidenceOf(d, q)
        /\ ~ (Score(e, Latest(e, window)) > Score(d, q))
    BY <2>1, <2>2, TopScoresBest
  <2>4. q \in Track
    BY <2>1, <2>2, LatestIsATrack
  <2> HIDE DEF q
  <2>5. d.proto = "udp" /\ Stable(q) /\ q.bidir
    BY <2>1, <2>3, <2>4, LesserIsOutranked
  <2>6. ConfidenceOf(d, q) = High
    BY <2>5 DEF ConfidenceOf
  <2> QED BY <2>3, <2>6
<1> QED BY <1>1, WindowHolds, PTL

-----------------------------------------------------------------------------
(* The binding *)

(* The tracker is bound to what was seen at a public address. *)
BoundIsPublic == active # None => active.ep \in Keys /\ Public(active.ep)

(* A poll leaves the bound endpoint or moves to the top, which must then   *)
(* be of another server and confirmed.                                     *)
LEMMA ObserveMoves ==
  ASSUME TypeOK, NEW c \in Candidate \cup {None}, ObserveCode(c)
  PROVE  \/ /\ active # None /\ active' # None /\ active'.ep = active.ep
            /\ pendingCount' = 0 \/ (pendingKey' = c.ep /\ pendingCount' = Challenges(c)
                                     /\ c # None)
         \/ active = None /\ active' = None /\ pendingCount' = 0
         \/ /\ c # None /\ active' = c /\ active' # None /\ pendingCount' = 0
            /\ active = None \/ Challenges(c) >= ConfirmPolls
<1> USE TrackerAssumption
<1>1. active # None => active \in Candidate
  BY DEF TypeOK
<1>2. CASE IgnoreIneligible(c)
  BY <1>2 DEF IgnoreIneligible
<1>3. CASE FirstLock(c)
  BY <1>3 DEF FirstLock, Eligible
<1>4. CASE RefreshSame(c)
  BY <1>4 DEF RefreshSame, Eligible
<1>5. CASE RaiseConfidence(c)
  <2>1. active \in Candidate /\ c \in Candidate
    BY <1>1, <1>5 DEF RaiseConfidence, Eligible
  <2>2. active'.ep = active.ep /\ active' # None
    BY <1>5, <2>1, CandidateFields, RaisedCandidate DEF RaiseConfidence
  <2> QED BY <1>5, <2>2 DEF RaiseConfidence
<1>6. CASE Challenge(c)
  BY <1>6 DEF Challenge, Eligible, Confirmed
<1> QED BY <1>2, <1>3, <1>4, <1>5, <1>6 DEF ObserveCode

(* Endpoint e is seen in each of the last n polls of w. *)
SeenLast(e, w, n) ==
  \A i \in 0 .. (n - 1) : Len(w) - i >= 1 /\ Of(e, w, Len(w) - i) # {}

LEMMA SeenOnceMore ==
  ASSUME NEW S, NEW w \in Seq(S), NEW obs \in S, Len(w) <= WindowPolls,
         NEW e, NEW n \in Nat, n < WindowPolls, SeenLast(e, w, n),
         Of(e, Slide(w, obs), Len(Slide(w, obs))) # {}
  PROVE  SeenLast(e, Slide(w, obs), n + 1)
<1> DEFINE u == Slide(w, obs)
<1>1. /\ Len(u) \in Nat \ {0}
      /\ Len(u) = IF Len(w) = WindowPolls THEN WindowPolls ELSE Len(w) + 1
      /\ Shifted(w, u)
  BY Slid
<1>2. Of(e, u, Len(u)) # {} /\ Len(w) \in Nat /\ WindowPolls \in Nat
  BY RankingAssumption
<1> HIDE DEF u
<1>3. ASSUME NEW i \in 0 .. n
      PROVE  Len(u) - i >= 1 /\ Of(e, u, Len(u) - i) # {}
  <2>1. CASE i = 0
    BY <1>1, <1>2, <2>1
  <2>2. CASE i # 0
    <3>1. i - 1 \in 0 .. (n - 1) /\ Len(w) - (i - 1) = Len(w) - i + 1
      BY <1>2, <2>2
    <3>2. Len(w) - (i - 1) >= 1 /\ Of(e, w, Len(w) - (i - 1)) # {}
      BY <3>1 DEF SeenLast
    <3>3. i \in 1 .. (Len(u) - 1)
      BY <1>1, <1>2, <2>2, <3>1, <3>2
    <3>4. u[Len(u) - i] = w[Len(w) - (i - 1)]
      BY <1>1, <3>1, <3>3 DEF Shifted
    <3>5. Of(e, u, Len(u) - i) = Of(e, w, Len(w) - (i - 1))
      BY <3>4 DEF Of
    <3> QED BY <1>1, <3>2, <3>3, <3>5
  <2> QED BY <2>1, <2>2
<1>4. (n + 1) - 1 = n
  OBVIOUS
<1> QED BY <1>3, <1>4 DEF SeenLast, u

(* The pending challenger was there in each of the polls it is credited    *)
(* with.                                                                   *)
PendingIsSeen == SeenLast(pendingKey, window, pendingCount)

(* The step of the tracker behind the ranking. *)
LEMMA DiscoverStep ==
  ASSUME WindowOK, TypeOK, BoundIsPublic, PendingIsSeen, NEW obs, Discover(obs)
  PROVE  /\ BoundIsPublic' /\ PendingIsSeen'
         /\ \A e \in Keys :
              (active # None /\ active.ep # e /\ active'.ep = e)
                => SeenLast(e, window', ConfirmPolls)
<1> DEFINE c == Pointer(top')
<1>1. RankPoll(obs) /\ ObserveCode(c)
  BY DEF Discover, Observe
<1>2. /\ c \in Candidate \cup {None}
      /\ c # None => c.ep \in Keys /\ InTheRunning(c.ep, window')
  BY <1>1, PointerIsSeen
<1>3. /\ obs \in SUBSET game.flows /\ window' = Slide(window, obs) /\ game' = game
      /\ window \in Seq(SUBSET game.flows) /\ Len(window) <= WindowPolls
  BY <1>1 DEF RankPoll, WindowOK
<1> HIDE DEF c
<1>4. /\ pendingCount \in Nat /\ pendingCount + 1 <= ConfirmPolls /\ ConfirmPolls \in Nat \ {0}
      /\ ConfirmPolls <= WindowPolls /\ WindowPolls \in Nat
  BY TrackerAssumption, MatchesAssumption, RankingAssumption DEF TypeOK
<1>5. ASSUME c # None
      PROVE  SeenLast(c.ep, window', 1)
  <2>1. SeenLast(c.ep, window, 0)
    BY DEF SeenLast
  <2>2. Of(c.ep, Slide(window, obs), Len(Slide(window, obs))) # {}
    BY <1>2, <1>3, <1>5 DEF InTheRunning
  <2>3. 0 < WindowPolls
    BY <1>4
  <2>4. SeenLast(c.ep, Slide(window, obs), 0 + 1)
    BY <1>3, <2>1, <2>2, <2>3, SeenOnceMore
  <2> QED BY <1>3, <2>4
<1>6. ASSUME c # None, c.ep = pendingKey
      PROVE  SeenLast(c.ep, window', pendingCount + 1)
  <2>1. SeenLast(c.ep, window, pendingCount)
    BY <1>6 DEF PendingIsSeen
  <2>2. Of(c.ep, Slide(window, obs), Len(Slide(window, obs))) # {}
    BY <1>2, <1>3, <1>6 DEF InTheRunning
  <2>3. pendingCount < WindowPolls
    BY <1>4
  <2> QED BY <1>3, <1>4, <2>1, <2>2, <2>3, SeenOnceMore
<1>7. ASSUME c # None PROVE SeenLast(c.ep, window', Challenges(c))
  BY <1>5, <1>6, <1>7 DEF Challenges
<1>8. \/ /\ active # None /\ active' # None /\ active'.ep = active.ep
         /\ pendingCount' = 0 \/ (pendingKey' = c.ep /\ pendingCount' = Challenges(c)
                                  /\ c # None)
      \/ active = None /\ active' = None /\ pendingCount' = 0
      \/ /\ c # None /\ active' = c /\ active' # None /\ pendingCount' = 0
         /\ active = None \/ Challenges(c) >= ConfirmPolls
  BY <1>1, <1>2, ObserveMoves
<1>9. Keys' = Keys
  BY <1>3 DEF Keys
<1>10. BoundIsPublic'
  BY <1>2, <1>8, <1>9 DEF BoundIsPublic, InTheRunning, Public
<1>11. PendingIsSeen'
  <2>1. SeenLast(pendingKey', window', 0)
    BY DEF SeenLast
  <2>2. SeenLast(pendingKey', window', pendingCount')
    BY <1>7, <1>8, <2>1
  <2> QED BY <2>2 DEF PendingIsSeen, SeenLast
<1>12. ASSUME NEW e \in Keys, active # None, active.ep # e, active'.ep = e
       PROVE  SeenLast(e, window', ConfirmPolls)
  <2>1. c # None /\ c.ep = e /\ Challenges(c) >= ConfirmPolls
    BY <1>8, <1>12
  <2>2. SeenLast(e, window', Challenges(c)) /\ Challenges(c) \in Nat
    BY <1>4, <1>7, <2>1 DEF Challenges
  <2>3. \A i \in 0 .. (ConfirmPolls - 1) : i \in 0 .. (Challenges(c) - 1)
    BY <1>4, <2>1, <2>2
  <2> QED BY <2>2, <2>3 DEF SeenLast
<1> QED BY <1>10, <1>11, <1>12

(* Time passing moves neither the binding nor the window. *)
LEMMA NothingMoves ==
  ASSUME TimePasses \/ UNCHANGED allVars
  PROVE  UNCHANGED <<game, window, top, active, pendingKey, pendingCount>>
BY DEF TimePasses, RelaxFloor, LowerFloor, code, allVars, vars

LEMMA TrackerTyped == MatchesSpec => []TypeOK
BY MatchesDrivesTracker, TypeCorrect, PTL

LEMMA BindingHolds == MatchesSpec => [](BoundIsPublic /\ PendingIsSeen)
<1>1. MatchesInit => BoundIsPublic /\ PendingIsSeen
  BY DEF MatchesInit, Init, BoundIsPublic, PendingIsSeen, SeenLast
<1>2. WindowOK /\ TypeOK /\ BoundIsPublic /\ PendingIsSeen /\ [MatchesNext]_allVars
        => BoundIsPublic' /\ PendingIsSeen'
  <2> SUFFICES ASSUME WindowOK, TypeOK, BoundIsPublic, PendingIsSeen,
                      [MatchesNext]_allVars
               PROVE  BoundIsPublic' /\ PendingIsSeen'
    OBVIOUS
  <2>1. ASSUME NEW obs \in SUBSET game.flows, Discover(obs)
        PROVE  BoundIsPublic' /\ PendingIsSeen'
    BY <2>1, DiscoverStep
  <2>2. CASE TimePasses \/ UNCHANGED allVars
    <3>1. UNCHANGED <<game, window, top, active, pendingKey, pendingCount>>
      BY <2>2, NothingMoves
    <3> QED BY <3>1 DEF BoundIsPublic, PendingIsSeen, Keys
  <2> QED BY <2>1, <2>2 DEF MatchesNext
<1> QED BY <1>1, <1>2, WindowHolds, TrackerTyped, PTL DEF MatchesSpec

(* Neither a flow glimpsed once nor the server of a match that is over     *)
(* takes the session: what it moves to was seen, by the game recorded, in  *)
(* every one of the polls that confirmed it.                               *)
THEOREM NothingUnseenIsBound == MatchesSpec => MovesToWhatIsThere
<1> DEFINE Moved == \A e \in Keys :
             (active # None /\ active.ep # e /\ active'.ep = e) => SeenLately(e)'
<1>1. WindowOK /\ TypeOK /\ BoundIsPublic /\ PendingIsSeen /\ [MatchesNext]_allVars
        => [Moved]_allVars
  <2> SUFFICES ASSUME WindowOK, TypeOK, BoundIsPublic, PendingIsSeen,
                      [MatchesNext]_allVars,
                      NEW e \in Keys, active # None, active.ep # e, active'.ep = e
               PROVE  SeenLately(e)'
    OBVIOUS
  <2>1. ASSUME NEW obs \in SUBSET game.flows, Discover(obs)
        PROVE  SeenLately(e)'
    <3>1. SeenLast(e, window', ConfirmPolls)
      BY <2>1, DiscoverStep
    <3> QED BY <3>1 DEF SeenLast, SeenLately, SeenIn, Of
  <2>2. ~ (TimePasses \/ UNCHANGED allVars)
    BY NothingMoves
  <2> QED BY <2>1, <2>2 DEF MatchesNext
<1> QED BY <1>1, WindowHolds, TrackerTyped, BindingHolds, PTL
      DEF MatchesSpec, MovesToWhatIsThere

(* No TCP connection ends up on top of a stable two-way UDP flow. *)
LEMMA TopIsUdp ==
  ASSUME game \in Games, NEW w, Polls(w), Len(w) > 0,
         NEW e \in Keys, InTheRunning(e, w), ~ Tls(e), e.proto = "udp",
         Stable(Latest(e, w)), Latest(e, w).bidir,
         NEW c \in Tops(Candidates(w))
  PROVE  c.ep \in Keys /\ c.ep.proto = "udp"
<1> DEFINE t == Latest(e, w)
           q == Latest(c.ep, w)
<1>1. c.ep \in Keys /\ ~ (Score(e, t) > Score(c.ep, q))
  BY TopScoresBest
<1>2. t \in Track /\ q \in Track
  BY LatestIsATrack
<1> QED BY <1>1, <1>2, TcpIsOutranked

(* A flow of a full window that never paused: what the ranking makes of it. *)
LEMMA PlayingOn ==
  ASSUME game \in Games, NEW w \in Seq(SUBSET game.flows), Len(w) = WindowPolls,
         NEW e, SeenAll(e, w, 1, WindowPolls),
         NEW i \in 1 .. Len(w), \E o \in Of(e, w, i) : o.bidir
  PROVE  /\ Polls(w) /\ Len(w) > 0 /\ Of(e, w, Len(w)) # {}
         /\ Stable(Latest(e, w)) /\ Latest(e, w).bidir
<1>1. Polls(w)
  BY WindowPollsOK
<1>2. /\ WindowPolls \in Nat \ {0} /\ StablePolls \in 1 .. WindowPolls
      /\ 1 \in 1 .. Len(w) /\ 1 + StablePolls - 1 = StablePolls
  BY RankingAssumption
<1>3. SeenAll(e, w, 1, 1 + StablePolls - 1)
  <2>1. ASSUME NEW j \in 1 .. StablePolls PROVE Of(e, w, j) # {}
    <3>1. j \in 1 .. WindowPolls
      BY <1>2
    <3> QED BY <3>1 DEF SeenAll
  <2> QED BY <1>2, <2>1 DEF SeenAll
<1>4. Stable(Latest(e, w))
  BY <1>1, <1>2, <1>3, SteadyIsStable
<1>5. Latest(e, w).bidir
  BY <1>1, TwoWayIsBidir
<1>6. Of(e, w, Len(w)) # {}
  BY <1>2 DEF SeenAll
<1> QED BY <1>1, <1>2, <1>4, <1>5, <1>6

(* A game that plays on keeps the session: whatever TCP connections come   *)
(* up beside its flow, and with port hints or without, what the session    *)
(* moves to next is UDP.                                                   *)
THEOREM TcpNeverTakesALiveGame == MatchesSpec => LiveGameIsKept
<1> DEFINE Kept == \A e \in Keys :
             (active # None /\ active.ep = e /\ e.proto = "udp" /\ ~ Tls(e) /\ PlaysOn(e)')
               => active'.ep.proto = "udp"
<1>1. WindowOK /\ TypeOK /\ BoundIsPublic /\ [MatchesNext]_allVars => [Kept]_allVars
  <2> SUFFICES ASSUME WindowOK, TypeOK, BoundIsPublic, [MatchesNext]_allVars,
                      NEW e \in Keys, active # None, active.ep = e, e.proto = "udp",
                      ~ Tls(e), PlaysOn(e)'
               PROVE  active'.ep.proto = "udp"
    OBVIOUS
  <2>1. CASE TimePasses \/ UNCHANGED allVars
    BY <2>1, NothingMoves
  <2>2. ASSUME NEW obs \in SUBSET game.flows, Discover(obs)
        PROVE  active'.ep.proto = "udp"
    <3> DEFINE c == Pointer(top')
    <3>1. RankPoll(obs) /\ ObserveCode(c)
      BY <2>2 DEF Discover, Observe
    <3>2. c \in Candidate \cup {None} /\ (c # None => c = top')
      BY <3>1, PointerIsSeen
    <3>3. /\ game \in Games /\ window' \in Seq(SUBSET game.flows)
          /\ top' \in Tops(Candidates(window'))
      BY <3>1, WindowStep DEF WindowOK
    <3> HIDE DEF c
    <3>4. \/ active'.ep = active.ep
          \/ c # None /\ active' = c
      BY <3>1, <3>2, ObserveMoves
    <3>5. ASSUME c # None, active' = c PROVE active'.ep.proto = "udp"
      <4>1. Len(window') = WindowPolls /\ \A i \in DOMAIN window' : Of(e, window', i) # {}
        BY DEF PlaysOn, SeenIn, Of
      <4>2. PICK i \in DOMAIN window' : \E o \in Of(e, window', i) : o.bidir
        BY DEF PlaysOn, TwoWay, Of
      <4>3. DOMAIN window' = 1 .. Len(window')
        BY <3>3
      <4>4. SeenAll(e, window', 1, WindowPolls)
        BY <4>1, <4>3 DEF SeenAll
      <4>5. /\ Polls(window') /\ Len(window') > 0 /\ Of(e, window', Len(window')) # {}
            /\ Stable(Latest(e, window')) /\ Latest(e, window').bidir
        BY <3>3, <4>1, <4>2, <4>3, <4>4, PlayingOn
      <4>6. InTheRunning(e, window')
        BY <4>5 DEF InTheRunning, BoundIsPublic
      <4>7. top'.ep.proto = "udp"
        BY <3>3, <4>5, <4>6, TopIsUdp
      <4> QED BY <3>2, <3>5, <4>7
    <3> QED BY <3>4, <3>5
  <2> QED BY <2>1, <2>2 DEF MatchesNext
<1> QED BY <1>1, WindowHolds, TrackerTyped, BindingHolds, PTL
      DEF MatchesSpec, LiveGameIsKept

-----------------------------------------------------------------------------
(* Following the game to another server *)

(* Poll i of w shows e as the one UDP flow, going both ways (Plays). *)
PlaysIn(e, w, i) ==
  /\ \E o \in w[i] : KeyOf(o) = e /\ o.bidir
  /\ \A o \in w[i] : o.proto = "udp" => KeyOf(o) = e

(* ... and so do the last n polls. *)
PlaysLast(e, w, n) ==
  \A i \in 0 .. (n - 1) : Len(w) - i >= 1 /\ PlaysIn(e, w, Len(w) - i)

(* The flows SwitchIsPrompt speaks of. *)
OnlyGame(e) ==
  /\ IF game.valorant THEN ValorantGame(e) ELSE game.ports = {}
  /\ e.proto = "udp" /\ Public(e) /\ ~ Tls(e)

(* The session is on the server of e, or e has been its challenger for k   *)
(* polls.                                                                  *)
Follows(e, k) ==
  /\ active # None
  /\ \/ ServerOf(active.ep) = ServerOf(e)
     \/ pendingKey = e /\ pendingCount >= k

(* What makes SwitchIsPrompt inductive: after the StablePolls polls that   *)
(* make a flow trusted less one, each further poll of it alone is one poll *)
(* closer to the switch, if the session is not there already.              *)
Following ==
  \A e \in Keys, k \in 1 .. ConfirmPolls :
    OnlyGame(e) /\ PlaysLast(e, window, StablePolls - 1 + k) => Follows(e, k)

LEMMA PlayedBefore ==
  ASSUME NEW S, NEW w \in Seq(S), NEW obs \in S, Len(w) <= WindowPolls,
         NEW e, NEW n \in Nat, PlaysLast(e, Slide(w, obs), n + 1)
  PROVE  PlaysLast(e, w, n)
<1> DEFINE u == Slide(w, obs)
<1>1. Len(u) \in Nat \ {0} /\ Shifted(w, u)
  BY Slid
<1>2. Len(w) \in Nat /\ PlaysLast(e, u, n + 1)
  OBVIOUS
<1> HIDE DEF u
<1>3. ASSUME NEW i \in 0 .. (n - 1)
      PROVE  Len(w) - i >= 1 /\ PlaysIn(e, w, Len(w) - i)
  <2>1. i + 1 \in 0 .. ((n + 1) - 1)
    OBVIOUS
  <2>2. Len(u) - (i + 1) >= 1 /\ PlaysIn(e, u, Len(u) - (i + 1))
    BY <1>2, <2>1 DEF PlaysLast
  <2>3. i + 1 \in 1 .. (Len(u) - 1) /\ Len(w) - (i + 1) + 1 = Len(w) - i
    BY <1>1, <1>2, <2>2
  <2>4. Len(w) - i \in 1 .. Len(w) /\ u[Len(u) - (i + 1)] = w[Len(w) - i]
    BY <1>1, <2>3 DEF Shifted
  <2>5. PlaysIn(e, w, Len(w) - i)
    BY <2>2, <2>4 DEF PlaysIn
  <2> QED BY <2>4, <2>5
<1> QED BY <1>3 DEF PlaysLast

(* A flow that has been alone for StablePolls polls tops the ranking, with *)
(* the highest confidence.                                                 *)
LEMMA AloneIsOnTop ==
  ASSUME game \in Games, NEW w, Polls(w), NEW e \in Keys, OnlyGame(e),
         PlaysLast(e, w, StablePolls), NEW c \in Tops(Candidates(w))
  PROVE  c.ep = e /\ c.conf = High
<1>1. StablePolls \in Nat \ {0} /\ Len(w) \in Nat
  BY RankingAssumption DEF Polls
<1>2. ASSUME NEW i \in 0 .. (StablePolls - 1)
      PROVE  /\ Len(w) - i >= 1 /\ Of(e, w, Len(w) - i) # {}
             /\ \E o \in Of(e, w, Len(w) - i) : o.bidir
  BY DEF PlaysLast, PlaysIn, Of
<1>3. 0 \in 0 .. (StablePolls - 1) /\ StablePolls - 1 \in 0 .. (StablePolls - 1)
      /\ Len(w) - 0 = Len(w)
  BY <1>1
<1>4. /\ Len(w) > 0 /\ Of(e, w, Len(w)) # {} /\ \E o \in Of(e, w, Len(w)) : o.bidir
      /\ Len(w) - (StablePolls - 1) >= 1
  <2>1. Len(w) >= 1 /\ Of(e, w, Len(w)) # {} /\ \E o \in Of(e, w, Len(w)) : o.bidir
    BY <1>2, <1>3
  <2>2. Len(w) - (StablePolls - 1) >= 1
    BY <1>2, <1>3
  <2> QED BY <1>1, <2>1, <2>2
<1>5. InTheRunning(e, w) /\ ~ Tls(e) /\ e.proto = "udp"
  BY <1>4 DEF InTheRunning, OnlyGame
<1>6. Latest(e, w).bidir
  <2>1. Len(w) \in 1 .. Len(w)
    BY <1>1, <1>4
  <2> QED BY <1>4, <2>1, TwoWayIsBidir
<1>7. Stable(Latest(e, w))
  <2> DEFINE i == Len(w) - (StablePolls - 1)
  <2>1. i \in 1 .. Len(w) /\ i + StablePolls - 1 = Len(w)
    BY <1>1, <1>4
  <2>2. ASSUME NEW j \in i .. Len(w) PROVE Of(e, w, j) # {}
    <3>1. Len(w) - j \in 0 .. (StablePolls - 1) /\ Len(w) - (Len(w) - j) = j
      BY <1>1, <2>1
    <3> QED BY <1>2, <3>1
  <2>3. SeenAll(e, w, i, i + StablePolls - 1)
    BY <2>1, <2>2 DEF SeenAll
  <2> HIDE DEF i
  <2> QED BY <1>1, <2>1, <2>3, SteadyIsStable
<1>8. c.ep.proto = "udp"
  BY <1>4, <1>5, <1>6, <1>7, TopIsUdp
<1>9. Of(c.ep, w, Len(w)) # {} /\ c.conf = ConfidenceOf(c.ep, Latest(c.ep, w))
  BY <1>4, <1>5, TopScoresBest DEF InTheRunning
<1>10. c.ep = e
  <2>1. PICK o \in w[Len(w)] : KeyOf(o) = c.ep
    BY <1>9 DEF Of
  <2>2. o.proto = "udp"
    BY <1>8, <2>1 DEF KeyOf
  <2>3. PlaysIn(e, w, Len(w))
    BY <1>3 DEF PlaysLast
  <2> QED BY <2>1, <2>2, <2>3 DEF PlaysIn
<1>11. ConfidenceOf(e, Latest(e, w)) = High
  BY <1>5, <1>6, <1>7 DEF ConfidenceOf, OnlyGame
<1> QED BY <1>9, <1>10, <1>11

(* What Observe makes of a poll topped by e at the highest confidence. *)
LEMMA OneStepCloser ==
  ASSUME TypeOK, NEW e, NEW c \in Candidate, c.ep = e, c.conf = High, ObserveCode(c),
         NEW k \in 1 .. ConfirmPolls, k > 1 => Follows(e, k - 1)
  PROVE  Follows(e, k)'
<1>1. pendingCount \in Nat /\ c # None /\ (active # None => active \in Candidate)
  BY CandidateFields DEF TypeOK
<1>2. Eligible(c)
  BY <1>1, ConfidenceOrder DEF Eligible, TypeOK
<1>3. CASE FirstLock(c) \/ RefreshSame(c)
  BY <1>1, <1>3 DEF FirstLock, RefreshSame, Follows
<1>4. CASE RaiseConfidence(c)
  <2>1. active \in Candidate /\ SameServer(c, active)
    BY <1>1, <1>4 DEF RaiseConfidence
  <2>2. active'.ep = active.ep /\ active' # None
    BY <1>4, <2>1, CandidateFields, RaisedCandidate DEF RaiseConfidence
  <2> QED BY <2>1, <2>2 DEF Follows, SameServer, ServerOf
<1>5. CASE Challenge(c)
  <2>1. CASE Confirmed(Challenges(c))
    BY <1>1, <1>5, <2>1 DEF Challenge, Follows
  <2>2. CASE ~ Confirmed(Challenges(c))
    <3>1. /\ active # None /\ active' = active /\ pendingKey' = c.ep
          /\ pendingCount' = Challenges(c) /\ ~ SameServer(c, active)
      BY <1>5, <2>2 DEF Challenge
    <3>2. Challenges(c) >= k
      <4>1. CASE k = 1
        BY <1>1, <4>1 DEF Challenges
      <4>2. CASE k > 1
        <5>1. pendingKey = c.ep /\ pendingCount >= k - 1
          BY <3>1, <4>2 DEF Follows, SameServer, ServerOf
        <5> QED BY <1>1, <5>1 DEF Challenges
      <4> QED BY <4>1, <4>2
    <3> QED BY <3>1, <3>2 DEF Follows
  <2> QED BY <2>1, <2>2
<1> QED BY <1>2, <1>3, <1>4, <1>5 DEF ObserveCode, IgnoreIneligible

LEMMA FollowingHolds == MatchesSpec => []Following
<1>1. MatchesInit => Following
  <2> SUFFICES ASSUME MatchesInit, NEW e, NEW k \in 1 .. ConfirmPolls,
                      PlaysLast(e, window, StablePolls - 1 + k)
               PROVE  FALSE
    BY DEF Following
  <2>1. Len(window) = 0
    BY EmptySeq DEF MatchesInit, RankingInit
  <2>2. 0 \in 0 .. ((StablePolls - 1 + k) - 1)
    BY RankingAssumption, TrackerAssumption
  <2> QED BY <2>1, <2>2 DEF PlaysLast
<1>2. WindowOK /\ TypeOK /\ Following /\ [MatchesNext]_allVars => Following'
  <2> SUFFICES ASSUME WindowOK, TypeOK, Following, [MatchesNext]_allVars
               PROVE  Following'
    OBVIOUS
  <2>1. CASE TimePasses \/ UNCHANGED allVars
    <3>1. UNCHANGED <<game, window, active, pendingKey, pendingCount>>
      BY <2>1, NothingMoves
    <3> QED BY <3>1 DEF Following, Keys, OnlyGame, Follows
  <2>2. ASSUME NEW obs \in SUBSET game.flows, Discover(obs)
        PROVE  Following'
    <3> DEFINE c == Pointer(top')
    <3>1. RankPoll(obs) /\ ObserveCode(c)
      BY <2>2 DEF Discover, Observe
    <3>2. c \in Candidate \cup {None} /\ (c # None => c = top')
      BY <3>1, PointerIsSeen
    <3>3. /\ game \in Games /\ game' = game /\ Polls(window')
          /\ top' \in Tops(Candidates(window'))
      BY <3>1, WindowStep DEF WindowOK
    <3>4. /\ window \in Seq(SUBSET game.flows) /\ Len(window) <= WindowPolls
          /\ obs \in SUBSET game.flows /\ window' = Slide(window, obs)
      BY <3>1 DEF WindowOK, RankPoll
    <3>5. top' # Nothing => c = top'
      BY DEF Pointer
    <3> HIDE DEF c
    <3>6. ASSUME NEW e \in Keys, NEW k \in 1 .. ConfirmPolls, OnlyGame(e),
                 PlaysLast(e, window', StablePolls - 1 + k)
          PROVE  Follows(e, k)'
      <4> DEFINE n == StablePolls - 1 + (k - 1)
      <4>1. /\ StablePolls \in Nat \ {0} /\ k \in Nat /\ k >= 1 /\ n \in Nat
            /\ StablePolls - 1 + k = n + 1
        BY RankingAssumption, TrackerAssumption
      <4>2. PlaysLast(e, window', StablePolls)
        <5>1. \A i \in 0 .. (StablePolls - 1) : i \in 0 .. ((StablePolls - 1 + k) - 1)
          BY <4>1
        <5> QED BY <3>6, <5>1 DEF PlaysLast
      <4>3. top'.ep = e /\ top'.conf = High
        BY <3>3, <3>6, <4>2, AloneIsOnTop
      <4>4. c = top'
        BY <3>2, <3>5, <4>3, ConfidenceOrder DEF Nothing
      <4>5. c \in Candidate
        <5>1. top' # Nothing
          BY <4>3, ConfidenceOrder DEF Nothing
        <5>2. top'.ep \in Endpoints /\ top'.conf \in Confidence
          BY <3>3, <3>6, <4>3, MatchesAssumption, ConfidenceOrder DEF Keys, AllKeys
        <5>3. Len(window') > 0
          BY <3>1, WindowStep
        <5>4. top' = [ep |-> top'.ep, conf |-> top'.conf]
          BY <3>3, <5>1, <5>3, TopIsSeen
        <5> QED BY <4>4, <5>2, <5>4 DEF Candidate
      <4>6. ASSUME k > 1 PROVE Follows(e, k - 1)
        <5>1. PlaysLast(e, Slide(window, obs), n + 1)
          BY <3>4, <3>6, <4>1
        <5> HIDE DEF n
        <5>2. PlaysLast(e, window, n)
          BY <3>4, <4>1, <5>1, PlayedBefore
        <5>3. k - 1 \in 1 .. ConfirmPolls
          BY <4>1, <4>6, TrackerAssumption
        <5> QED BY <3>6, <5>2, <5>3 DEF Following, n
      <4> QED BY <3>1, <4>3, <4>4, <4>5, <4>6, OneStepCloser
    <3>7. Keys' = Keys /\ \A e : OnlyGame(e)' = OnlyGame(e)
      BY <3>3 DEF Keys, OnlyGame
    <3> QED BY <3>6, <3>7 DEF Following
  <2> QED BY <2>1, <2>2 DEF MatchesNext
<1> QED BY <1>1, <1>2, WindowHolds, TrackerTyped, PTL DEF MatchesSpec

(* A game that has moved to another server takes the session along: as     *)
(* soon as its new flow has been the only one for the polls it takes to    *)
(* trust it and to confirm it, the session is on that server, whatever     *)
(* floor is in force, whatever was pending and whatever TCP shows.         *)
THEOREM SessionFollowsTheGame == MatchesSpec => []SwitchIsPrompt
<1>1. WindowOK /\ TypeOK /\ Following => SwitchIsPrompt
  <2> SUFFICES ASSUME WindowOK, TypeOK, Following, NEW e \in Keys, OnlyGame(e),
                      Len(window) >= PollsToSwitch,
                      \A i \in (Len(window) - PollsToSwitch + 1) .. Len(window) : Plays(e, i)
               PROVE  active # None /\ ServerOf(active.ep) = ServerOf(e)
    BY DEF SwitchIsPrompt, OnlyGame
  <2>1. /\ ConfirmPolls \in 1 .. ConfirmPolls /\ PollsToSwitch \in Nat
        /\ Len(window) \in Nat /\ pendingCount \in 0 .. (ConfirmPolls - 1)
    BY RankingAssumption, TrackerAssumption DEF PollsToSwitch, WindowOK, TypeOK
  <2>2. ASSUME NEW i \in 0 .. (PollsToSwitch - 1)
        PROVE  Len(window) - i >= 1 /\ PlaysIn(e, window, Len(window) - i)
    <3>1. Len(window) - i \in (Len(window) - PollsToSwitch + 1) .. Len(window)
      BY <2>1
    <3> QED BY <2>1, <3>1 DEF Plays, PlaysIn
  <2>3. PlaysLast(e, window, PollsToSwitch)
    BY <2>2 DEF PlaysLast
  <2>4. Follows(e, ConfirmPolls)
    BY <2>1, <2>3 DEF Following, PollsToSwitch
  <2> QED BY <2>1, <2>4, TrackerAssumption DEF Follows
<1> QED BY <1>1, WindowHolds, TrackerTyped, FollowingHolds, PTL
=============================================================================
