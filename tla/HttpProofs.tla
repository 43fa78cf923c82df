----------------------------- MODULE HttpProofs -----------------------------
(***************************************************************************)
(* What every request of module Http can rely on, for every set of         *)
(* requests, routes, middlewares and backend answers: what a backend is    *)
(* sent was checked and is true, and every answer is accounted for.  And   *)
(* what the least-connections and the random balancer answer: a healthy    *)
(* server, for any number of callers, servers and weights.                 *)
(***************************************************************************)
EXTENDS Http, Selection, TLAPS

-----------------------------------------------------------------------------
(* The least-connections and the random balancer.  What a caller has seen  *)
(* of the flags still holds while no mark overlaps its choice.             *)

Last0 == Len(Weight)

SelTypes ==
  /\ kind \in {"least", "random", "split"}
  /\ ok \in [Choice -> BOOLEAN]
  /\ active \in [Choice -> Int]
  /\ DOMAIN sel = SelCalls
  /\ kind # "split" =>
       sel \in [SelCalls -> [at : {"idle", "scan", "walk", "chosen", "holding"}, i : 1 .. Last0 + 1,
                             best : [i : Nat, load : Int], pick : 0 .. Last0]]

\* The weight server j counts for.
Counted(j) == IF ok[j] THEN Weight[j] ELSE 0

\* P lists the partial sums of the healthy weights below server k.
Sums(P, k) ==
  /\ P \in [1 .. k -> Nat] /\ P[1] = 0
  /\ \A j \in 1 .. k - 1 : P[j + 1] = P[j] + Counted(j)

LeastSeen(c) ==
  sel[c].at = "scan" =>
    IF sel[c].best.i = 0 THEN \A j \in 1 .. sel[c].i - 1 : ~ok[j]
    ELSE sel[c].best.i \in Choice /\ ok[sel[c].best.i]

RandomSeen(c) ==
  /\ sel[c].at = "scan" =>
       /\ \E P : Sums(P, sel[c].i) /\ P[sel[c].i] = sel[c].best.load
       /\ sel[c].best.load = 0 => \A j \in 1 .. sel[c].i - 1 : ok[j] => Weight[j] = 0
  /\ sel[c].at = "walk" =>
       \E P : /\ Sums(P, Last0 + 1) /\ sel[c].best.i < P[Last0 + 1]
              /\ P[sel[c].i] = sel[c].best.load /\ sel[c].best.load <= sel[c].best.i

GoodPick(c) ==
  sel[c].at = "chosen" =>
    \/ sel[c].pick # 0 /\ ok[sel[c].pick]
    \/ kind = "least" /\ sel[c].pick = 0 /\ \A i \in Choice : ~ok[i]
    \/ kind = "random" /\ sel[c].pick = 1 /\ \A i \in Choice : ok[i] => Weight[i] = 0

CallInv(c) ==
  /\ sel[c].at = "idle" => sel[c] = SelIdle
  /\ kind = "least" => sel[c].at # "walk" /\ (sel[c].at = "scan" => sel[c].best.i \in 0 .. Last0)
  /\ c \notin marked => /\ kind = "least" => LeastSeen(c)
                        /\ kind = "random" => RandomSeen(c)
                        /\ GoodPick(c)

SelInv == SelTypes /\ (kind # "split" => \A c \in SelCalls : CallInv(c))

\* The servers are numbered from 1 to the length of the list.
LEMMA ChoiceFacts ==
  /\ Choice = 1 .. Last0 /\ Last0 \in Nat /\ Last0 >= 2
  /\ \A i \in Choice : Weight[i] \in Nat
  BY SelConfig DEF Choice, Last0

\* The load of a server is a number.
LEMMA LoadIsInt == ASSUME SelTypes, NEW i \in Choice PROVE LoadOf(i) \in Int
<1>1. active[i] * 100 \in Int /\ Weight[i] \in Nat
  BY ChoiceFacts DEF SelTypes
<1>2. CASE Weight[i] > 0
  <2> DEFINE a == active[i] * 100
             w == Weight[i]
  <2>1. a \in Int /\ w \in Nat /\ w > 0
    BY <1>1, <1>2
  <2> HIDE DEF a, w
  <2>2. a \div w \in Int
    BY <2>1
  <2> QED BY <1>2, <2>2 DEF LoadOf, a, w
<1>3. CASE ~(Weight[i] > 0)
  BY <1>1, <1>3 DEF LoadOf
<1> QED BY <1>2, <1>3

\* A caller that does not move is where it was, as long as no flag changes.
LEMMA OthersKeep ==
  ASSUME NEW d \in SelCalls, CallInv(d), UNCHANGED <<kind, ok>>, sel'[d] = sel[d],
         d \in marked <=> d \in marked'
  PROVE  CallInv(d)'
  BY DEF CallInv, LeastSeen, RandomSeen, GoodPick, Sums, Counted

\* At the start everyone is idle.
LEMMA SelInitInv == SelInit => SelInv
<1> SUFFICES ASSUME SelInit PROVE SelInv
  OBVIOUS
<1>1. SelIdle \in [at : {"idle", "scan", "walk", "chosen", "holding"}, i : 1 .. Last0 + 1,
                   best : [i : Nat, load : Int], pick : 0 .. Last0]
  BY ChoiceFacts DEF SelIdle, Place, Best0
<1>2. SelTypes
  BY <1>1 DEF SelInit, SelTypes
<1>3. \A c \in SelCalls : sel[c] = SelIdle /\ sel[c].at = "idle"
  BY DEF SelInit, SelIdle, Place
<1>4. \A c \in SelCalls : CallInv(c)
  BY <1>3 DEF CallInv, LeastSeen, RandomSeen, GoodPick
<1> QED BY <1>2, <1>4 DEF SelInv

SelRec == [at : {"idle", "scan", "walk", "chosen", "holding"}, i : 1 .. Last0 + 1,
           best : [i : Nat, load : Int], pick : 0 .. Last0]

\* A step of one caller keeps the invariant if it keeps the caller's part.
LEMMA MoverKeeps ==
  ASSUME SelInv, kind # "split", NEW c \in SelCalls, UNCHANGED <<kind, ok>>,
         active' \in [Choice -> Int], NEW s \in SelRec, sel' = [sel EXCEPT ![c] = s],
         marked' = marked \/ marked' = marked \ {c}, CallInv(c)'
  PROVE  SelInv'
<1>1. SelTypes'
  BY DEF SelInv, SelTypes, SelRec
<1>2. ASSUME NEW d \in SelCalls, d # c PROVE CallInv(d)'
  <2>1. sel'[d] = sel[d] /\ (d \in marked <=> d \in marked')
    BY <1>2 DEF SelInv, SelTypes
  <2> QED BY <2>1, OthersKeep DEF SelInv
<1> QED BY <1>1, <1>2 DEF SelInv

\* A caller that goes to a new place.
LEMMA PlaceKeeps ==
  ASSUME SelInv, kind # "split", NEW c \in SelCalls, UNCHANGED <<kind, ok>>,
         active' \in [Choice -> Int], marked' = marked \/ marked' = marked \ {c},
         NEW at \in {"scan", "walk", "chosen", "holding"}, NEW i \in 1 .. Last0 + 1,
         NEW best \in [i : Nat, load : Int], NEW pick \in 0 .. Last0,
         sel' = [sel EXCEPT ![c] = Place(at, i, best, pick)],
         sel'[c].at = at /\ sel'[c].i = i /\ sel'[c].best = best /\ sel'[c].pick = pick
            => CallInv(c)'
  PROVE  SelInv'
<1>1. Place(at, i, best, pick) \in SelRec
  BY DEF Place, SelRec
<1>2. sel'[c] = Place(at, i, best, pick)
  BY DEF SelInv, SelTypes
<1>3. sel'[c].at = at /\ sel'[c].i = i /\ sel'[c].best = best /\ sel'[c].pick = pick
  BY <1>2 DEF Place
<1> QED BY <1>1, <1>3, MoverKeeps, Zenon

\* A caller back at the start of a choice.
LEMMA IdlePlace ==
  ASSUME SelInv, kind # "split", NEW c \in SelCalls, UNCHANGED <<kind, ok, marked>>,
         active' \in [Choice -> Int], sel' = [sel EXCEPT ![c] = SelIdle]
  PROVE  SelInv'
<1>1. SelIdle \in SelRec
  BY ChoiceFacts DEF SelIdle, Place, Best0, SelRec
<1>2. sel'[c] = SelIdle /\ sel'[c].at = "idle"
  BY DEF SelInv, SelTypes, SelIdle, Place
<1>3. CallInv(c)'
  BY <1>2 DEF CallInv, LeastSeen, RandomSeen, GoodPick
<1> QED BY <1>1, <1>3, MoverKeeps, Zenon

\* Looking at one server more: what was seen before holds, or nothing was seen.
LEMMA LookedAt ==
  ASSUME SelInv, kind # "split", NEW c \in SelCalls, Looking(c), Fresh0(c)
  PROVE  /\ sel[c] \in SelRec /\ sel[c].i \in 1 .. Last0
         /\ marked' = marked \/ marked' = marked \ {c}
         /\ sel[c].at = "idle" => sel[c] = SelIdle /\ sel[c].i = 1 /\ sel[c].best = Best0
         /\ sel[c].at = "idle" \/ (sel[c].at = "scan" /\ (c \in marked' <=> c \in marked))
<1>1. sel[c] \in SelRec
  BY DEF SelInv, SelTypes, SelRec
<1>2. sel[c].i \in 1 .. Last0
  BY ChoiceFacts DEF Looking
<1>3. sel[c].at = "idle" => sel[c] = SelIdle
  BY DEF SelInv, CallInv
<1>4. SelIdle.i = 1 /\ SelIdle.best = Best0
  BY DEF SelIdle, Place
<1> QED BY <1>1, <1>2, <1>3, <1>4 DEF Looking, Fresh0

\* LeastConnBalancer::next_server.
LEMMA LeastKeeps ==
  ASSUME SelInv, NEW c \in SelCalls, LeastVisit(c) \/ LeastTake(c) \/ AcquireConn(c) \/ ReleaseConn(c)
  PROVE  SelInv'
<1>0. /\ kind = "least" /\ sel[c] \in SelRec /\ CallInv(c) /\ active \in [Choice -> Int]
      /\ ok \in [Choice -> BOOLEAN]
  BY DEF SelInv, SelTypes, SelRec, LeastVisit, LeastTake, AcquireConn, ReleaseConn
<1>1. CASE LeastVisit(c)
  <2> DEFINE k == sel[c].i
             b == IF ok[k] /\ (sel[c].best.i = 0 \/ LoadOf(k) < sel[c].best.load)
                  THEN [i |-> k, load |-> LoadOf(k)] ELSE sel[c].best
  <2>1. ToNext(c, b) /\ UNCHANGED <<kind, ok, active, share>> /\ Looking(c) /\ Fresh0(c)
    BY <1>1, Zenon DEF LeastVisit
  <2>2. k \in 1 .. Last0 /\ k \in Choice
    BY <1>0, <2>1, LookedAt, ChoiceFacts, Zenon
  <2>3. b \in [i : Nat, load : Int]
    BY <1>0, <2>2, LoadIsInt, ChoiceFacts DEF SelRec, SelInv
  <2>4. sel[c].best.i \in 0 .. Last0
    BY <1>0, <2>1, LookedAt, ChoiceFacts DEF CallInv, Best0
  <2>5. b.i \in 0 .. Last0
    BY <2>2, <2>4
  <2>6. ASSUME c \notin marked'
        PROVE  IF sel[c].best.i = 0 THEN \A j \in 1 .. k - 1 : ~ok[j]
               ELSE sel[c].best.i \in Choice /\ ok[sel[c].best.i]
    <3>1. CASE sel[c].at = "idle"
      BY <1>0, <2>1, <3>1, LookedAt DEF Best0
    <3>2. CASE sel[c].at = "scan" /\ c \notin marked
      BY <1>0, <3>2, Zenon DEF CallInv, LeastSeen
    <3> QED BY <1>0, <2>1, <2>6, <3>1, <3>2, LookedAt, Zenon
  <2>7. ASSUME c \notin marked'
        PROVE  IF b.i = 0 THEN \A j \in 1 .. k : ~ok[j] ELSE b.i \in Choice /\ ok[b.i]
    <3>1. CASE ok[k] /\ (sel[c].best.i = 0 \/ LoadOf(k) < sel[c].best.load)
      BY <2>2, <3>1
    <3>2. CASE ~(ok[k] /\ (sel[c].best.i = 0 \/ LoadOf(k) < sel[c].best.load))
      <4>1. b = sel[c].best
        BY <3>2
      <4>2. sel[c].best.i = 0 => ~ok[k]
        BY <3>2, Zenon
      <4> QED BY <2>2, <2>6, <2>7, <4>1, <4>2
    <3> QED BY <3>1, <3>2
  <2> HIDE DEF b
  <2>8. ASSUME sel'[c].at = "scan", sel'[c].i = k + 1, sel'[c].best = b
        PROVE  CallInv(c)'
    <3>1. LeastSeen(c)' \/ c \in marked'
      BY <2>1, <2>2, <2>7, <2>8 DEF LeastSeen
    <3> QED BY <1>0, <2>1, <2>5, <2>8, <3>1, Zenon DEF CallInv, GoodPick
  <2>9. k + 1 \in 1 .. Last0 + 1 /\ 0 \in 0 .. Last0
    BY <2>2, ChoiceFacts
  <2>10. sel' = [sel EXCEPT ![c] = Place("scan", k + 1, b, 0)]
    BY <2>1 DEF ToNext
  <2>11. marked' = marked \/ marked' = marked \ {c}
    BY <1>0, <2>1, LookedAt
  <2> HIDE DEF k
  <2> QED BY <1>0, <2>1, <2>3, <2>8, <2>9, <2>10, <2>11, PlaceKeeps, Zenon
<1>2. CASE LeastTake(c)
  <2>1. /\ sel[c].at = "scan" /\ sel[c].i \notin Choice /\ Chosen(c, sel[c].best.i)
        /\ UNCHANGED <<kind, ok, active, share, marked>>
    BY <1>2 DEF LeastTake, Scanned
  <2>2. sel[c].i = Last0 + 1 /\ sel[c].best.i \in 0 .. Last0
    BY <1>0, <2>1, ChoiceFacts DEF SelRec, CallInv
  <2>3. ASSUME sel'[c].at = "chosen", sel'[c].pick = sel[c].best.i
        PROVE  CallInv(c)'
    <3>1. ASSUME c \notin marked PROVE GoodPick(c)'
      <4>1. CASE sel[c].best.i = 0
        <5>1. \A j \in Choice : ~ok[j]
          BY <1>0, <2>1, <2>2, <3>1, <4>1, ChoiceFacts DEF CallInv, LeastSeen
        <5> QED BY <1>0, <2>1, <2>3, <4>1, <5>1 DEF GoodPick
      <4>2. CASE sel[c].best.i # 0
        <5>1. ok[sel[c].best.i]
          BY <1>0, <2>1, <3>1, <4>2 DEF CallInv, LeastSeen
        <5> QED BY <2>1, <2>3, <4>2, <5>1 DEF GoodPick
      <4> QED BY <4>1, <4>2, Zenon
    <3> QED BY <1>0, <2>1, <2>3, <3>1 DEF CallInv, LeastSeen
  <2>4. Best0 \in [i : Nat, load : Int] /\ 1 \in 1 .. Last0 + 1
    BY ChoiceFacts DEF Best0
  <2> QED BY <1>0, <2>1, <2>2, <2>3, <2>4, PlaceKeeps, Zenon DEF Chosen
<1>3. CASE AcquireConn(c)
  <2>1. /\ sel[c].at = "chosen" /\ sel[c].pick # 0 /\ UNCHANGED <<kind, ok, share, marked>>
        /\ active' = [active EXCEPT ![sel[c].pick] = @ + 1]
        /\ sel' = [sel EXCEPT ![c] = Place("holding", 1, Best0, sel[c].pick)]
    BY <1>3 DEF AcquireConn
  <2>2. sel[c].pick \in 0 .. Last0 /\ Best0 \in [i : Nat, load : Int] /\ 1 \in 1 .. Last0 + 1
    BY <1>0, ChoiceFacts DEF SelRec, Best0
  <2>3. active' \in [Choice -> Int]
    <3>1. sel[c].pick \in Choice
      BY <2>1, <2>2, ChoiceFacts
    <3> QED BY <1>0, <2>1, <3>1
  <2>4. ASSUME sel'[c].at = "holding" PROVE CallInv(c)'
    BY <1>0, <2>1, <2>4 DEF CallInv, LeastSeen, GoodPick
  <2> QED BY <1>0, <2>1, <2>2, <2>3, <2>4, PlaceKeeps, Zenon
<1>4. CASE ReleaseConn(c)
  <2>1. active' \in [Choice -> Int]
    <3>1. CASE sel[c].pick = 0
      BY <1>0, <1>4, <3>1 DEF ReleaseConn
    <3>2. CASE sel[c].pick # 0
      <4>1. sel[c].pick \in Choice
        BY <1>0, <3>2, ChoiceFacts DEF SelRec
      <4>2. active' = [active EXCEPT ![sel[c].pick] = active[sel[c].pick] - 1]
        BY <1>4, <3>2 DEF ReleaseConn
      <4> QED BY <1>0, <4>1, <4>2
    <3> QED BY <3>1, <3>2
  <2> QED BY <1>0, <1>4, <2>1, IdlePlace, Zenon DEF ReleaseConn
<1> QED BY <1>1, <1>2, <1>3, <1>4

\* The sum after a server is the sum before it and its weight.
LEMMA SumsAt ==
  ASSUME NEW P, NEW K \in Int, Sums(P, K), NEW j \in Int, 1 <= j, j < K
  PROVE  P[j + 1] = P[j] + Counted(j)
  BY DEF Sums

\* One more partial sum.
LEMMA SumsGrow ==
  ASSUME SelTypes, NEW k \in 1 .. Last0, NEW P, Sums(P, k)
  PROVE  \E Q : Sums(Q, k + 1) /\ Q[k + 1] = P[k] + Counted(k)
<1> DEFINE Q == [j \in 1 .. k + 1 |-> IF j = k + 1 THEN P[k] + Counted(k) ELSE P[j]]
<1>1. P \in [1 .. k -> Nat] /\ P[1] = 0 /\ k \in Nat /\ k >= 1
  BY ChoiceFacts DEF Sums
<1>2. Counted(k) \in Nat
  BY ChoiceFacts DEF Counted
<1>3. Q \in [1 .. k + 1 -> Nat] /\ Q[1] = 0 /\ Q[k + 1] = P[k] + Counted(k)
  BY <1>1, <1>2
<1>4. ASSUME NEW j \in 1 .. k PROVE Q[j + 1] = Q[j] + Counted(j)
  <2>1. CASE j = k
    BY <1>1, <2>1
  <2>2. CASE j \in 1 .. k - 1
    <3>1. P[j + 1] = P[j] + Counted(j)
      BY <2>2 DEF Sums
    <3> QED BY <1>1, <2>2, <3>1
  <2> QED BY <1>1, <2>1, <2>2
<1>5. Sums(Q, k + 1)
  <2> HIDE DEF Q
  <2>1. k + 1 - 1 = k
    BY <1>1
  <2> QED BY <1>3, <1>4, <2>1 DEF Sums
<1> HIDE DEF Q
<1> QED BY <1>3, <1>5

\* The first loop of RandomBalancer::next_server.
LEMMA RandomSumKeeps ==
  ASSUME SelInv, NEW c \in SelCalls, RandomSum(c)
  PROVE  SelInv'
<1>0. /\ kind = "random" /\ sel[c] \in SelRec /\ CallInv(c) /\ active \in [Choice -> Int]
      /\ ok \in [Choice -> BOOLEAN] /\ Looking(c) /\ Fresh0(c) /\ UNCHANGED <<kind, ok, active, share>>
      /\ SelTypes
  BY DEF SelInv, SelTypes, SelRec, RandomSum
<1>1. marked' = marked \/ marked' = marked \ {c}
  BY <1>0, LookedAt
<1>2. Best0 \in [i : Nat, load : Int] /\ 1 \in 1 .. Last0 + 1 /\ 1 \in 0 .. Last0 /\ 0 \in 0 .. Last0
  BY ChoiceFacts DEF Best0
<1>3. CASE Weightless
  <2>1. sel' = [sel EXCEPT ![c] = Place("chosen", 1, Best0, 1)]
    BY <1>3, Zenon DEF RandomSum, Chosen
  <2>2. ASSUME sel'[c].at = "chosen", sel'[c].pick = 1 PROVE CallInv(c)'
    BY <1>0, <1>3, <2>2 DEF CallInv, RandomSeen, GoodPick, Weightless
  <2> QED BY <1>0, <1>1, <1>2, <2>1, <2>2, PlaceKeeps, ZenonT(40)
<1>4. CASE ~Weightless
  <2>0. PICK k, l : k = sel[c].i /\ l = sel[c].best.load
    BY Zenon
  <2>1. sel' = [sel EXCEPT ![c] = Place("scan", k + 1, [i |-> 0, load |-> l + Counted(k)], 0)]
    BY <1>4, <2>0, Zenon DEF RandomSum, ToNext, Counted
  <2>2. k \in 1 .. Last0 /\ k + 1 \in 1 .. Last0 + 1 /\ k \in Choice /\ l \in Int
    BY <1>0, <2>0, LookedAt, ChoiceFacts DEF SelRec
  <2>3. Counted(k) \in Nat
    BY <2>2, ChoiceFacts DEF Counted
  <2>4. ASSUME c \notin marked'
        PROVE  /\ \E P : Sums(P, k) /\ P[k] = l
               /\ l = 0 => \A j \in 1 .. k - 1 : ok[j] => Weight[j] = 0
    <3>1. CASE sel[c].at = "idle"
      <4>1. k = 1 /\ l = 0
        BY <1>0, <2>0, <3>1, LookedAt DEF Best0
      <4>2. Sums([j \in 1 .. 1 |-> 0], 1)
        BY DEF Sums
      <4>3. [j \in 1 .. 1 |-> 0][1] = 0
        OBVIOUS
      <4>4. \E P : Sums(P, k) /\ P[k] = l
        BY <4>1, <4>2, <4>3, Zenon
      <4> QED BY <4>1, <4>4
    <3>2. CASE sel[c].at = "scan" /\ c \notin marked
      BY <1>0, <2>0, <3>2 DEF CallInv, RandomSeen
    <3> QED BY <1>0, <2>4, <3>1, <3>2, LookedAt
  <2>5. ASSUME c \notin marked'
        PROVE  /\ \E Q : Sums(Q, k + 1) /\ Q[k + 1] = l + Counted(k)
               /\ l + Counted(k) = 0 => \A j \in 1 .. k : ok[j] => Weight[j] = 0
    <3>1. PICK P : Sums(P, k) /\ P[k] = l
      BY <2>4, <2>5
    <3>2. \E Q : Sums(Q, k + 1) /\ Q[k + 1] = l + Counted(k)
      BY <1>0, <2>2, <3>1, SumsGrow
    <3>3. l \in Nat
      BY <2>2, <3>1 DEF Sums
    <3>4. l + Counted(k) = 0 => l = 0 /\ Counted(k) = 0
      BY <2>3, <3>3
    <3>5. Counted(k) = 0 => (ok[k] => Weight[k] = 0)
      BY DEF Counted
    <3>6. \A j \in 1 .. k : j = k \/ j \in 1 .. k - 1
      BY <2>2, ChoiceFacts
    <3>7. ASSUME l + Counted(k) = 0, NEW j \in 1 .. k, ok[j] PROVE Weight[j] = 0
      BY <2>4, <2>5, <3>4, <3>5, <3>6, <3>7, Zenon
    <3> QED BY <3>2, <3>7
  <2>6. ASSUME sel'[c].at = "scan", sel'[c].i = k + 1, sel'[c].best = [i |-> 0, load |-> l + Counted(k)]
        PROVE  CallInv(c)'
    <3>1. sel'[c].best.load = l + Counted(k) /\ sel'[c].i - 1 = k
      BY <2>2, <2>6, ChoiceFacts
    <3>2. ASSUME c \notin marked' PROVE RandomSeen(c)'
      <4>1. \E Q : Sums(Q, k + 1)' /\ Q[k + 1] = l + Counted(k)
        BY <1>0, <2>5, <3>2 DEF Sums, Counted
      <4> QED BY <1>0, <2>5, <2>6, <3>1, <3>2, <4>1 DEF RandomSeen
    <3> QED BY <1>0, <2>6, <3>2 DEF CallInv, GoodPick
  <2>7. [i |-> 0, load |-> l + Counted(k)] \in [i : Nat, load : Int]
    BY <2>2, <2>3
  <2> QED BY <1>0, <1>1, <1>2, <2>1, <2>2, <2>6, <2>7, PlaceKeeps, Zenon
<1> QED BY <1>3, <1>4

\* The draw.
LEMMA RandomDrawKeeps ==
  ASSUME SelInv, NEW c \in SelCalls, RandomDraw(c)
  PROVE  SelInv'
<1>0. /\ kind = "random" /\ sel[c] \in SelRec /\ CallInv(c) /\ active \in [Choice -> Int]
      /\ sel[c].at = "scan" /\ sel[c].i \notin Choice /\ UNCHANGED <<kind, ok, active, share, marked>>
  BY DEF SelInv, SelTypes, SelRec, RandomDraw, Scanned
<1>1. sel[c].i = Last0 + 1 /\ 1 .. sel[c].i - 1 = Choice
  <2>1. sel[c].i = Last0 + 1
    BY <1>0, ChoiceFacts DEF SelRec
  <2>2. sel[c].i - 1 = Last0
    BY <2>1, ChoiceFacts
  <2> QED BY <2>1, <2>2, ChoiceFacts
<1>2. Best0 \in [i : Nat, load : Int] /\ 1 \in 1 .. Last0 + 1 /\ 1 \in 0 .. Last0 /\ 0 \in 0 .. Last0
  BY ChoiceFacts DEF Best0
<1>3. CASE sel[c].best.load = 0
  <2>1. sel' = [sel EXCEPT ![c] = Place("chosen", 1, Best0, 1)]
    BY <1>3 DEF RandomDraw, Chosen
  <2>2. c \notin marked => \A j \in Choice : ok[j] => Weight[j] = 0
    BY <1>0, <1>1, <1>3, Zenon DEF CallInv, RandomSeen
  <2>3. ASSUME sel'[c].at = "chosen", sel'[c].pick = 1 PROVE CallInv(c)'
    BY <1>0, <2>2, <2>3 DEF CallInv, RandomSeen, GoodPick
  <2> QED BY <1>0, <1>2, <2>1, <2>3, PlaceKeeps, Zenon
<1>4. CASE sel[c].best.load # 0
  <2>1. PICK r \in 0 .. sel[c].best.load - 1 :
           sel' = [sel EXCEPT ![c] = Place("walk", 1, [i |-> r, load |-> 0], 0)]
    BY <1>4 DEF RandomDraw
  <2>2. sel[c].best.load \in Int /\ r \in Nat /\ r < sel[c].best.load
    BY <1>0, <2>1 DEF SelRec
  <2>3. ASSUME c \notin marked
        PROVE  \E P : Sums(P, Last0 + 1) /\ r < P[Last0 + 1] /\ P[1] = 0
    <3>1. PICK P : Sums(P, sel[c].i) /\ P[sel[c].i] = sel[c].best.load
      BY <1>0, <2>3, Zenon DEF CallInv, RandomSeen
    <3> QED BY <1>1, <2>2, <3>1, ZenonT(40) DEF Sums
  <2>4. ASSUME sel'[c].at = "walk", sel'[c].i = 1, sel'[c].best = [i |-> r, load |-> 0]
        PROVE  CallInv(c)'
    <3>1. sel'[c].best.i = r /\ sel'[c].best.load = 0
      BY <2>4
    <3>2. ASSUME c \notin marked PROVE RandomSeen(c)'
      <4>1. PICK P : Sums(P, Last0 + 1) /\ r < P[Last0 + 1] /\ P[1] = 0
        BY <2>3, <3>2
      <4>2. Sums(P, Last0 + 1)'
        BY <1>0, <4>1 DEF Sums, Counted, Last0
      <4>3. Last0' = Last0
        BY DEF Last0
      <4> QED BY <2>2, <2>4, <3>1, <4>1, <4>2, <4>3 DEF RandomSeen
    <3> QED BY <1>0, <2>4, <3>2 DEF CallInv, GoodPick
  <2>5. [i |-> r, load |-> 0] \in [i : Nat, load : Int]
    BY <2>2
  <2> QED BY <1>0, <1>2, <2>1, <2>4, <2>5, PlaceKeeps, Zenon
<1> QED BY <1>3, <1>4

\* The second loop: it never gets past the end unless a flag has changed.
LEMMA RandomWalkKeeps ==
  ASSUME SelInv, NEW c \in SelCalls, RandomWalk(c)
  PROVE  SelInv'
<1>0. /\ kind = "random" /\ sel[c] \in SelRec /\ CallInv(c) /\ active \in [Choice -> Int]
      /\ sel[c].at = "walk" /\ UNCHANGED <<kind, ok, active, share, marked>>
      /\ ok \in [Choice -> BOOLEAN]
  BY DEF SelInv, SelTypes, SelRec, RandomWalk
<1>1. PICK k, r, l : k = sel[c].i /\ r = sel[c].best.i /\ l = sel[c].best.load
  BY Zenon
<1>2. /\ Best0 \in [i : Nat, load : Int] /\ 1 \in 1 .. Last0 + 1 /\ 1 \in 0 .. Last0 /\ 0 \in 0 .. Last0
      /\ k \in 1 .. Last0 + 1 /\ r \in Nat /\ l \in Int /\ sel[c].best \in [i : Nat, load : Int]
  BY <1>0, <1>1, ChoiceFacts DEF Best0, SelRec
<1>3. ASSUME c \notin marked
      PROVE  \E P : Sums(P, Last0 + 1) /\ r < P[Last0 + 1] /\ P[k] = l /\ l <= r
  BY <1>0, <1>1, <1>3 DEF CallInv, RandomSeen
<1>4. CASE k \notin Choice
  <2>1. sel' = [sel EXCEPT ![c] = Place("chosen", 1, Best0, 1)]
    BY <1>1, <1>4 DEF RandomWalk, Chosen
  <2>2. k = Last0 + 1
    BY <1>2, <1>4, ChoiceFacts
  <2>3. c \in marked
    <3> SUFFICES ASSUME c \notin marked PROVE FALSE
      OBVIOUS
    <3>1. PICK P : Sums(P, Last0 + 1) /\ r < P[Last0 + 1] /\ P[k] = l /\ l <= r
      BY <1>3, Zenon
    <3> QED BY <1>2, <2>2, <3>1
  <2>4. ASSUME sel'[c].at = "chosen" PROVE CallInv(c)'
    BY <1>0, <2>3, <2>4 DEF CallInv
  <2> QED BY <1>0, <1>2, <2>1, <2>4, PlaceKeeps, Zenon
<1>5. CASE k \in Choice
  <2>0. k \in 1 .. Last0 /\ k + 1 \in 1 .. Last0 + 1 /\ Weight[k] \in Nat
    BY <1>2, <1>5, ChoiceFacts
  <2>1. ASSUME NEW m, ok[k] => m = l + Weight[k], ~ok[k] => m = l, m <= r, c \notin marked
        PROVE  \E P : Sums(P, Last0 + 1) /\ r < P[Last0 + 1] /\ P[k + 1] = m /\ m <= r
    <3>1. PICK P : Sums(P, Last0 + 1) /\ r < P[Last0 + 1] /\ P[k] = l /\ l <= r
      BY <1>3, <2>1
    <3>2. Last0 + 1 \in Int /\ k \in Int /\ 1 <= k /\ k < Last0 + 1
      BY <2>0, ChoiceFacts
    <3>3. P[k + 1] = l + Counted(k)
      <4>1. P[k + 1] = P[k] + Counted(k)
        BY <3>1, <3>2, SumsAt
      <4> QED BY <3>1, <4>1
    <3>4. l + 0 = l
      BY <1>2
    <3> QED BY <2>1, <3>1, <3>3, <3>4 DEF Counted
  <2>2. ASSUME NEW m \in Int, ok[k] => m = l + Weight[k], ~ok[k] => m = l,
               c \in marked \/ m <= r,
               sel'[c].at = "walk", sel'[c].i = k + 1, sel'[c].best.i = r, sel'[c].best.load = m
        PROVE  CallInv(c)'
    <3>1. ASSUME c \notin marked PROVE RandomSeen(c)'
      <4>1. PICK P : Sums(P, Last0 + 1) /\ r < P[Last0 + 1] /\ P[k + 1] = m /\ m <= r
        BY <2>1, <2>2, <3>1
      <4>2. Sums(P, Last0 + 1)' /\ Last0' = Last0
        BY <1>0, <4>1 DEF Sums, Counted, Last0
      <4> QED BY <2>2, <4>1, <4>2 DEF RandomSeen
    <3> QED BY <1>0, <2>2, <3>1, Zenon DEF CallInv, GoodPick
  <2>3. CASE ~ok[k]
    <3>1. sel' = [sel EXCEPT ![c] = Place("walk", k + 1, sel[c].best, 0)]
      BY <1>1, <1>5, <2>3, Zenon DEF RandomWalk
    <3>2. c \in marked \/ l <= r
      BY <1>3, Zenon
    <3>3. ASSUME sel'[c].at = "walk", sel'[c].i = k + 1, sel'[c].best = sel[c].best PROVE CallInv(c)'
      BY <1>1, <1>2, <2>2, <2>3, <3>2, <3>3
    <3> QED BY <1>0, <1>2, <2>0, <3>1, <3>3, PlaceKeeps, ZenonT(40)
  <2>4. CASE ok[k] /\ r < l + Weight[k]
    <3>1. sel' = [sel EXCEPT ![c] = Place("chosen", 1, Best0, k)]
      BY <1>1, <1>5, <2>4 DEF RandomWalk, Chosen
    <3>2. k \in 0 .. Last0 /\ k # 0
      BY <2>0, ChoiceFacts
    <3>3. ASSUME sel'[c].at = "chosen", sel'[c].pick = k PROVE CallInv(c)'
      BY <1>0, <2>4, <3>2, <3>3, Zenon DEF CallInv, RandomSeen, GoodPick
    <3> QED BY <1>0, <1>2, <3>1, <3>2, <3>3, PlaceKeeps, ZenonT(40)
  <2>5. CASE ok[k] /\ ~(r < l + Weight[k])
    <3>1. sel' = [sel EXCEPT ![c] = Place("walk", k + 1, [i |-> r, load |-> l + Weight[k]], 0)]
      BY <1>1, <1>5, <2>5 DEF RandomWalk
    <3>2. l + Weight[k] \in Int /\ l + Weight[k] <= r
      BY <1>2, <2>0, <2>5
    <3>3. ASSUME sel'[c].at = "walk", sel'[c].i = k + 1, sel'[c].best = [i |-> r, load |-> l + Weight[k]]
          PROVE  CallInv(c)'
      <4>1. sel'[c].best.i = r /\ sel'[c].best.load = l + Weight[k]
        BY <3>3
      <4> QED BY <2>2, <2>5, <3>2, <3>3, <4>1, Zenon
    <3>4. [i |-> r, load |-> l + Weight[k]] \in [i : Nat, load : Int]
      BY <1>2, <3>2
    <3> QED BY <1>0, <1>2, <2>0, <3>1, <3>3, <3>4, PlaceKeeps, ZenonT(40)
  <2> QED BY <2>3, <2>4, <2>5
<1> QED BY <1>4, <1>5, Zenon

\* A mark spoils the choices under way; a caller that is idle has seen nothing.
LEMMA MarkKeeps == ASSUME SelInv, NEW k \in Choice, SelMark(k) PROVE SelInv'
<1>1. /\ kind # "split" /\ UNCHANGED <<kind, active, share, sel>> /\ ok' = [ok EXCEPT ![k] = ~ok[k]]
      /\ marked' = marked \cup {c \in SelCalls : sel[c].at # "idle"}
  BY DEF SelMark
<1>2. SelTypes'
  BY <1>1, Zenon DEF SelInv, SelTypes
<1>3. ASSUME NEW c \in SelCalls PROVE CallInv(c)'
  <2>1. CallInv(c)
    BY <1>1 DEF SelInv
  <2>2. c \notin marked' => sel[c].at = "idle"
    BY <1>1, Zenon
  <2>3. c \notin marked' => LeastSeen(c)' /\ RandomSeen(c)' /\ GoodPick(c)'
    BY <1>1, <2>2 DEF LeastSeen, RandomSeen, GoodPick
  <2> QED BY <1>1, <2>1, <2>3 DEF CallInv
<1> QED BY <1>2, <1>3 DEF SelInv

\* However choices and marks overlap, for any weights and callers: a choice no
\* mark fell into is a healthy server, unless there is none to choose
\* (LeastConnBalancer::next_server, RandomBalancer::next_server).
THEOREM QuietChoices == SelSpec => []QuietChoiceIsHealthy
<1>1. SelInv /\ [SelNext]_selVars => SelInv'
  <2> SUFFICES ASSUME SelInv, [SelNext]_selVars PROVE SelInv'
    OBVIOUS
  <2>1. ASSUME NEW c \in SelCalls, SelAgain(c), kind # "split" PROVE SelInv'
    BY <2>1, IdlePlace, Zenon DEF SelAgain, SelInv, SelTypes
  <2>2. ASSUME NEW c \in SelCalls, kind = "split", SplitVisit(c) \/ SplitTake(c) \/ SelAgain(c)
        PROVE  SelInv'
    BY <2>2, Zenon DEF SplitVisit, SplitTake, SelAgain, ToNext, Chosen, SelInv, SelTypes
  <2>3. ASSUME NEW c \in SelCalls, SplitVisit(c) \/ SplitTake(c) PROVE kind = "split"
    BY <2>3 DEF SplitVisit, SplitTake
  <2>4. CASE UNCHANGED selVars
    <3>1. \A c \in SelCalls : CallInv(c) => CallInv(c)'
      BY <2>4, OthersKeep, Zenon DEF selVars
    <3> QED BY <2>4, <3>1 DEF selVars, SelInv, SelTypes
  <2> QED
    BY <2>1, <2>2, <2>3, <2>4, LeastKeeps, RandomSumKeeps, RandomDrawKeeps, RandomWalkKeeps, MarkKeeps
       DEF SelNext
<1>2. SelInv => QuietChoiceIsHealthy
  BY DEF SelInv, CallInv, GoodPick, QuietChoiceIsHealthy
<1> QED BY SelInitInv, <1>1, <1>2, PTL DEF SelSpec

-----------------------------------------------------------------------------
(* Sequences of any values: the provers reason about members of Seq(S).    *)

IsSeq(s) == \E S : s \in Seq(S)

\* Append adds its element at the end and leaves the others.
LEMMA AppendAny ==
    ASSUME NEW s, IsSeq(s), NEW e
    PROVE  /\ IsSeq(Append(s, e)) /\ Len(s) \in Nat
           /\ Len(Append(s, e)) = Len(s) + 1
           /\ Append(s, e)[Len(s) + 1] = e
           /\ \A i \in 1 .. Len(s) : Append(s, e)[i] = s[i]
  <1>1. PICK S : s \in Seq(S)  BY DEF IsSeq
  <1>2. s \in Seq(S \cup {e})  BY <1>1
  <1>3. Append(s, e) \in Seq(S \cup {e})  BY <1>2
  <1> QED  BY <1>2, <1>3 DEF IsSeq

\* Front, as Leave writes it, leaves out the last element and keeps the others.
Front(s) == SubSeq(s, 1, Len(s) - 1)

LEMMA FrontAny ==
    ASSUME NEW s, IsSeq(s), s # <<>>
    PROVE  /\ IsSeq(Front(s)) /\ Len(s) \in Nat \ {0}
           /\ Len(Front(s)) = Len(s) - 1
           /\ \A i \in 1 .. Len(s) - 1 : Front(s)[i] = s[i]
  <1>1. PICK S : s \in Seq(S)  BY DEF IsSeq
  <1>2. Len(s) \in Nat \ {0}  BY <1>1
  <1>3. Front(s) \in Seq(S) /\ \A i \in 1 .. Len(s) - 1 : Front(s)[i] = s[i]
    BY <1>1, <1>2 DEF Front
  <1>4. \A n \in Nat : n <= Len(s) => Len(SubSeq(s, 1, n)) = n
    BY <1>1
  <1>5. Len(s) - 1 \in Nat /\ Len(s) - 1 <= Len(s)  BY <1>2
  <1>6. Len(Front(s)) = Len(s) - 1  BY <1>4, <1>5, Zenon DEF Front
  <1> QED  BY <1>2, <1>3, <1>6 DEF IsSeq

\* The empty sequence, and a sequence of one element.
LEMMA ShortSeqs ==
    /\ IsSeq(<<>>) /\ Len(<<>>) = 0
    /\ \A e : IsSeq(<<e>>) /\ Len(<<e>>) = 1 /\ <<e>>[1] = e /\ <<e>> # <<>>
  <1>1. <<>> \in Seq({})  OBVIOUS
  <1>2. \A e : <<e>> \in Seq({e})  OBVIOUS
  <1> QED  BY <1>1, <1>2, Zenon DEF IsSeq

-----------------------------------------------------------------------------
(* What the middlewares leave alone.                                       *)

Parts == {"tls", "ip", "host", "path", "method", "grpc", "quota", "hdr"}
AnswerParts == {"status", "grpc", "by", "hdr"}

\* No middleware changes the address and the scheme of the connection.
LEMMA TransformKeeps ==
    ASSUME NEW mw, NEW r, DOMAIN r = Parts
    PROVE  /\ DOMAIN Transform(mw, r) = Parts
           /\ Transform(mw, r).ip = r.ip /\ Transform(mw, r).tls = r.tls
  <1>1. \A s : (s = r \/ \E p, h : s = [r EXCEPT !.path = p, !.hdr = h] \/ s = [r EXCEPT !.hdr = h]
                                   \/ s = [r EXCEPT !.path = p])
               => DOMAIN s = Parts /\ s.ip = r.ip /\ s.tls = r.tls
    BY ZenonT(40) DEF Parts
  <1>2. CASE mw.kind = "headers"  BY <1>1, <1>2, ZenonT(40) DEF Transform, ApplyRequest
  <1>3. CASE mw.kind = "stripPrefix"  BY <1>1, <1>3, ZenonT(40) DEF Transform, StripPrefix
  <1>4. CASE mw.kind = "addPrefix"  BY <1>1, <1>4, ZenonT(40) DEF Transform, AddPrefix
  <1>5. CASE mw.kind = "replacePath"  BY <1>1, <1>5, ZenonT(40) DEF Transform, ReplacePath
  <1>6. CASE mw.kind = "stripPrefixRegex"  BY <1>1, <1>6, ZenonT(40) DEF Transform, StripPrefixRegex
  <1>7. CASE mw.kind = "replacePathRegex"  BY <1>1, <1>7, ZenonT(40) DEF Transform, ReplacePathRegex
  <1>8. CASE mw.kind \notin {"headers", "stripPrefix", "addPrefix", "replacePath",
                             "stripPrefixRegex", "replacePathRegex"}
    BY <1>1, <1>8, Zenon DEF Transform
  <1> QED  BY <1>2, <1>3, <1>4, <1>5, <1>6, <1>7, <1>8

\* A refusal is an answer made by a middleware.
LEMMA VerdictShape ==
    ASSUME NEW mw, NEW r, Verdict(mw, r) # NoResp
    PROVE  DOMAIN Verdict(mw, r) = AnswerParts /\ Verdict(mw, r).by = "middleware"
  <1>1. \A status, hdr : /\ DOMAIN Refusal(status, hdr) = AnswerParts
                         /\ Refusal(status, hdr).by = "middleware"
    BY DEF Refusal, AnswerParts
  <1>2. \E status, hdr : Verdict(mw, r) = Refusal(status, hdr)
    BY DEF Verdict, HandlePreflight, BuildRedirect
  <1> QED  BY <1>1, <1>2

\* On the way out a middleware changes the headers only.
LEMMA UnwindKeeps ==
    ASSUME NEW mw, NEW origin, NEW p, DOMAIN p = AnswerParts
    PROVE  /\ DOMAIN Unwind(mw, origin, p) = AnswerParts
           /\ Unwind(mw, origin, p).by = p.by /\ Unwind(mw, origin, p).status = p.status
  BY DEF Unwind, ApplyCors, ApplyResponse, AnswerParts

\* A headers middleware that does not write the header leaves it as it is.
LEMMA UnwindLeaves ==
    ASSUME NEW mw, NEW origin, NEW p, DOMAIN p = AnswerParts, ~Writes(mw)
    PROVE  Header(Unwind(mw, origin, p).hdr, "allow-origin") = Header(p.hdr, "allow-origin")
  <1>1. CASE mw.kind # "headers"  BY <1>1, Zenon DEF Unwind
  <1>2. CASE mw.kind = "headers"
    <2>1. ~HasCors(mw) /\ "allow-origin" \notin mw.respDel /\ "allow-origin" \notin DOMAIN mw.respSet
      BY <1>2 DEF Writes
    <2>2. Unwind(mw, origin, p).hdr = PutAll(Drop(p.hdr, mw.respDel), mw.respSet)
      BY <1>2, <2>1, Zenon DEF Unwind, ApplyResponse, AnswerParts
    <2> QED  BY <2>1, <2>2 DEF PutAll, Drop, Header
  <1> QED  BY <1>1, <1>2

\* A CORS middleware that allows the origin writes what its rules say.
LEMMA UnwindWrites ==
    ASSUME NEW mw, NEW origin, NEW p, DOMAIN p = AnswerParts,
           mw.kind = "headers", HasCors(mw), origin # Nil, IsOriginAllowed(mw, origin)
    PROVE  Header(Unwind(mw, origin, p).hdr, "allow-origin") = OriginValue(mw, origin)
  <1> DEFINE q == ApplyResponse(mw, p)
  <1>1. "hdr" \in DOMAIN q  BY DEF ApplyResponse, AnswerParts
  <1>2. Unwind(mw, origin, p).hdr
            = PutAll(Put(q.hdr, "allow-origin", OriginValue(mw, origin)), Credentials(mw))
    BY <1>1 DEF Unwind, ApplyCors
  <1>3. "allow-origin" \notin DOMAIN Credentials(mw)  BY DEF Credentials
  <1> QED  BY <1>2, <1>3 DEF PutAll, Put, Header

\* The request made for the backend tells the truth about the connection.
LEMMA BuiltTruthfully ==
    ASSUME NEW r, r.ip = asked.ip, r.tls = asked.tls, NEW h, h = BuildProxiedRequest(r).hdr
    PROVE  /\ h["x-forwarded-for"][2] = asked.ip
           /\ h["x-forwarded-proto"] = (IF asked.tls THEN "https" ELSE "http")
           /\ h["host"] = "backend"
           /\ asked.host # Nil => h["x-forwarded-host"] = asked.host
           /\ ~asked.grpc => DOMAIN h \cap (HopByHop \cup ProxyOnly \cup {"te"}) = {}
           /\ asked.grpc => "te" \in DOMAIN h
  <1> DEFINE c == CleanHeaders(r.hdr, asked.grpc)
             f == ForwardedHeaders(c, r)
  <1>1. h = Put(f, "host", "backend")  BY Zenon DEF BuildProxiedRequest
  <1>2. DOMAIN h = DOMAIN f \cup {"host"} /\ h["host"] = "backend"
        /\ \A n \in DOMAIN f \ {"host"} : h[n] = f[n]
    BY <1>1 DEF Put
  <1>3. /\ {"x-forwarded-for", "x-forwarded-proto"} \subseteq DOMAIN f
        /\ DOMAIN c \subseteq DOMAIN f
        /\ DOMAIN f \subseteq DOMAIN c \cup {"x-forwarded-for", "x-forwarded-proto", "x-forwarded-host"}
        /\ f["x-forwarded-for"] = ForwardedFor(c, r.ip)
        /\ f["x-forwarded-proto"] = (IF r.tls THEN "https" ELSE "http")
        /\ asked.host # Nil => "x-forwarded-host" \in DOMAIN f /\ f["x-forwarded-host"] = asked.host
    <2> HIDE DEF c
    <2>1. CASE asked.host = Nil  BY <2>1, ZenonT(40) DEF ForwardedHeaders, Put
    <2>2. CASE asked.host # Nil  BY <2>2, Zenon DEF ForwardedHeaders, Put
    <2> QED  BY <2>1, <2>2, Zenon
  <1>4. ~asked.grpc => DOMAIN c \cap (HopByHop \cup ProxyOnly \cup {"te"}) = {}
    BY Zenon DEF CleanHeaders, Drop
  <1>5. asked.grpc => "te" \in DOMAIN c
    BY DEF CleanHeaders, Drop, Put
  <1> HIDE DEF c, f
  <1>6. ForwardedFor(c, r.ip)[2] = r.ip  BY Zenon DEF ForwardedFor
  <1>7. ~asked.grpc => DOMAIN h \cap (HopByHop \cup ProxyOnly \cup {"te"}) = {}
    BY <1>2, <1>3, <1>4 DEF HopByHop, ProxyOnly
  <1> QED  BY <1>2, <1>3, <1>5, <1>6, <1>7, ZenonT(40)

-----------------------------------------------------------------------------
(* The inductive invariant.                                                *)

Stages == {"none", "accept", "enter", "upgrade", "wait", "leave", "done"}

HttpTypes ==
    /\ stage \in Stages
    /\ route \in HttpRoutes \cup {NoRoute}
    /\ chain \in Seq(Sections)
    /\ IsSeq(frames) /\ IsSeq(trail)
    /\ DOMAIN resp = AnswerParts

\* The trail leads from the request that arrived to the present one, through
\* middlewares that let it pass.
InOrder ==
    /\ 1 <= Len(trail) /\ Len(trail) <= Len(chain) + 1
    /\ trail[1] = asked /\ trail[Len(trail)] = req
    /\ \A i \in 1 .. Len(trail) - 1 :
          /\ Verdict(chain[i], trail[i]) = NoResp
          /\ trail[i + 1] = Transform(chain[i], trail[i])

\* The middlewares entered are those of the trail; each remembers the origin
\* of the request it was given.
FramesInv ==
    /\ Len(frames) <= Len(trail) - 1
    /\ \A i \in 1 .. Len(frames) : frames[i] = Header(trail[i].hdr, "origin")
    /\ stage = "accept" => Len(trail) = 1 /\ frames = <<>>
    /\ stage \in {"enter", "upgrade", "wait"} => Len(frames) = Len(trail) - 1 /\ route # NoRoute
    /\ stage = "wait" => Len(frames) = Len(chain)
    /\ stage = "done" => frames = <<>>

WalkInv ==
    /\ stage = "none" => frames = <<>>
    /\ stage # "none" => /\ DOMAIN req = Parts /\ req.ip = asked.ip /\ req.tls = asked.tls
                         /\ InOrder
                         /\ FramesInv

\* One request is sent at most, the one at the end of the trail; passive
\* health hears of it when the answer is there.
SentInv ==
    /\ stage \in {"none", "accept", "enter", "upgrade"} => sent = <<>> /\ noted = <<>>
    /\ stage = "wait" => sent # <<>> /\ noted = <<>>
    /\ stage \in {"leave", "done"} => Len(noted) = Len(sent)
    /\ sent # <<>> => /\ sent = <<BuildProxiedRequest(req)>>
                      /\ Len(trail) = Len(chain) + 1 /\ route # NoRoute

LogInv ==
    /\ stage # "done" => logged = <<>> /\ resp.by # "acme"
    /\ LoggedAsAnswered

\* Middleware i owes the answer its header: it passed the request on, its rules
\* allow the origin, and no middleware outside it writes the header again.
Owed(i) ==
    /\ i < Len(trail)
    /\ chain[i].kind = "headers" /\ HasCors(chain[i])
    /\ \A j \in 1 .. i - 1 : ~Writes(chain[j])
    /\ CorsSays(i) # Nil

CorsInv ==
    stage \in {"leave", "done"} =>
        \A i \in DOMAIN chain :
            Owed(i) /\ Len(frames) < i => Header(resp.hdr, "allow-origin") = CorsSays(i)

HttpInv == HttpTypes /\ WalkInv /\ SentInv /\ LogInv /\ CorsInv

-----------------------------------------------------------------------------
(* Every step keeps it, one conjunct at a time.                            *)

\* Nothing has happened yet.
LEMMA HttpStart == HttpInit => HttpInv
  <1> SUFFICES ASSUME HttpInit PROVE HttpInv  OBVIOUS
  <1> USE DEF HttpInit
  <1>1. HttpTypes
    BY ShortSeqs DEF HttpTypes, Stages, NoResp, AnswerParts
  <1>2. WalkInv /\ SentInv /\ CorsInv
    BY Zenon DEF WalkInv, SentInv, CorsInv
  <1>3. LogInv  BY DEF LogInv, LoggedAsAnswered, NoResp, Nil
  <1> QED  BY <1>1, <1>2, <1>3, Zenon DEF HttpInv

\* The answers made on the way are answers, and not a challenge's.
LEMMA ErrorShape ==
    ASSUME NEW status
    PROVE  /\ DOMAIN ErrorResponse(status, asked.grpc) = AnswerParts
           /\ ErrorResponse(status, asked.grpc).by = "proxy"
  BY Zenon DEF ErrorResponse, GrpcGatewayError, AnswerParts

\* The steps after which an answer is on its way back through the chain.
Answering ==
    Refuse \/ NoBackend \/ BadUri \/ EndUpgrade \/ BackendResponds \/ BackendFails \/ BackendTimeout

\* What the steps that answer have in common.
LEMMA AnswerStep ==
    ASSUME HttpInv, Answering
    PROVE  /\ stage \in {"enter", "upgrade", "wait"} /\ stage' = "leave"
           /\ DOMAIN resp' = AnswerParts /\ resp'.by # "acme"
           /\ UNCHANGED <<req, asked, trail, route, chain, frames, sent, logged>>
           /\ IF stage = "wait" THEN Len(noted') = 1 ELSE UNCHANGED noted
  <1>1. CASE Refuse
    BY <1>1, VerdictShape DEF Refuse, Entering
  <1>2. CASE NoBackend
    BY <1>2, ErrorShape DEF NoBackend, AtEndpoint
  <1>3. CASE BadUri
    BY <1>3, ErrorShape, ZenonT(40) DEF BadUri, AtEndpoint
  <1>4. CASE EndUpgrade
    BY <1>4 DEF EndUpgrade, AnswerParts
  <1>5. noted = <<>> \/ stage # "wait"  BY Zenon DEF HttpInv, SentInv
  <1>6. CASE BackendResponds
    <2>1. PICK a \in BackendAnswers :
             /\ noted' = Append(noted, a.status)
             /\ resp' = [status |-> a.status, grpc |-> 0, by |-> "backend",
                         hdr |-> IF asked.grpc THEN a.hdr ELSE Drop(a.hdr, HopByHop)]
      BY <1>6, Zenon DEF BackendResponds
    <2>2. Len(noted') = 1  BY <1>5, <1>6, <2>1, AppendAny, ShortSeqs DEF BackendResponds
    <2> QED  BY <1>6, <2>1, <2>2, Zenon DEF BackendResponds, AnswerParts
  <1>7. ASSUME NEW status, stage = "wait", GiveUp(status)
        PROVE  /\ stage' = "leave" /\ DOMAIN resp' = AnswerParts /\ resp'.by # "acme"
               /\ UNCHANGED <<req, asked, trail, route, chain, frames, sent, logged>>
               /\ Len(noted') = 1
    BY <1>5, <1>7, ErrorShape, AppendAny, ShortSeqs DEF GiveUp
  <1>8. CASE BackendFails  BY <1>7, <1>8 DEF BackendFails
  <1>9. CASE BackendTimeout  BY <1>7, <1>9 DEF BackendTimeout
  <1> QED  BY <1>1, <1>2, <1>3, <1>4, <1>6, <1>8, <1>9 DEF Answering

\* The steps that are left: each says what it does by itself.
LEMMA HttpCases ==
    HttpNext => \/ Arrive \/ AnswerChallenge \/ RouteMissing \/ RouteMatched \/ PassOn
                \/ StartUpgrade \/ SendRequest \/ Leave \/ Finish \/ Answering
  BY Zenon DEF HttpNext, HttpStep, Answering

\* The stages, the route, the chain and the shape of the answer.
LEMMA TypesKept == HttpInv /\ [HttpNext]_httpVars => HttpTypes'
  <1> SUFFICES ASSUME HttpInv, [HttpNext]_httpVars PROVE HttpTypes'  OBVIOUS
  <1> USE DEF HttpInv, HttpTypes, Stages
  <1>1. CASE Arrive  BY <1>1, ShortSeqs, Zenon DEF Arrive
  <1>2. CASE AnswerChallenge  BY <1>2, Zenon DEF AnswerChallenge, AnswerParts
  <1>3. CASE RouteMissing  BY <1>3, ErrorShape, ZenonT(40) DEF RouteMissing
  <1>4. CASE RouteMatched  BY <1>4, HttpConfig, Zenon DEF RouteMatched
  <1>5. CASE PassOn
    <2>1. IsSeq(Append(trail, req')) /\ IsSeq(Append(frames, Header(req.hdr, "origin")))
      BY AppendAny, Zenon
    <2> QED  BY <1>5, <2>1, Zenon DEF PassOn
  <1>6. CASE StartUpgrade \/ SendRequest \/ Finish  BY <1>6, Zenon DEF StartUpgrade, SendRequest, Finish
  <1>7. CASE Leave  BY <1>7, UnwindKeeps, FrontAny, Zenon DEF Leave, Front
  <1>8. CASE Answering  BY <1>8, AnswerStep, Zenon
  <1>9. CASE UNCHANGED httpVars  BY <1>9, Zenon DEF httpVars
  <1> QED  BY <1>1, <1>2, <1>3, <1>4, <1>5, <1>6, <1>7, <1>8, <1>9, HttpCases

\* What is said of the trail when neither it nor what it speaks of changes.
LEMMA TrailKept ==
    ASSUME HttpInv, UNCHANGED <<req, asked, trail, chain>>
    PROVE  InOrder <=> InOrder'
  BY Zenon DEF InOrder

\* The way of the request through the middlewares.
LEMMA WalkKept == HttpInv /\ [HttpNext]_httpVars => WalkInv'
  <1> SUFFICES ASSUME HttpInv, [HttpNext]_httpVars PROVE WalkInv'  OBVIOUS
  <1> USE DEF HttpInv, WalkInv
  <1>0. chain \in Seq(Sections) /\ IsSeq(frames) /\ IsSeq(trail) /\ stage \in Stages
        /\ Len(trail) \in Nat /\ Len(frames) \in Nat /\ Len(chain) \in Nat
    BY AppendAny DEF HttpTypes
  <1>1. CASE Arrive
    <2>1. DOMAIN req' = Parts /\ req'.ip = asked'.ip /\ req'.tls = asked'.tls
      BY <1>1, HttpConfig DEF Arrive, Parts
    <2>2. stage = "none" /\ stage' = "accept" /\ trail' = <<asked'>> /\ req' = asked' /\ UNCHANGED <<chain, frames>>
      BY <1>1, Zenon DEF Arrive
    <2>3. Len(trail') = 1 /\ trail'[1] = asked'  BY <2>2, ShortSeqs, Zenon
    <2>4. InOrder'  BY <1>0, <2>2, <2>3 DEF InOrder
    <2>5. FramesInv'  BY <1>0, <2>2, <2>3, ShortSeqs DEF FramesInv
    <2> QED  BY <2>1, <2>2, <2>4, <2>5, Zenon
  <1>2. CASE AnswerChallenge \/ RouteMissing
    <2>1. /\ stage = "accept" /\ stage' = "done"
          /\ UNCHANGED <<req, asked, trail, route, chain, frames>>
      BY <1>2, Zenon DEF AnswerChallenge, RouteMissing
    <2> QED  BY <2>1, TrailKept, Zenon DEF FramesInv
  <1>3. CASE RouteMatched
    <2>1. /\ stage = "accept" /\ stage' = "enter" /\ route # NoRoute
          /\ UNCHANGED <<req, asked, trail, route, frames>>
      BY <1>3, Zenon DEF RouteMatched
    <2>2. chain' \in Seq(Sections)  BY TypesKept, Zenon DEF HttpTypes
    <2>3. Len(trail) = 1 /\ Len(frames) = 0  BY <2>1, ShortSeqs, Zenon DEF FramesInv
    <2>4. InOrder'  BY <2>1, <2>2, <2>3 DEF InOrder
    <2>5. FramesInv'  BY <2>1, <2>2, <2>3 DEF FramesInv
    <2> QED  BY <2>1, <2>4, <2>5, Zenon
  <1>4. CASE PassOn
    <2> DEFINE n == Len(trail)
    <2>1. /\ stage = "enter" /\ stage' = "enter" /\ UNCHANGED <<asked, route, chain>>
          /\ Len(frames) < Len(chain) /\ Verdict(Current, req) = NoResp
          /\ req' = Transform(Current, req) /\ trail' = Append(trail, req')
          /\ frames' = Append(frames, Header(req.hdr, "origin"))
      BY <1>4, Zenon DEF PassOn, Entering
    <2>2. /\ Len(trail') = n + 1 /\ trail'[n + 1] = req'
          /\ \A i \in 1 .. n : trail'[i] = trail[i]
      BY <1>0, <2>1, AppendAny, ZenonT(40)
    <2>3. /\ Len(frames) = n - 1 /\ Len(frames') = n /\ frames'[n] = Header(req.hdr, "origin")
          /\ \A i \in 1 .. n - 1 : frames'[i] = frames[i]
      BY <1>0, <2>1, AppendAny DEF FramesInv
    <2>4. Current = chain[n] /\ trail[n] = req /\ trail[1] = asked /\ 1 <= n /\ n <= Len(chain)
      BY <1>0, <2>1, <2>3 DEF Current, InOrder
    <2>5. DOMAIN req' = Parts /\ req'.ip = asked'.ip /\ req'.tls = asked'.tls
      BY <2>1, TransformKeeps, Zenon
    <2>6. \A i \in 1 .. n : Verdict(chain[i], trail[i]) = NoResp
                            /\ trail'[i + 1] = Transform(chain[i], trail[i])
      <3> TAKE i \in 1 .. n
      <3>1. CASE i = n  BY <2>1, <2>2, <2>4, <3>1, Zenon
      <3>2. CASE i \in 1 .. n - 1
        <4>1. trail'[i + 1] = trail[i + 1]  BY <1>0, <2>2, <3>2
        <4>2. Verdict(chain[i], trail[i]) = NoResp /\ trail[i + 1] = Transform(chain[i], trail[i])
          BY <2>1, <3>2, Zenon DEF InOrder
        <4> QED  BY <4>1, <4>2, Zenon
      <3> QED  BY <1>0, <3>1, <3>2
    <2>7. InOrder'
      <3>1. trail'[1] = asked' /\ trail'[Len(trail')] = req'  BY <1>0, <2>1, <2>2, <2>4
      <3>2. 1 <= Len(trail') /\ Len(trail') <= Len(chain') + 1  BY <1>0, <2>1, <2>2, <2>4
      <3>3. ASSUME NEW i \in 1 .. Len(trail') - 1
            PROVE  Verdict(chain'[i], trail'[i]) = NoResp /\ trail'[i + 1] = Transform(chain'[i], trail'[i])
        <4>1. i \in 1 .. n  BY <1>0, <2>2
        <4> QED  BY <2>1, <2>2, <2>6, <4>1, Zenon
      <3> QED  BY <3>1, <3>2, <3>3, Zenon DEF InOrder
    <2>8. \A i \in 1 .. Len(frames') : frames'[i] = Header(trail'[i].hdr, "origin")
      <3> TAKE i \in 1 .. Len(frames')
      <3>1. CASE i = n  BY <1>0, <2>2, <2>3, <2>4, <3>1
      <3>2. CASE i \in 1 .. n - 1  BY <1>0, <2>1, <2>2, <2>3, <3>2, Zenon DEF FramesInv
      <3> QED  BY <1>0, <2>3, <3>1, <3>2
    <2>9. FramesInv'  BY <1>0, <2>1, <2>2, <2>3, <2>8 DEF FramesInv
    <2> QED  BY <2>1, <2>5, <2>7, <2>9, Zenon
  <1>5. CASE StartUpgrade \/ SendRequest
    <2>1. /\ stage = "enter" /\ stage' \in {"upgrade", "wait"} /\ Len(frames) = Len(chain)
          /\ UNCHANGED <<req, asked, trail, route, chain, frames>>
      BY <1>5, Zenon DEF StartUpgrade, SendRequest, AtEndpoint
    <2> QED  BY <2>1, TrailKept, Zenon DEF FramesInv
  <1>6. CASE Leave
    <2>1. /\ stage = "leave" /\ stage' = "leave" /\ frames # <<>> /\ frames' = Front(frames)
          /\ UNCHANGED <<req, asked, trail, route, chain>>
      BY <1>6, Zenon DEF Leave, Front
    <2>2. /\ Len(frames') = Len(frames) - 1
          /\ \A i \in 1 .. Len(frames) - 1 : frames'[i] = frames[i]
      BY <1>0, <2>1, FrontAny, Zenon
    <2> QED  BY <1>0, <2>1, <2>2, TrailKept DEF FramesInv
  <1>7. CASE Finish
    <2>1. /\ stage = "leave" /\ stage' = "done" /\ frames = <<>>
          /\ UNCHANGED <<req, asked, trail, route, chain, frames>>
      BY <1>7, Zenon DEF Finish
    <2> QED  BY <2>1, TrailKept DEF FramesInv
  <1>8. CASE Answering
    BY <1>8, AnswerStep, TrailKept, Zenon DEF FramesInv
  <1>9. CASE UNCHANGED httpVars
    BY <1>9, TrailKept, Zenon DEF httpVars, FramesInv
  <1> QED  BY <1>1, <1>2, <1>3, <1>4, <1>5, <1>6, <1>7, <1>8, <1>9, HttpCases, Zenon

\* What was sent, and what passive health heard of it.
LEMMA SentKept == HttpInv /\ [HttpNext]_httpVars => SentInv'
  <1> SUFFICES ASSUME HttpInv, [HttpNext]_httpVars PROVE SentInv'  OBVIOUS
  <1> USE DEF HttpInv, SentInv
  <1>0. stage \in Stages /\ Len(<<>>) = 0  BY ShortSeqs, Zenon DEF HttpTypes
  <1>1. ASSUME UNCHANGED <<req, asked>>
        PROVE  BuildProxiedRequest(req)' = BuildProxiedRequest(req)
    BY <1>1, Zenon DEF BuildProxiedRequest, ForwardedHeaders
  <1>2. CASE Arrive  BY <1>2, Zenon DEF Arrive
  <1>3. CASE AnswerChallenge  BY <1>0, <1>3, Zenon DEF AnswerChallenge
  <1>4. CASE RouteMissing  BY <1>0, <1>4, Zenon DEF RouteMissing
  <1>5. CASE RouteMatched  BY <1>5, Zenon DEF RouteMatched
  <1>6. CASE PassOn  BY <1>6, Zenon DEF PassOn, Entering
  <1>7. CASE StartUpgrade  BY <1>7, Zenon DEF StartUpgrade, AtEndpoint
  <1>8. CASE SendRequest
    <2>1. /\ stage = "enter" /\ stage' = "wait" /\ Len(frames) = Len(chain)
          /\ sent' = Append(sent, BuildProxiedRequest(req)) /\ UNCHANGED <<req, asked, trail, route, chain, noted>>
      BY <1>8 DEF SendRequest, AtEndpoint
    <2>2. sent' = <<BuildProxiedRequest(req)>> /\ sent' # <<>>  BY <2>1
    <2>3. Len(trail) = Len(chain) + 1 /\ route # NoRoute
      <3>1. Len(trail) \in Nat /\ Len(frames) \in Nat /\ Len(frames) = Len(trail) - 1 /\ route # NoRoute
        BY <2>1, AppendAny, Zenon DEF HttpTypes, WalkInv, FramesInv
      <3> QED  BY <2>1, <3>1
    <2> QED  BY <1>1, <2>1, <2>2, <2>3, Zenon
  <1>9. CASE Leave  BY <1>1, <1>9, Zenon DEF Leave
  <1>10. CASE Finish  BY <1>1, <1>10, Zenon DEF Finish
  <1>11. CASE Answering
    <2>1. CASE stage = "wait"
      <3>1. Len(sent) = 1  BY <2>1, ShortSeqs, Zenon
      <3> QED  BY <1>1, <1>11, <2>1, <3>1, AnswerStep, ZenonT(40)
    <2>2. CASE stage # "wait"  BY <1>0, <1>1, <1>11, <2>2, AnswerStep, Zenon
    <2> QED  BY <2>1, <2>2
  <1>12. CASE UNCHANGED httpVars  BY <1>1, <1>12 DEF httpVars
  <1> QED  BY <1>2, <1>3, <1>4, <1>5, <1>6, <1>7, <1>8, <1>9, <1>10, <1>11, <1>12, HttpCases, Zenon

\* The access log.
LEMMA LogKept == HttpInv /\ [HttpNext]_httpVars => LogInv'
  <1> SUFFICES ASSUME HttpInv, [HttpNext]_httpVars PROVE LogInv'  OBVIOUS
  <1>0. LogInv /\ DOMAIN resp = AnswerParts  BY Zenon DEF HttpInv, HttpTypes
  <1> USE DEF LogInv, LoggedAsAnswered
  <1>1. CASE Arrive \/ RouteMatched \/ PassOn \/ StartUpgrade \/ SendRequest
    <2>1. stage # "done" /\ stage' # "done" /\ resp' = resp /\ logged' = logged
      <3>1. CASE Arrive  BY <3>1, Zenon DEF Arrive
      <3>2. CASE RouteMatched  BY <3>2, Zenon DEF RouteMatched
      <3>3. CASE PassOn  BY <3>3, Zenon DEF PassOn, Entering
      <3>4. CASE StartUpgrade  BY <3>4, Zenon DEF StartUpgrade, AtEndpoint
      <3>5. CASE SendRequest  BY <3>5, Zenon DEF SendRequest, AtEndpoint
      <3> QED  BY <1>1, <3>1, <3>2, <3>3, <3>4, <3>5, Zenon
    <2> QED  BY <1>0, <2>1, Zenon
  <1>2. CASE AnswerChallenge  BY <1>0, <1>2, Zenon DEF AnswerChallenge
  <1>3. CASE RouteMissing
    <2>1. /\ resp'.by = "proxy" /\ stage' = "done" /\ asked' = asked /\ route' = route
          /\ logged = <<>> /\ logged' = Append(logged, LogEntry(resp'.status))
      <3>1. stage = "accept" /\ resp' = ErrorResponse(404, asked.grpc)  BY <1>3, Zenon DEF RouteMissing
      <3>2. resp'.by = "proxy"  BY <3>1, ErrorShape, Zenon
      <3> QED  BY <1>0, <1>3, <3>1, <3>2, Zenon DEF RouteMissing
    <2>2. logged' = <<LogEntry(resp'.status)>>  BY <2>1
    <2> QED  BY <2>1, <2>2 DEF LogEntry
  <1>4. CASE Leave
    <2>1. resp'.by = resp.by /\ stage = "leave" /\ stage' = "leave" /\ logged' = logged
      BY <1>0, <1>4, UnwindKeeps DEF Leave
    <2> QED  BY <1>0, <2>1
  <1>5. CASE Finish  BY <1>0, <1>5 DEF Finish, LogEntry
  <1>6. CASE Answering  BY <1>0, <1>6, AnswerStep, Zenon
  <1>7. CASE UNCHANGED httpVars  BY <1>0, <1>7 DEF httpVars
  <1> HIDE DEF LogInv, LoggedAsAnswered
  <1> QED  BY <1>1, <1>2, <1>3, <1>4, <1>5, <1>6, <1>7, HttpCases

\* The header a CORS middleware owes, once the answer has passed it.
LEMMA CorsKept == HttpInv /\ [HttpNext]_httpVars => CorsInv'
  <1> SUFFICES ASSUME HttpInv, [HttpNext]_httpVars PROVE CorsInv'  OBVIOUS
  <1>a. HttpTypes /\ WalkInv /\ CorsInv  BY Zenon DEF HttpInv
  <1>0. chain \in Seq(Sections) /\ IsSeq(frames) /\ Len(trail) \in Nat /\ Len(frames) \in Nat
    BY <1>a, AppendAny, Zenon DEF HttpTypes
  <1>1. ASSUME UNCHANGED <<trail, chain>>, NEW i
        PROVE  (Owed(i) <=> Owed(i)') /\ CorsSays(i) = CorsSays(i)'
    BY <1>1, Zenon DEF Owed, CorsSays
  <1>2. CASE stage' \notin {"leave", "done"}  BY <1>2 DEF CorsInv
  <1>3. CASE AnswerChallenge \/ RouteMissing
    <2>1. Len(trail) = 1 /\ UNCHANGED <<trail, chain>>
      BY <1>a, <1>3 DEF AnswerChallenge, RouteMissing, WalkInv, FramesInv
    <2>2. \A i \in DOMAIN chain : ~(i < 1)
      <3>1. chain \in Seq(Sections)  BY <1>0
      <3> HIDE DEF Sections
      <3> QED  BY <3>1
    <2>3. \A i \in DOMAIN chain : ~(i < Len(trail'))  BY <2>1, <2>2, Zenon
    <2> QED  BY <2>1, <2>3, Zenon DEF CorsInv, Owed
  <1>4. CASE Answering
    <2>1. UNCHANGED <<trail, chain, frames>> /\ Len(frames) = Len(trail) - 1
      BY <1>a, <1>4, AnswerStep, Zenon DEF WalkInv, FramesInv
    <2>2. \A i \in DOMAIN chain : Owed(i)' => i <= Len(frames')  BY <1>0, <2>1 DEF Owed
    <2> QED  BY <1>0, <2>1, <2>2 DEF CorsInv
  <1>5. CASE Leave
    <2> DEFINE n == Len(frames)
    <2>1. /\ stage = "leave" /\ frames # <<>> /\ frames' = Front(frames) /\ UNCHANGED <<trail, chain>>
          /\ resp' = Unwind(chain[n], frames[n], resp)
      BY <1>5, Zenon DEF Leave, Front
    <2>2. n \in Nat \ {0} /\ Len(frames') = n - 1 /\ DOMAIN resp = AnswerParts
      BY <1>a, <1>0, <2>1, FrontAny, Zenon DEF HttpTypes
    <2>3. frames[n] = Header(trail[n].hdr, "origin")
      BY <1>a, <2>1, <2>2 DEF WalkInv, FramesInv
    <2>4. ASSUME NEW i \in DOMAIN chain, Owed(i), n - 1 < i
          PROVE  Header(resp'.hdr, "allow-origin") = CorsSays(i)
      <3> DEFINE origin == Header(trail[i].hdr, "origin")
      <3>1. CASE i = n
        <4>1. origin # Nil /\ IsOriginAllowed(chain[i], origin) /\ CorsSays(i) = OriginValue(chain[i], origin)
          BY <2>4, Zenon DEF Owed, CorsSays
        <4> HIDE DEF origin
        <4>2. chain[i].kind = "headers" /\ HasCors(chain[i])  BY <2>4, Zenon DEF Owed
        <4>3. resp' = Unwind(chain[i], origin, resp)  BY <2>1, <2>3, <3>1, Zenon DEF origin
        <4> QED  BY <2>2, <4>1, <4>2, <4>3, UnwindWrites, Zenon
      <3>2. CASE i # n
        <4>1. n < i /\ n \in 1 .. i - 1  BY <1>0, <2>2, <2>4, <3>2
        <4>2. ~Writes(chain[n])  BY <2>4, <4>1, Zenon DEF Owed
        <4>3. Header(resp.hdr, "allow-origin") = CorsSays(i)  BY <1>a, <2>1, <2>4, <4>1, Zenon DEF CorsInv
        <4> QED  BY <2>1, <2>2, <4>2, <4>3, UnwindLeaves, ZenonT(40)
      <3> QED  BY <3>1, <3>2, Zenon
    <2> QED  BY <1>1, <2>1, <2>2, <2>4, Zenon DEF CorsInv
  <1>6. CASE Finish
    <2>1. /\ stage = "leave" /\ UNCHANGED <<trail, chain, frames, resp>>  BY <1>6, Zenon DEF Finish
    <2> QED  BY <1>a, <1>1, <2>1 DEF CorsInv
  <1>7. CASE UNCHANGED httpVars  BY <1>a, <1>1, <1>7, Zenon DEF httpVars, CorsInv
  <1>8. CASE Arrive \/ RouteMatched \/ PassOn \/ StartUpgrade \/ SendRequest
    BY <1>2, <1>8 DEF Arrive, RouteMatched, PassOn, Entering, StartUpgrade, SendRequest
  <1> QED  BY <1>3, <1>4, <1>5, <1>6, <1>7, <1>8, HttpCases

-----------------------------------------------------------------------------
(* The theorems.                                                           *)

\* The invariant is inductive.
LEMMA HttpInductive == HttpSpec => []HttpInv
  <1>1. HttpInv /\ [HttpNext]_httpVars => HttpInv'
    BY TypesKept, WalkKept, SentKept, LogKept, CorsKept DEF HttpInv
  <1> QED  BY HttpStart, <1>1, PTL DEF HttpSpec

\* Whatever the routes, the middlewares and the requests are, a backend is sent
\* only what every middleware of the route let through, with the client's real
\* address and scheme, its own Host and no hop-by-hop header (Next::run,
\* middleware/mod.rs, and build_proxied_request, proxy/handler.rs).
THEOREM BackendsGetChecked == HttpSpec => []SentIsChecked
  <1>1. HttpInv => OnlyCheckedIsSent
    <2> SUFFICES ASSUME HttpInv, sent # <<>> PROVE OnlyCheckedIsSent
      BY DEF OnlyCheckedIsSent
    <2>1. /\ sent = <<BuildProxiedRequest(req)>> /\ Len(trail) = Len(chain) + 1 /\ route # NoRoute
          /\ stage # "none"
      BY Zenon DEF HttpInv, SentInv
    <2>2. InOrder  BY <2>1 DEF HttpInv, WalkInv
    <2>3. chain \in Seq(Sections)  BY DEF HttpInv, HttpTypes
    <2>4. DOMAIN chain = 1 .. Len(trail) - 1  BY <2>1, <2>3
    <2>5. sent[1].path = req.path  BY <2>1 DEF BuildProxiedRequest
    <2>6. \A i \in DOMAIN chain : /\ Verdict(chain[i], trail[i]) = NoResp
                                  /\ trail[i + 1] = Transform(chain[i], trail[i])
      BY <2>2, <2>4 DEF InOrder
    <2>7. trail[1] = asked /\ sent[1].path = trail[Len(trail)].path  BY <2>2, <2>5, Zenon DEF InOrder
    <2> QED  BY <2>1, <2>6, <2>7, Zenon DEF OnlyCheckedIsSent
  <1>2. HttpInv => BackendToldTheTruth
    <2> SUFFICES ASSUME HttpInv, sent # <<>> PROVE BackendToldTheTruth
      BY DEF BackendToldTheTruth
    <2>1. sent = <<BuildProxiedRequest(req)>> /\ stage # "none"  BY Zenon DEF HttpInv, SentInv
    <2>2. req.ip = asked.ip /\ req.tls = asked.tls  BY <2>1 DEF HttpInv, WalkInv
    <2>3. sent[1].hdr = BuildProxiedRequest(req).hdr  BY <2>1
    <2> QED  BY <2>2, <2>3, BuiltTruthfully, Zenon DEF BackendToldTheTruth
  <1> QED  BY HttpInductive, <1>1, <1>2, PTL DEF SentIsChecked

\* Whatever the configuration, an answer carries the header of the outermost
\* CORS middleware its request got past, error or not; it is logged once, as
\* the client gets it; and passive health hears exactly of the requests that
\* were sent (registry.rs HeadersAndCorsWrapper, proxy/handler.rs handle).
THEOREM AnswersAreAccounted == HttpSpec => []AnswersAccounted
  <1>1. HttpInv => CorsOnEveryAnswer
    <2> SUFFICES ASSUME HttpInv, stage = "done", NEW i \in DOMAIN chain, Owed(i)
                 PROVE  Header(resp.hdr, "allow-origin") = CorsSays(i)
      BY Zenon DEF CorsOnEveryAnswer, Owed
    <2>1. frames = <<>> /\ Len(frames) = 0  BY ShortSeqs DEF HttpInv, WalkInv, FramesInv
    <2>2. chain \in Seq(Sections)  BY DEF HttpInv, HttpTypes
    <2>3. Len(frames) < i  BY <2>1, <2>2
    <2> QED  BY <2>3, Zenon DEF HttpInv, CorsInv
  <1>2. HttpInv => LoggedAsAnswered /\ HealthHearsBackendOnly
    BY DEF HttpInv, LogInv, SentInv, HealthHearsBackendOnly
  <1> QED  BY HttpInductive, <1>1, <1>2, PTL DEF AnswersAccounted
=============================================================================
