------------------------ MODULE SessionRecordsProofs ------------------------
(***************************************************************************)
(* What a session streams and keeps, for any number of grants, scopes,     *)
(* records, snapshots, calls and files: grants and scopes end with what they *)
(* belong to, a message grows at its end, the audit trail loses no record, a *)
(* session resumes from its own snapshots, a file never holds half a text. *)
(* Each part has an inductive invariant of its own; a step of the whole is a *)
(* step of one part or leaves it alone.                                    *)
(***************************************************************************)
EXTENDS MCSessionRecords, SequencesExt, FiniteSetTheorems, NaturalsInduction, WellFoundedInduction, TLAPS

(* Sets of natural numbers have a least element.                           *)
Ascends(R) == \A x, y \in Nat : x < y => <<x, y>> \in R

LEMMA AscendsLeast ==
  ASSUME NEW S, S \subseteq Nat, NEW R, Ascends(R), NEW x \in S, \A y \in S : ~(<<y, x>> \in R)
  PROVE  \A y \in S : x <= y
<1> SUFFICES ASSUME NEW y \in S PROVE x <= y
  OBVIOUS
<1>1. ~(y < x)
  BY DEF Ascends
<1> QED
  BY <1>1

LEMMA LeastNumber ==
  ASSUME NEW S, S \subseteq Nat, S # {}
  PROVE  \E x \in S : \A y \in S : x <= y
<1>1. \E R : IsWellFoundedOn(R, Nat) /\ Ascends(R)
  <2>1. IsWellFoundedOn(OpToRel(<, Nat), Nat)
    BY NatLessThanWellFounded, Zenon
  <2>2. Ascends(OpToRel(<, Nat))
    BY DEF OpToRel, Ascends
  <2> QED
    BY <2>1, <2>2, Zenon
<1>2. PICK R : IsWellFoundedOn(R, Nat) /\ Ascends(R)
  BY <1>1
<1>3. IsWellFoundedOn(R, Nat)
  BY <1>2
<1>4. \E x \in S : \A y \in S : ~(<<y, x>> \in R)
  BY <1>3, WFMin
<1> QED
  BY <1>2, <1>4, AscendsLeast

-----------------------------------------------------------------------------
(***************************************************************************)
(* Grants and the executions of stages they belong to.                     *)
(***************************************************************************)
GrantsInv ==
  /\ tokens \subseteq GrantTuples
  /\ keysByStage \in [Executions -> SUBSET GrantTuples]
  /\ SA!GrantsExpireWithStage

(* The grants of a stage: the store's maps agree with each other and with  *)
(* what was issued, from the start and across each of its operations.      *)
LEMMA GrantsInit == SA!SAInit => GrantsInv
  BY DEF SA!SAInit, GrantsInv, SA!GrantsExpireWithStage

LEMMA GrantsIssued ==
  ASSUME GrantsInv, NEW t \in GrantTuples, SA!issueGrant(t)
  PROVE  GrantsInv'
<1>1. ExecutionOf[t] \in Executions
  BY GrantsAssumption
<1>2. /\ tokens' \subseteq GrantTuples /\ tokens' = usable'
      /\ keysByStage' \in [Executions -> SUBSET GrantTuples]
      /\ tokens' \cap consumed' = {}
  BY <1>1 DEF SA!issueGrant, GrantsInv, SA!GrantsExpireWithStage
<1>3. ASSUME NEW e \in Executions
      PROVE  keysByStage'[e] = {g \in tokens' : ExecutionOf[g] = e}
  BY <1>1 DEF SA!issueGrant, GrantsInv, SA!GrantsExpireWithStage
<1>4. \A g \in tokens' : ExecutionOf[g] \notin cleared'
  BY DEF SA!issueGrant, GrantsInv, SA!GrantsExpireWithStage
<1> QED
  BY <1>2, <1>3, <1>4 DEF GrantsInv, SA!GrantsExpireWithStage

LEMMA GrantsConsumed ==
  ASSUME GrantsInv, NEW t \in GrantTuples, SA!consumeGrant(t)
  PROVE  GrantsInv'
<1>1. ExecutionOf[t] \in Executions
  BY GrantsAssumption
<1>2. /\ tokens' \subseteq GrantTuples /\ tokens' = usable'
      /\ keysByStage' \in [Executions -> SUBSET GrantTuples]
      /\ tokens' \cap consumed' = {}
      /\ \A g \in tokens' : ExecutionOf[g] \notin cleared'
  BY <1>1 DEF SA!consumeGrant, GrantsInv, SA!GrantsExpireWithStage
<1>3. ASSUME NEW e \in Executions
      PROVE  keysByStage'[e] = {g \in tokens' : ExecutionOf[g] = e}
  BY <1>1 DEF SA!consumeGrant, GrantsInv, SA!GrantsExpireWithStage
<1> QED
  BY <1>2, <1>3 DEF GrantsInv, SA!GrantsExpireWithStage

LEMMA GrantsCleared ==
  ASSUME GrantsInv, NEW e \in Executions, SA!clearStageGrants(e)
  PROVE  GrantsInv'
<1>1. /\ tokens' \subseteq GrantTuples /\ tokens' = usable'
      /\ keysByStage' \in [Executions -> SUBSET GrantTuples]
      /\ tokens' \cap consumed' = {}
      /\ \A g \in tokens' : ExecutionOf[g] \notin cleared'
  BY DEF SA!clearStageGrants, GrantsInv, SA!GrantsExpireWithStage
<1>2. ASSUME NEW x \in Executions
      PROVE  keysByStage'[x] = {g \in tokens' : ExecutionOf[g] = x}
  BY DEF SA!clearStageGrants, GrantsInv, SA!GrantsExpireWithStage
<1> QED
  BY <1>1, <1>2 DEF GrantsInv, SA!GrantsExpireWithStage

LEMMA GrantsStep == GrantsInv /\ [SA!SANext]_saVars => GrantsInv'
<1> SUFFICES ASSUME GrantsInv, [SA!SANext]_saVars PROVE GrantsInv'
  OBVIOUS
<1> DEFINE Attaches ==
      \/ \E m \in Machines, s \in SA!Slot, r \in BOOLEAN : SA!attachCalled(m, s, r)
      \/ \E m \in Machines : SA!slotWritten(m) \/ SA!slotRead(m) \/ SA!attachReturns(m)
                             \/ SA!attachThrows(m) \/ SA!audited(m)
<1>1. CASE \E t \in GrantTuples : SA!issueGrant(t) \/ SA!consumeGrant(t)
  BY <1>1, GrantsIssued, GrantsConsumed
<1>2. CASE \E e \in Executions : SA!clearStageGrants(e)
  BY <1>2, GrantsCleared
<1>3. CASE Attaches \/ UNCHANGED saVars
  <2>1. UNCHANGED <<tokens, consumed, cleared, keysByStage, usable>>
    BY <1>3 DEF SA!attachCalled, SA!slotWritten, SA!slotRead, SA!attachReturns, SA!attachThrows,
                SA!audited, SA!grantVars, saVars
  <2> QED
    BY <2>1 DEF GrantsInv, SA!GrantsExpireWithStage
<1> QED
  BY <1>1, <1>2, <1>3 DEF SA!SANext

-----------------------------------------------------------------------------
(***************************************************************************)
(* Cancellation scopes, the newer below the older, and the turns.          *)
(***************************************************************************)
ScopeRecord == [kind : TSC!Kinds_, parent : Nat, aborted : TSC!Codes \cup {TSC!Live}]

ScopesInv ==
  /\ scopes \in Seq(ScopeRecord)
  /\ Len(scopes) >= 1
  /\ \A k \in 1..Len(scopes) :
       /\ scopes[k].parent < k
       /\ scopes[k].parent > 0 /\ scopes[scopes[k].parent].aborted /= TSC!Live
            => scopes[k].aborted /= TSC!Live

(* A number's parent is smaller, so that what lies below a number is       *)
(* defined by what its parent does.                                        *)
IsBelow(b, i, n, P) ==
  /\ b \in [0..n -> BOOLEAN]
  /\ \A k \in 0..n : b[k] <=> k = i \/ (k > i /\ b[P[k]])

LEMMA BelowExtends ==
  ASSUME NEW n \in Nat, NEW P, \A k \in 1..n : P[k] \in 0..(k - 1), NEW i \in 1..n,
         NEW m \in 1..n, NEW b, IsBelow(b, i, m - 1, P)
  PROVE  \E c : IsBelow(c, i, m, P)
<1> DEFINE c == [k \in 0..m |-> IF k < m THEN b[k] ELSE m = i \/ (m > i /\ b[P[m]])]
<1>1. c \in [0..m -> BOOLEAN]
  <2>1. \A k \in 0..m : k < m => k \in 0..(m - 1) /\ b[k] \in BOOLEAN
    BY DEF IsBelow
  <2>2. (m = i \/ (m > i /\ b[P[m]])) \in BOOLEAN
    OBVIOUS
  <2> DEFINE last == m = i \/ (m > i /\ b[P[m]])
  <2>3. c = [k \in 0..m |-> IF k < m THEN b[k] ELSE last]
    OBVIOUS
  <2> HIDE DEF last, c
  <2>4. last \in BOOLEAN
    BY <2>2 DEF last
  <2> QED
    BY <2>1, <2>3, <2>4
<1>2. \A k \in 0..(m - 1) : c[k] = b[k]
  OBVIOUS
<1>3. c[m] = (m = i \/ (m > i /\ b[P[m]]))
  OBVIOUS
<1>4. P[m] \in 0..(m - 1)
  OBVIOUS
<1> HIDE DEF c
<1>5. ASSUME NEW k \in 0..m
      PROVE  c[k] <=> k = i \/ (k > i /\ c[P[k]])
  <2>1. CASE k < m /\ k > i
    <3>1. k \in 0..(m - 1) /\ P[k] \in 0..(m - 1)
      BY <2>1
    <3>2. c[k] = b[k] /\ c[P[k]] = b[P[k]]
      BY <1>2, <3>1
    <3>3. b[k] <=> k = i \/ (k > i /\ b[P[k]])
      BY <3>1 DEF IsBelow
    <3> QED
      BY <3>2, <3>3
  <2>2. CASE k < m /\ ~(k > i)
    <3>1. k \in 0..(m - 1)
      BY <2>2
    <3>2. b[k] <=> k = i \/ (k > i /\ b[P[k]])
      BY <3>1 DEF IsBelow
    <3> QED
      BY <1>2, <2>2, <3>1, <3>2
  <2>3. CASE k = m
    BY <1>2, <1>3, <1>4, <2>3
  <2> QED
    BY <2>1, <2>2, <2>3
<1> QED
  BY <1>1, <1>5 DEF IsBelow

LEMMA BelowExists ==
  ASSUME NEW n \in Nat, NEW P, \A k \in 1..n : P[k] \in 0..(k - 1), NEW i \in 1..n
  PROVE  \E b : IsBelow(b, i, n, P)
<1> DEFINE S == {m \in 0..n : ~\E b : IsBelow(b, i, m, P)}
<1> SUFFICES ASSUME S # {} PROVE FALSE
  OBVIOUS
<1>1. S \subseteq Nat
  OBVIOUS
<1>2. \A m \in S : m \in 0..n /\ ~\E b : IsBelow(b, i, m, P)
  OBVIOUS
<1>3. \A m \in 0..n : m \notin S => \E b : IsBelow(b, i, m, P)
  OBVIOUS
<1> HIDE DEF S
<1>4. PICK m \in S : \A y \in S : m <= y
  BY <1>1, LeastNumber
<1>5. m \in 0..n /\ ~\E b : IsBelow(b, i, m, P)
  BY <1>2
<1>6. CASE m = 0
  <2>1. IsBelow([k \in 0..0 |-> FALSE], i, 0, P)
    BY DEF IsBelow
  <2> QED
    BY <1>5, <1>6, <2>1
<1>7. CASE m # 0
  <2>1. m \in 1..n /\ m - 1 \in 0..n /\ m - 1 \notin S
    BY <1>4, <1>5, <1>7
  <2>2. \E b : IsBelow(b, i, m - 1, P)
    BY <1>3, <2>1
  <2> QED
    BY <1>5, <2>1, <2>2, BelowExtends
<1> QED
  BY <1>6, <1>7

ParentOfScope == [k \in 1..Len(scopes) |-> scopes[k].parent]

LEMMA ParentTyped ==
  ASSUME ScopesInv
  PROVE  \A k \in 1..Len(scopes) : ParentOfScope[k] = scopes[k].parent /\ ParentOfScope[k] \in 0..(k - 1)
<1> SUFFICES ASSUME NEW k \in 1..Len(scopes)
             PROVE  ParentOfScope[k] = scopes[k].parent /\ ParentOfScope[k] \in 0..(k - 1)
  OBVIOUS
<1>1. scopes[k] \in ScopeRecord /\ scopes[k].parent < k
  BY DEF ScopesInv
<1>2. scopes[k].parent \in Nat
  BY <1>1 DEF ScopeRecord
<1> QED
  BY <1>1, <1>2 DEF ParentOfScope

LEMMA BelowUnfolds ==
  ASSUME ScopesInv, NEW i \in 1..Len(scopes), NEW j \in 1..Len(scopes)
  PROVE  /\ TSC!Below(i, j) <=> j = i \/ (j > i /\ TSC!Below(i, scopes[j].parent))
         /\ ~TSC!Below(i, 0)
<1> DEFINE G(b) == [k \in 0..Len(scopes) |-> k = i \/ (k > i /\ b[scopes[k].parent])]
           B == CHOOSE b : b = G(b)
<1>1. PICK b : IsBelow(b, i, Len(scopes), ParentOfScope)
  <2>1. Len(scopes) \in Nat
    BY DEF ScopesInv
  <2> QED
    BY <2>1, ParentTyped, BelowExists
<1>2. b = G(b)
  <2>1. ASSUME NEW k \in 0..Len(scopes)
        PROVE  b[k] = (k = i \/ (k > i /\ b[scopes[k].parent]))
    <3>1. k > i => k \in 1..Len(scopes) /\ ParentOfScope[k] = scopes[k].parent
      BY ParentTyped DEF ScopesInv
    <3>2. b[k] \in BOOLEAN /\ (b[k] <=> k = i \/ (k > i /\ b[ParentOfScope[k]]))
      BY <1>1 DEF IsBelow
    <3>3. b[k] <=> k = i \/ (k > i /\ b[scopes[k].parent])
      BY <3>1, <3>2
    <3> QED
      BY <3>2, <3>3, Zenon
  <2>2. \A k \in 0..Len(scopes) : b[k] = G(b)[k]
    BY <2>1
  <2> QED
    BY <1>1, <2>2 DEF IsBelow
<1>3. B = G(B)
  <2> HIDE DEF G
  <2> QED
    BY <1>2
<1>4. \A k : TSC!Below(i, k) = B[k]
  BY DEF TSC!Below
<1>5. \A k \in 0..Len(scopes) : G(B)[k] = (k = i \/ (k > i /\ B[scopes[k].parent]))
  OBVIOUS
<1>6. j \in 0..Len(scopes) /\ 0 \in 0..Len(scopes)
  BY DEF ScopesInv
<1> HIDE DEF B, G
<1>7. /\ B[j] = (j = i \/ (j > i /\ B[scopes[j].parent]))
      /\ B[0] = (0 = i \/ (0 > i /\ B[scopes[0].parent]))
  BY <1>3, <1>5, <1>6
<1>8. ~B[0]
  <2>1. 0 # i /\ ~(0 > i)
    OBVIOUS
  <2> QED
    BY <1>7, <2>1
<1> QED
  BY <1>4, <1>7, <1>8

LEMMA AbortsReach == ScopesInv => TSC!AbortReachesBelow
<1> SUFFICES ASSUME ScopesInv, NEW i \in DOMAIN scopes, scopes[i].aborted /= TSC!Live,
                    NEW j \in DOMAIN scopes, TSC!Below(i, j), scopes[j].aborted = TSC!Live
             PROVE  FALSE
  BY DEF TSC!AbortReachesBelow
<1> DEFINE S == {k \in 1..Len(scopes) : TSC!Below(i, k) /\ scopes[k].aborted = TSC!Live}
<1>1. DOMAIN scopes = 1..Len(scopes) /\ Len(scopes) \in Nat
  BY DEF ScopesInv
<1>2. S \subseteq Nat /\ S # {}
  BY <1>1
<1>3. \A k : k \in S <=> k \in 1..Len(scopes) /\ TSC!Below(i, k) /\ scopes[k].aborted = TSC!Live
  OBVIOUS
<1> HIDE DEF S
<1>4. PICK k \in S : \A y \in S : k <= y
  BY <1>2, LeastNumber
<1>5. k \in 1..Len(scopes) /\ TSC!Below(i, k) /\ scopes[k].aborted = TSC!Live
  BY <1>3, <1>4
<1>6. PICK p \in 0..(k - 1) : p = scopes[k].parent
  BY <1>5, ParentTyped
<1>7. TSC!Below(i, p) /\ ~TSC!Below(i, 0)
  <2>1. k # i
    BY <1>5
  <2> QED
    BY <1>1, <1>5, <1>6, <2>1, BelowUnfolds
<1>8. p \in 1..Len(scopes) /\ p < k
  <2>1. p # 0
    BY <1>7
  <2> QED
    BY <1>1, <1>5, <1>6, <2>1
<1>9. scopes[p].aborted = TSC!Live
  BY <1>5, <1>6, <1>8 DEF ScopesInv
<1>10. p \in S
  BY <1>3, <1>7, <1>8, <1>9
<1> QED
  BY <1>1, <1>4, <1>5, <1>8, <1>10

TurnsInv ==
  /\ turns \in Seq(Nat) /\ started \in Seq(Nat)
  /\ \A i \in 1..Len(turns) : turns[i] <= Len(scopes)
  /\ \A i \in 1..Len(started) : started[i] <= Len(scopes)
  /\ \A i, j \in 1..Len(turns) : i < j => turns[i] < turns[j]
  /\ \A i, j \in 1..Len(started) : i < j => started[i] < started[j]
  /\ \A i \in 1..Len(turns), j \in 1..Len(started) : started[j] < turns[i]

LEMMA TurnsOrdered == TurnsInv => TSC!TurnsInOrder
<1> SUFFICES ASSUME TurnsInv PROVE TSC!TurnsInOrder
  OBVIOUS
<1>1. DOMAIN started = 1..Len(started) /\ DOMAIN turns = 1..Len(turns)
  BY DEF TurnsInv
<1>2. \A i, j \in DOMAIN started : i < j => started[i] < started[j]
  BY <1>1 DEF TurnsInv
<1>3. ASSUME NEW t \in TSC!ToSet(turns), NEW u \in TSC!ToSet(started) PROVE u < t
  <2>1. PICK i \in 1..Len(turns) : turns[i] = t
    BY <1>1, <1>3 DEF TSC!ToSet
  <2>2. PICK j \in 1..Len(started) : started[j] = u
    BY <1>1, <1>3 DEF TSC!ToSet
  <2>3. started[j] < turns[i]
    BY DEF TurnsInv
  <2> QED
    BY <2>1, <2>2, <2>3
<1> QED
  BY <1>2, <1>3 DEF TSC!TurnsInOrder

LEMMA ScopesInit == TSC!TSCInit => ScopesInv /\ TurnsInv
<1> SUFFICES ASSUME TSC!TSCInit PROVE ScopesInv /\ TurnsInv
  OBVIOUS
<1> DEFINE r == [kind |-> "session", parent |-> 0, aborted |-> TSC!Live]
<1>1. scopes = <<r>> /\ turns = <<>> /\ started = <<>>
  BY DEF TSC!TSCInit
<1>2. r \in ScopeRecord
  BY DEF ScopeRecord, TSC!Kinds_
<1>3. r.parent = 0
  OBVIOUS
<1> HIDE DEF r
<1>4. ScopesInv
  BY <1>1, <1>2, <1>3 DEF ScopesInv
<1>5. TurnsInv
  BY <1>1 DEF TurnsInv
<1> QED
  BY <1>4, <1>5

LEMMA ChildKeeps ==
  ASSUME ScopesInv, NEW kind \in TSC!Kinds_, NEW p \in 1..Len(scopes), TSC!child(kind, p)
  PROVE  ScopesInv' /\ Len(scopes') = Len(scopes) + 1
<1> DEFINE r == TSC!buildScope(kind, p)
<1>1. scopes[p] \in ScopeRecord
  BY DEF ScopesInv
<1>2. r \in ScopeRecord /\ r.parent = p /\ r.aborted = scopes[p].aborted
  BY <1>1 DEF TSC!buildScope, ScopeRecord, ScopesInv
<1>3. scopes' = Append(scopes, r)
  BY DEF TSC!child
<1> HIDE DEF r
<1>4. /\ scopes' \in Seq(ScopeRecord) /\ Len(scopes') = Len(scopes) + 1 /\ Len(scopes') \in Nat
      /\ \A k \in 1..Len(scopes) : scopes'[k] = scopes[k]
      /\ scopes'[Len(scopes) + 1] = r
  BY <1>2, <1>3 DEF ScopesInv
<1>5. ASSUME NEW k \in 1..Len(scopes')
      PROVE  /\ scopes'[k].parent < k
             /\ scopes'[k].parent > 0 /\ scopes'[scopes'[k].parent].aborted /= TSC!Live
                  => scopes'[k].aborted /= TSC!Live
  <2>1. CASE k \in 1..Len(scopes)
    <3>1. scopes[k].parent \in 0..(k - 1)
      BY <2>1, ParentTyped
    <3>2. scopes[k].parent > 0 => scopes[k].parent \in 1..Len(scopes)
      BY <2>1, <3>1
    <3> QED
      BY <1>4, <2>1, <3>1, <3>2 DEF ScopesInv
  <2>2. CASE k = Len(scopes) + 1
    BY <1>2, <1>4, <2>2
  <2> QED
    BY <1>4, <2>1, <2>2
<1> QED
  BY <1>4, <1>5 DEF ScopesInv

LEMMA CancelKeeps ==
  ASSUME ScopesInv, NEW i \in 1..Len(scopes), TSC!cancel(i)
  PROVE  ScopesInv' /\ Len(scopes') = Len(scopes)
<1> DEFINE Cancelled(j) == [scopes[j] EXCEPT !.aborted = TSC!scopeCodeForKind(scopes[j].kind)]
<1>1. DOMAIN scopes = 1..Len(scopes) /\ Len(scopes) \in Nat
  BY DEF ScopesInv
<1>2. scopes' = [j \in 1..Len(scopes) |-> IF j \in TSC!Reached(i) THEN Cancelled(j) ELSE scopes[j]]
  BY <1>1 DEF TSC!cancel
<1>3. \A j \in 1..Len(scopes) : scopes[j] \in ScopeRecord
  BY DEF ScopesInv
<1>4. \A j \in 1..Len(scopes) : /\ Cancelled(j) \in ScopeRecord
                               /\ Cancelled(j).parent = scopes[j].parent
                               /\ Cancelled(j).aborted /= TSC!Live
  <2> SUFFICES ASSUME NEW j \in 1..Len(scopes)
               PROVE  /\ Cancelled(j) \in ScopeRecord
                      /\ Cancelled(j).parent = scopes[j].parent
                      /\ Cancelled(j).aborted /= TSC!Live
    OBVIOUS
  <2>1. TSC!scopeCodeForKind(scopes[j].kind) \in TSC!Codes /\ TSC!Live \notin TSC!Codes
    BY <1>3 DEF TSC!Codes, TSC!Live, TSC!scopeCodeForKind, ScopeRecord
  <2>2. scopes[j] \in ScopeRecord
    BY <1>3
  <2> QED
    BY <2>1, <2>2 DEF ScopeRecord
<1> HIDE DEF Cancelled
<1>5. scopes' \in Seq(ScopeRecord) /\ Len(scopes') = Len(scopes)
  BY <1>1, <1>2, <1>3, <1>4
<1>6. \A j \in 1..Len(scopes) : scopes'[j].parent = scopes[j].parent
  BY <1>2, <1>4
<1>7. \A j \in 1..Len(scopes) : scopes'[j].aborted = TSC!Live <=>
        scopes[j].aborted = TSC!Live /\ ~TSC!Below(i, j)
  BY <1>1, <1>2, <1>4 DEF TSC!Reached
<1>8. ASSUME NEW k \in 1..Len(scopes), scopes[k].parent > 0,
             scopes'[scopes[k].parent].aborted /= TSC!Live, scopes'[k].aborted = TSC!Live
      PROVE  FALSE
  <2> DEFINE p == scopes[k].parent
  <2>1. p \in 1..Len(scopes) /\ p < k
    BY <1>1, <1>8, ParentTyped
  <2>2. scopes[k].aborted = TSC!Live /\ ~TSC!Below(i, k)
    BY <1>7, <1>8
  <2>3. scopes[p].aborted = TSC!Live
    BY <1>8, <2>1, <2>2 DEF ScopesInv
  <2>4. TSC!Below(i, p)
    BY <1>7, <1>8, <2>1, <2>3
  <2>5. p >= i
    BY <1>1, <2>1, <2>4, BelowUnfolds
  <2>6. TSC!Below(i, k)
    BY <1>1, <2>1, <2>4, <2>5, BelowUnfolds
  <2> QED
    BY <2>2, <2>6
<1>9. \A k \in 1..Len(scopes) : scopes[k].parent < k
  BY DEF ScopesInv
<1> QED
  BY <1>1, <1>5, <1>6, <1>8, <1>9 DEF ScopesInv

LEMMA EnqueueKeeps ==
  ASSUME ScopesInv, TurnsInv, TSC!enqueueTurn
  PROVE  ScopesInv' /\ TurnsInv'
<1>0. Len(scopes) \in Nat /\ Len(scopes) >= 1
  BY DEF ScopesInv
<1>1. ScopesInv' /\ Len(scopes') = Len(scopes) + 1
  <2>1. TSC!child("turn", 1) /\ "turn" \in TSC!Kinds_ /\ 1 \in 1..Len(scopes)
    BY <1>0 DEF TSC!enqueueTurn, TSC!Session, TSC!Kinds_
  <2> QED
    BY <2>1, ChildKeeps
<1>2. turns' = Append(turns, Len(scopes) + 1) /\ started' = started
  BY DEF TSC!enqueueTurn
<1>3. /\ turns' \in Seq(Nat) /\ Len(turns') = Len(turns) + 1 /\ Len(turns) \in Nat
      /\ \A i \in 1..Len(turns) : turns'[i] = turns[i] /\ turns[i] \in Nat
      /\ turns'[Len(turns) + 1] = Len(scopes) + 1
  BY <1>0, <1>2 DEF TurnsInv
<1>4. /\ started' \in Seq(Nat) /\ Len(started') = Len(started)
      /\ \A i \in 1..Len(started) : started'[i] = started[i] /\ started[i] \in Nat
  BY <1>2 DEF TurnsInv
<1>10. \A i \in 1..Len(turns') : i \in 1..Len(turns) \/ i = Len(turns) + 1
  BY <1>3
<1>11. /\ \A i \in 1..Len(turns) : turns[i] <= Len(scopes)
       /\ \A i, j \in 1..Len(turns) : i < j => turns[i] < turns[j]
       /\ \A i \in 1..Len(turns), j \in 1..Len(started) : started[j] < turns[i]
       /\ \A j \in 1..Len(started) : started[j] <= Len(scopes)
  BY DEF TurnsInv
<1>5. ASSUME NEW i \in 1..Len(turns') PROVE turns'[i] <= Len(scopes')
  BY <1>0, <1>1, <1>3, <1>10, <1>11
<1>6. ASSUME NEW i \in 1..Len(started') PROVE started'[i] <= Len(scopes')
  BY <1>0, <1>1, <1>4 DEF TurnsInv
<1>7. ASSUME NEW i \in 1..Len(turns'), NEW j \in 1..Len(turns'), i < j PROVE turns'[i] < turns'[j]
  <2>1. i \in 1..Len(turns)
    BY <1>3, <1>7
  <2>2. CASE j \in 1..Len(turns)
    BY <1>3, <1>7, <1>11, <2>1, <2>2
  <2>3. CASE j = Len(turns) + 1
    <3>1. turns'[i] = turns[i] /\ turns[i] \in Nat /\ turns[i] <= Len(scopes)
      BY <1>3, <1>11, <2>1
    <3> QED
      BY <1>0, <1>3, <2>3, <3>1
  <2> QED
    BY <1>10, <2>2, <2>3
<1>8. \A i, j \in 1..Len(started') : i < j => started'[i] < started'[j]
  BY <1>2 DEF TurnsInv
<1>9. ASSUME NEW i \in 1..Len(turns'), NEW j \in 1..Len(started') PROVE started'[j] < turns'[i]
  <2>1. j \in 1..Len(started) /\ started'[j] = started[j] /\ started[j] \in Nat
    BY <1>4
  <2>2. CASE i \in 1..Len(turns)
    BY <1>3, <1>11, <2>1, <2>2
  <2>3. CASE i = Len(turns) + 1
    BY <1>0, <1>3, <1>11, <2>1, <2>3
  <2> QED
    BY <1>10, <2>2, <2>3
<1> QED
  BY <1>1, <1>3, <1>4, <1>5, <1>6, <1>7, <1>8, <1>9 DEF TurnsInv

LEMMA StartsKeeps ==
  ASSUME ScopesInv, TurnsInv, TSC!turnStarts
  PROVE  ScopesInv' /\ TurnsInv'
<1>0. Len(scopes) \in Nat
  BY DEF ScopesInv
<1>1. ScopesInv' /\ scopes' = scopes
  BY DEF TSC!turnStarts, ScopesInv
<1>2. started' = Append(started, turns[1]) /\ turns' = Tail(turns) /\ turns # <<>>
  BY DEF TSC!turnStarts, TurnsInv
<1>3. Len(turns) \in Nat \ {0} /\ turns[1] \in Nat
  BY <1>2 DEF TurnsInv
<1>4. /\ turns' \in Seq(Nat) /\ Len(turns') = Len(turns) - 1
      /\ \A i \in 1..(Len(turns) - 1) : turns'[i] = turns[i + 1]
  BY <1>2, <1>3 DEF TurnsInv
<1>5. /\ started' \in Seq(Nat) /\ Len(started') = Len(started) + 1 /\ Len(started) \in Nat
      /\ \A i \in 1..Len(started) : started'[i] = started[i] /\ started[i] \in Nat
      /\ started'[Len(started) + 1] = turns[1]
  BY <1>2, <1>3 DEF TurnsInv
<1>6. \A i \in 1..Len(turns) : turns[i] \in Nat
  BY DEF TurnsInv
<1>7. ASSUME NEW i \in 1..Len(turns')
      PROVE  turns'[i] <= Len(scopes') /\ turns[1] < turns'[i]
  <2>1. i + 1 \in 1..Len(turns) /\ 1 \in 1..Len(turns) /\ 1 < i + 1 /\ turns'[i] = turns[i + 1]
    BY <1>3, <1>4
  <2> QED
    BY <1>1, <2>1 DEF TurnsInv
<1>8. ASSUME NEW i \in 1..Len(started') PROVE started'[i] <= Len(scopes')
  BY <1>1, <1>3, <1>5 DEF TurnsInv
<1>9. ASSUME NEW i \in 1..Len(turns'), NEW j \in 1..Len(turns'), i < j PROVE turns'[i] < turns'[j]
  <2>1. i + 1 \in 1..Len(turns) /\ j + 1 \in 1..Len(turns) /\ i + 1 < j + 1
        /\ turns'[i] = turns[i + 1] /\ turns'[j] = turns[j + 1]
    BY <1>3, <1>4, <1>9
  <2> QED
    BY <2>1 DEF TurnsInv
<1>10. ASSUME NEW i \in 1..Len(started'), NEW j \in 1..Len(started'), i < j
       PROVE  started'[i] < started'[j]
  <2>1. i \in 1..Len(started)
    BY <1>5, <1>10
  <2>2. CASE j \in 1..Len(started)
    BY <1>5, <1>10, <2>1, <2>2 DEF TurnsInv
  <2>3. CASE j = Len(started) + 1
    <3>1. started[i] < turns[1]
      <4>1. 1 \in 1..Len(turns)
        BY <1>3
      <4>2. \A x \in 1..Len(turns), y \in 1..Len(started) : started[y] < turns[x]
        BY DEF TurnsInv
      <4> QED
        BY <2>1, <4>1, <4>2
    <3> QED
      BY <1>5, <2>1, <2>3, <3>1
  <2> QED
    BY <1>5, <2>2, <2>3
<1>11. ASSUME NEW i \in 1..Len(turns'), NEW j \in 1..Len(started') PROVE started'[j] < turns'[i]
  <2>1. i + 1 \in 1..Len(turns) /\ turns'[i] = turns[i + 1]
    BY <1>3, <1>4
  <2>2. CASE j \in 1..Len(started)
    BY <1>5, <2>1, <2>2 DEF TurnsInv
  <2>3. CASE j = Len(started) + 1
    BY <1>5, <1>7, <2>3
  <2> QED
    BY <1>5, <2>2, <2>3
<1> QED
  BY <1>1, <1>4, <1>5, <1>7, <1>8, <1>9, <1>10, <1>11 DEF TurnsInv

LEMMA ScopesStep == ScopesInv /\ TurnsInv /\ [TSC!TSCNext]_scopeVars => ScopesInv' /\ TurnsInv'
<1> SUFFICES ASSUME ScopesInv, TurnsInv, [TSC!TSCNext]_scopeVars PROVE ScopesInv' /\ TurnsInv'
  OBVIOUS
<1>1. DOMAIN scopes = 1..Len(scopes)
  BY DEF ScopesInv
<1>2. ASSUME ScopesInv', Len(scopes') >= Len(scopes), UNCHANGED <<turns, started>>
      PROVE  TurnsInv'
  <2>1. Len(scopes) \in Nat /\ Len(scopes') \in Nat
    BY <1>2 DEF ScopesInv
  <2>2. /\ \A i \in 1..Len(turns) : turns[i] \in Nat
        /\ \A i \in 1..Len(started) : started[i] \in Nat
    BY DEF TurnsInv
  <2> QED
    BY <1>2, <2>1, <2>2 DEF TurnsInv
<1>3. ASSUME NEW k \in TSC!Nested, NEW p \in DOMAIN scopes, TSC!newScope(k, p)
      PROVE  ScopesInv' /\ TurnsInv'
  <2>1. ScopesInv' /\ Len(scopes') = Len(scopes) + 1 /\ Len(scopes) \in Nat
    <3>1. TSC!child(k, p) /\ k \in TSC!Kinds_ /\ p \in 1..Len(scopes)
      BY <1>1, <1>3 DEF TSC!newScope, TSC!Kinds_
    <3>2. Len(scopes) \in Nat
      BY DEF ScopesInv
    <3> QED
      BY <3>1, <3>2, ChildKeeps
  <2> QED
    BY <1>2, <1>3, <2>1 DEF TSC!newScope
<1>4. ASSUME NEW i \in DOMAIN scopes, TSC!cancel(i)
      PROVE  ScopesInv' /\ TurnsInv'
  <2>1. ScopesInv' /\ Len(scopes') = Len(scopes) /\ Len(scopes) \in Nat
    BY <1>1, <1>4, CancelKeeps DEF ScopesInv
  <2> QED
    BY <1>2, <1>4, <2>1 DEF TSC!cancel
<1>5. CASE TSC!enqueueTurn
  BY <1>5, EnqueueKeeps
<1>6. CASE TSC!turnStarts
  BY <1>6, StartsKeeps
<1>7. CASE UNCHANGED <<scopes, turns, started>>
  BY <1>7 DEF ScopesInv, TurnsInv
<1>8. CASE \/ TSC!turnSettles \/ \E k \in TSC!TaskKinds : TSC!submit(k)
           \/ TSC!processQueue \/ TSC!commandSettles \/ TSC!drainSessionCancellation
           \/ \E seq \in stream.clock..(stream.clock + 1) : TSC!emitOrderedEvent(seq)
  BY <1>7, <1>8 DEF TSC!turnSettles, TSC!submit, TSC!processQueue, TSC!commandSettles,
     TSC!drainSessionCancellation, TSC!emitOrderedEvent
<1>9. CASE UNCHANGED scopeVars
  BY <1>7, <1>9 DEF scopeVars
<1> QED
  BY <1>3, <1>4, <1>5, <1>6, <1>8, <1>9 DEF TSC!TSCNext

-----------------------------------------------------------------------------
(***************************************************************************)
(* The parts of a message that streams in.                                 *)
(***************************************************************************)
(* The parts of a message, and what the accumulator holds.                 *)
Part == [type : {"text", "thinking"} \cup CallIds, size : Int]
MessageInv ==
  acc \in [at : {"idle", "streaming", "completed", "failed"}, text : Int, deltas : Int,
           parts : Seq(Part), calls : Seq(CallIds), reason : {"stop", "tool-calls"}]

LEMMA MessageInit == PS!PSInit => MessageInv
<1> SUFFICES ASSUME PS!PSInit PROVE MessageInv
  OBVIOUS
<1>1. acc = [at |-> "idle", text |-> 0, deltas |-> 0, parts |-> <<>>, calls |-> <<>>, reason |-> "stop"]
  BY DEF PS!PSInit, PS!newAccumulator
<1>2. <<>> \in Seq(Part) /\ <<>> \in Seq(CallIds)
  OBVIOUS
<1> QED
  BY <1>1, <1>2 DEF MessageInv

LEMMA PartsReplaced ==
  ASSUME NEW A, NEW P, NEW C, NEW R, NEW new \in P, NEW named \in C, NEW t \in Int, NEW d \in Int,
         NEW m \in [at : A, text : Int, deltas : Int, parts : P, calls : C, reason : R]
  PROVE  /\ [m EXCEPT !.text = t, !.deltas = d, !.parts = new]
              \in [at : A, text : Int, deltas : Int, parts : P, calls : C, reason : R]
         /\ [m EXCEPT !.text = t, !.deltas = d, !.parts = new].parts = new
         /\ [m EXCEPT !.deltas = d, !.parts = new]
              \in [at : A, text : Int, deltas : Int, parts : P, calls : C, reason : R]
         /\ [m EXCEPT !.deltas = d, !.parts = new].parts = new
         /\ [m EXCEPT !.calls = named, !.parts = new]
              \in [at : A, text : Int, deltas : Int, parts : P, calls : C, reason : R]
         /\ [m EXCEPT !.calls = named, !.parts = new].parts = new
  OBVIOUS

(* The parts of a message grow: all but the last stay as they are.         *)
Grown(old, new) ==
  /\ new \in Seq(Part) /\ Len(new) >= Len(old)
  /\ \A i \in 1..(Len(old) - 1) : new[i] = old[i]

LEMMA Coalesced == ASSUME NEW s \in Seq(Part) PROVE Grown(s, PS!appendOrCoalesceText(s))
<1> DEFINE whole == PS!appendOrCoalesceText(s)
<1>1. PS!Text(1) \in Part /\ PS!Text(1) = [type |-> "text", size |-> 1]
  BY DEF PS!Text, Part
<1>2. CASE s # <<>> /\ PS!Last(s).type = "text"
  <2>1. Len(s) \in 1..Len(s) /\ s[Len(s)] \in Part
    BY <1>2
  <2>2. whole = [s EXCEPT ![Len(s)].size = @ + 1]
    BY <1>2 DEF PS!appendOrCoalesceText
  <2>3. [s[Len(s)] EXCEPT !.size = @ + 1] \in Part
    BY <2>1 DEF Part
  <2>4. PICK p \in Part : p = [s[Len(s)] EXCEPT !.size = @ + 1]
    BY <2>3
  <2>5. whole = [s EXCEPT ![Len(s)] = p]
    BY <2>2, <2>4
  <2>6. whole \in Seq(Part) /\ Len(whole) = Len(s) /\ \A i \in 1..(Len(s) - 1) : whole[i] = s[i]
    <3> HIDE DEF whole
    <3> QED
      BY <2>1, <2>5
  <2> QED
    BY <2>6 DEF Grown
<1>3. CASE ~ (s # <<>> /\ PS!Last(s).type = "text")
  <2>1. whole = Append(s, PS!Text(1))
    BY <1>3 DEF PS!appendOrCoalesceText
  <2>2. Append(s, PS!Text(1)) \in Seq(Part) /\ Len(Append(s, PS!Text(1))) = Len(s) + 1
        /\ \A i \in 1..(Len(s) - 1) : Append(s, PS!Text(1))[i] = s[i]
    BY <1>1
  <2> QED
    BY <2>1, <2>2 DEF Grown
<1> QED
  BY <1>2, <1>3

LEMMA Joined == ASSUME NEW s \in Seq(Part), NEW t \in Seq(Part) PROVE Grown(s, s \o t)
  BY DEF Grown

LEMMA Kept == ASSUME NEW s \in Seq(Part) PROVE Grown(s, s)
  BY DEF Grown

(* A step of a stream that goes on.                                        *)
Grows ==
  /\ acc'.at = "streaming" /\ acc.at = "streaming"
  => /\ Len(acc'.parts) >= Len(acc.parts)
     /\ \A i \in 1..(Len(acc.parts) - 1) : acc'.parts[i] = acc.parts[i]

LEMMA TextDispatched ==
  ASSUME MessageInv, PS!dispatchText PROVE MessageInv' /\ Grows
<1>1. PICK new \in Seq(Part) : new = PS!appendOrCoalesceText(acc.parts) /\ Grown(acc.parts, new)
  BY Coalesced DEF MessageInv, Grown
<1>2. PICK t \in Int, d \in Int : t = acc.text + 1 /\ d = acc.deltas + 1
  BY DEF MessageInv
<1>3. acc' = [acc EXCEPT !.text = t, !.deltas = d, !.parts = new]
  BY <1>1, <1>2 DEF PS!dispatchText
<1>4. MessageInv' /\ acc'.parts = new
  BY <1>3, PartsReplaced DEF MessageInv
<1> QED
  BY <1>1, <1>4 DEF Grows, Grown

LEMMA ThinkingDispatched ==
  ASSUME MessageInv, NEW send \in BOOLEAN, PS!dispatchThinking(send) PROVE MessageInv' /\ Grows
<1>0. PS!Thinking \in Part /\ acc.parts \in Seq(Part)
  BY DEF PS!Thinking, Part, MessageInv
<1>1. PICK new \in Seq(Part) :
        new = (IF send THEN Append(acc.parts, PS!Thinking) ELSE acc.parts) /\ Grown(acc.parts, new)
  <2>1. Append(acc.parts, PS!Thinking) \in Seq(Part) /\ Grown(acc.parts, Append(acc.parts, PS!Thinking))
    BY <1>0 DEF Grown
  <2> QED
    BY <1>0, <2>1, Kept
<1>2. PICK d \in Int : d = acc.deltas + 1
  BY DEF MessageInv
<1>3. acc' = [acc EXCEPT !.deltas = d, !.parts = new]
  BY <1>1, <1>2 DEF PS!dispatchThinking
<1>4. MessageInv' /\ acc'.parts = new
  BY <1>3, PartsReplaced DEF MessageInv
<1> QED
  BY <1>1, <1>4 DEF Grows, Grown

LEMMA CallDispatched ==
  ASSUME MessageInv, NEW c \in CallIds, PS!dispatchCalls(<<c>>) PROVE MessageInv' /\ Grows
<1>0. acc.parts \in Seq(Part) /\ acc.calls \in Seq(CallIds) /\ PS!Call(c) \in Part
  BY DEF PS!Call, Part, MessageInv
<1>1. PICK more \in Seq(Part) : more = [i \in DOMAIN <<c>> |-> PS!Call(<<c>>[i])]
  <2>1. PICK s : s = <<c>> /\ DOMAIN s = 1..1 /\ \A i \in 1..1 : s[i] = c
    OBVIOUS
  <2>2. \A i \in 1..1 : PS!Call(s[i]) \in Part
    BY <1>0, <2>1
  <2>3. [i \in 1..1 |-> PS!Call(s[i])] \in Seq(Part)
    BY <2>2
  <2> QED
    BY <2>1, <2>3
<1>2. PICK new \in Seq(Part) : new = acc.parts \o more /\ Grown(acc.parts, new)
  <2>1. Grown(acc.parts, acc.parts \o more)
    BY <1>0, Joined
  <2> QED
    BY <2>1 DEF Grown
<1>3. PICK named \in Seq(CallIds) : named = acc.calls \o <<c>>
  <2>1. PICK one \in Seq(CallIds) : one = <<c>>
    BY SMT
  <2>2. acc.calls \o one \in Seq(CallIds)
    BY <1>0
  <2> QED
    BY <2>1, <2>2
<1>4. acc' = [acc EXCEPT !.calls = named, !.parts = new]
  BY <1>1, <1>2, <1>3 DEF PS!dispatchCalls
<1>5. MessageInv' /\ acc'.parts = new
  BY <1>4, PartsReplaced DEF MessageInv
<1> QED
  BY <1>2, <1>5 DEF Grows, Grown

LEMMA MessageStep == MessageInv /\ [PS!PSNext]_streamVars => MessageInv' /\ Grows
<1> SUFFICES ASSUME MessageInv, [PS!PSNext]_streamVars PROVE MessageInv' /\ Grows
  OBVIOUS
<1>0. acc.parts \in Seq(Part)
  BY DEF MessageInv
<1>1. ASSUME acc' = acc PROVE MessageInv' /\ Grows
  BY <1>0, <1>1, Kept DEF MessageInv, Grows, Grown
<1>2. CASE PS!textDelta
  BY <1>2, TextDispatched DEF PS!textDelta
<1>3. ASSUME NEW b \in BOOLEAN, PS!reasoningDelta(b) PROVE MessageInv' /\ Grows
  BY <1>3, ThinkingDispatched DEF PS!reasoningDelta
<1>4. ASSUME NEW b \in BOOLEAN, PS!runAssistantIteration(b) PROVE MessageInv' /\ Grows
  <2>1. acc.at # "streaming"
    BY <1>4 DEF PS!runAssistantIteration
  <2>2. PICK place \in {"streaming", "failed"} : acc' = [PS!newAccumulator EXCEPT !.at = place]
    BY <1>4 DEF PS!runAssistantIteration
  <2>3. acc' = [at |-> place, text |-> 0, deltas |-> 0, parts |-> <<>>, calls |-> <<>>, reason |-> "stop"]
    BY <2>2 DEF PS!newAccumulator
  <2>4. <<>> \in Seq(Part) /\ <<>> \in Seq(CallIds)
    OBVIOUS
  <2>5. MessageInv'
    BY <2>3, <2>4 DEF MessageInv
  <2> QED
    BY <2>1, <2>5 DEF Grows
<1>5. ASSUME NEW c \in CallIds, PS!toolInputStart(c) \/ PS!toolInputDelta(c) \/ PS!toolCallChunk(c)
      PROVE  MessageInv' /\ Grows
  BY <1>1, <1>5, CallDispatched DEF PS!toolInputStart, PS!toolInputDelta, PS!toolCallChunk, PS!ingest
<1>6. ASSUME NEW error \in BOOLEAN, PS!emitProviderCompletion(error) PROVE MessageInv' /\ Grows
  <2>1. PICK place \in {"completed", "failed"} : acc' = [acc EXCEPT !.at = place]
    BY <1>6 DEF PS!emitProviderCompletion
  <2> QED
    BY <2>1 DEF MessageInv, Grows
<1>7. ASSUME NEW r \in {"stop", "tool-calls"}, PS!finish(r) PROVE MessageInv' /\ Grows
  <2>1. CASE acc' = [acc EXCEPT !.reason = r]
    <3>1. MessageInv' /\ acc'.parts = acc.parts
      BY <2>1 DEF MessageInv
    <3> QED
      BY <1>0, <3>1, Kept DEF Grows, Grown
  <2>2. CASE PS!emitProviderCompletion(TRUE)
    BY <1>6, <2>2
  <2> QED
    BY <1>7, <2>1, <2>2 DEF PS!finish
<1>8. CASE PS!streamEnds \/ PS!streamFails
  BY <1>6, <1>8 DEF PS!streamEnds, PS!streamFails
<1>9. CASE PS!initProvider \/ PS!disposeProvider \/ UNCHANGED streamVars
  BY <1>1, <1>9 DEF PS!initProvider, PS!disposeProvider, streamVars
<1> QED
  BY <1>2, <1>3, <1>4, <1>5, <1>7, <1>8, <1>9 DEF PS!PSNext

-----------------------------------------------------------------------------
(***************************************************************************)
(* The trail of the file logger: writers, rotation and retention.          *)
(***************************************************************************)
LEMMA SeqElement == ASSUME NEW S, NEW s \in Seq(S), NEW i \in 1..Len(s) PROVE s[i] \in S
  OBVIOUS

Logged    == {"assigning", "flushing", "ending", "renaming", "listing", "pruning", "reopening", "done"}
AppendPcs == Logged \cup {"none", "writing", "rejected", "reported", "lost"}
AppendRec == [pc : AppendPcs, w : Nat, doomed : SUBSET (1..MaxNow)]
WriterRec == [file : Nat, size : Nat, lines : Seq(AT!Records), closed : BOOLEAN, broken : BOOLEAN]
RotatedAt(n) == [at : 1..MaxNow, file : 1..n]

TrailTypes ==
  /\ text \in Seq(Seq(AT!Records)) /\ path \in 0..Len(text)
  /\ writers \in Seq(WriterRec) /\ \A w \in 1..Len(writers) : writers[w].file \in 1..Len(text)
  /\ rotated \subseteq RotatedAt(Len(text)) /\ IsFiniteSet(rotated)
  /\ append \in [AT!Records -> AppendRec] /\ now \in 1..MaxNow
  /\ logger \in [writer : 0..Len(writers), closing : Nat, by : {"none", "deactivate", "dispose"}]
  /\ phase \in {"off", "failed", "inited", "on", "closing", "ending", "disposing", "closed", "close failed"}

FilesAccounted == \A f \in 1..Len(text) : f = path \/ f \in removed \/ \E x \in rotated : x.file = f
LoggedHeld  == \A r \in AT!Records : append[r].pc \in Logged => \E f \in 1..Len(text) : AT!Holds(f, r)
LinesQueued == \A r \in AT!Records : append[r].pc = "writing" =>
                 /\ append[r].w \in 1..Len(writers)
                 /\ \E i \in 1..Len(writers[append[r].w].lines) : writers[append[r].w].lines[i] = r
WriterThere == /\ phase = "on" => logger.writer # 0
               /\ \A r \in AT!Records : append[r].pc = "assigning" => append[r].w \in 1..Len(writers)
OnePerTime  == \A x, y \in rotated : x.at = y.at => x = y
Newer(t)    == {y \in rotated : y.at > t}
DoomedOld   == \A r \in AT!Records : append[r].pc = "pruning" =>
                 \A t \in append[r].doomed : Cardinality(Newer(t)) >= MaxRotatedFiles

TrailInv == /\ TrailTypes /\ FilesAccounted /\ LoggedHeld /\ LinesQueued /\ WriterThere
            /\ OnePerTime /\ DoomedOld

LEMMA TrailFacts ==
  ASSUME TrailInv
  PROVE  /\ text \in Seq(Seq(AT!Records)) /\ Len(text) \in Nat /\ path \in 0..Len(text)
         /\ writers \in Seq(WriterRec) /\ Len(writers) \in Nat
         /\ \A w \in 1..Len(writers) : writers[w] \in WriterRec
         /\ \A w \in 1..Len(writers) : writers[w].file \in 1..Len(text)
         /\ \A f \in 1..Len(text) : text[f] \in Seq(AT!Records)
         /\ rotated \subseteq RotatedAt(Len(text)) /\ IsFiniteSet(rotated)
         /\ append \in [AT!Records -> AppendRec] /\ now \in 1..MaxNow
         /\ logger \in [writer : 0..Len(writers), closing : Nat, by : {"none", "deactivate", "dispose"}]
<1>1. writers \in Seq(WriterRec) /\ text \in Seq(Seq(AT!Records))
  BY DEF TrailInv, TrailTypes
<1>2. Len(writers) \in Nat /\ Len(text) \in Nat
  BY <1>1
<1>3. \A w \in 1..Len(writers) : writers[w] \in WriterRec
  BY <1>1, SeqElement
<1>4. \A f \in 1..Len(text) : text[f] \in Seq(AT!Records)
  BY <1>1, SeqElement
<1>5. /\ path \in 0..Len(text) /\ \A w \in 1..Len(writers) : writers[w].file \in 1..Len(text)
      /\ rotated \subseteq RotatedAt(Len(text)) /\ IsFiniteSet(rotated)
      /\ append \in [AT!Records -> AppendRec] /\ now \in 1..MaxNow
  BY DEF TrailInv, TrailTypes
<1>6. logger \in [writer : 0..Len(writers), closing : Nat, by : {"none", "deactivate", "dispose"}]
  BY DEF TrailInv, TrailTypes
<1> QED
  BY <1>1, <1>2, <1>3, <1>4, <1>5, <1>6

LEMMA Appended ==
  ASSUME NEW S, NEW s \in Seq(S), NEW e \in S
  PROVE  /\ Append(s, e) \in Seq(S) /\ Len(Append(s, e)) = Len(s) + 1
         /\ \A i \in 1..Len(s) : Append(s, e)[i] = s[i]
         /\ Append(s, e)[Len(s) + 1] = e
  OBVIOUS

LEMMA Replaced ==
  ASSUME NEW S, NEW s \in Seq(S), NEW i \in 1..Len(s), NEW e \in S
  PROVE  /\ [s EXCEPT ![i] = e] \in Seq(S) /\ Len([s EXCEPT ![i] = e]) = Len(s)
         /\ [s EXCEPT ![i] = e][i] = e
         /\ \A j \in 1..Len(s) \ {i} : [s EXCEPT ![i] = e][j] = s[j]
  OBVIOUS

LEMMA AppendSet ==
  ASSUME TrailInv, NEW r \in AT!Records, NEW rec \in AppendRec, append' = [append EXCEPT ![r] = rec]
  PROVE  /\ append' \in [AT!Records -> AppendRec] /\ append'[r] = rec
         /\ \A q \in AT!Records \ {r} : append'[q] = append[q]
<1>1. append \in [AT!Records -> AppendRec]
  BY TrailFacts
<1> QED
  BY <1>1

LEMMA PcSet ==
  ASSUME TrailInv, NEW r \in AT!Records, NEW pc \in AppendPcs, AT!At(r, pc)
  PROVE  /\ append' \in [AT!Records -> AppendRec] /\ append'[r].pc = pc
         /\ append'[r].w = append[r].w /\ append'[r].doomed = append[r].doomed
         /\ \A q \in AT!Records \ {r} : append'[q] = append[q]
<1>1. append \in [AT!Records -> AppendRec]
  BY TrailFacts
<1>2. append[r] \in AppendRec
  BY <1>1
<1>3. append' = [append EXCEPT ![r] = [append[r] EXCEPT !.pc = pc]]
  BY DEF AT!At
<1>4. [append[r] EXCEPT !.pc = pc] \in AppendRec /\ [append[r] EXCEPT !.pc = pc].pc = pc
      /\ [append[r] EXCEPT !.pc = pc].w = append[r].w /\ [append[r] EXCEPT !.pc = pc].doomed = append[r].doomed
  BY <1>2 DEF AppendRec
<1> QED
  BY <1>3, <1>4, AppendSet

(* Steps that change no append and no file: the bus and the logger.        *)
LEMMA QuietStep ==
  ASSUME TrailInv, UNCHANGED <<text, path, rotated, removed, writers, append>>, now' \in 1..MaxNow,
         logger' \in [writer : 0..Len(writers), closing : Nat, by : {"none", "deactivate", "dispose"}],
         phase' \in {"off", "failed", "inited", "on", "closing", "ending", "disposing", "closed", "close failed"},
         phase' = "on" => logger'.writer # 0
  PROVE  TrailInv'
<1>1. TrailTypes'
  BY DEF TrailInv, TrailTypes
<1>2. FilesAccounted' /\ OnePerTime'
  BY DEF TrailInv, FilesAccounted, OnePerTime
<1>3. LoggedHeld'
  BY DEF TrailInv, LoggedHeld, AT!Holds
<1>4. LinesQueued'
  BY DEF TrailInv, LinesQueued
<1>5. WriterThere'
  BY DEF TrailInv, WriterThere
<1>6. DoomedOld'
  BY DEF TrailInv, DoomedOld, Newer
<1> QED
  BY <1>1, <1>2, <1>3, <1>4, <1>5, <1>6 DEF TrailInv

LEMMA TrailTyped == TrailInv => AT!ATTypeOK
  BY DEF TrailInv, TrailTypes, AT!ATTypeOK, RotatedAt

LEMMA RecordsFit == /\ AT!Originals \subseteq AT!Records
                    /\ \A r \in AT!Originals : r + MaxRecords \in AT!Records /\ r + MaxRecords \notin AT!Originals
  BY TrailAssumption DEF AT!Originals, AT!Records

(* Steps that only say how far one record's append has come.               *)
LEMMA PcMoves ==
  ASSUME TrailInv, NEW r \in AT!Records, NEW pc \in AppendPcs \ {"writing", "assigning", "pruning"},
         AT!At(r, pc), pc \in Logged => append[r].pc \in Logged,
         UNCHANGED <<text, path, rotated, removed, writers, phase, now, logger>>
  PROVE  TrailInv'
<1>1. append' = [append EXCEPT ![r].pc = pc]
  BY DEF AT!At
<1>2. append' \in [AT!Records -> AppendRec]
  BY <1>1 DEF TrailInv, TrailTypes, AppendRec
<1>3. /\ append'[r].pc = pc
      /\ \A s \in AT!Records \ {r} : append'[s] = append[s]
  BY <1>1 DEF TrailInv, TrailTypes, AppendRec
<1>4. TrailTypes'
  BY <1>2 DEF TrailInv, TrailTypes
<1>5. FilesAccounted' /\ OnePerTime'
  BY DEF TrailInv, FilesAccounted, OnePerTime
<1>6. LoggedHeld'
  BY <1>3 DEF TrailInv, LoggedHeld, AT!Holds
<1>7. LinesQueued' /\ WriterThere'
  BY <1>3 DEF TrailInv, LinesQueued, WriterThere
<1>8. DoomedOld'
  BY <1>3 DEF TrailInv, DoomedOld, Newer
<1> QED
  BY <1>4, <1>5, <1>6, <1>7, <1>8 DEF TrailInv

(* Opening the log: the file at the log's path, or a new one.              *)
LEMMA LogOpened ==
  ASSUME TrailInv, path' = AT!PathFile, text' = AT!Opened, UNCHANGED <<rotated, removed>>
  PROVE  /\ text' \in Seq(Seq(AT!Records)) /\ path' \in 1..Len(text')
         /\ Len(text') >= Len(text) /\ Len(text) \in Nat /\ Len(text') \in Nat
         /\ \A f \in 1..Len(text) : text'[f] = text[f]
         /\ FilesAccounted' /\ rotated' \subseteq RotatedAt(Len(text'))
         /\ text'[path'] \in Seq(AT!Records)
<1>1. /\ text \in Seq(Seq(AT!Records)) /\ Len(text) \in Nat /\ path \in 0..Len(text)
      /\ rotated \subseteq RotatedAt(Len(text))
      /\ \A f \in 1..Len(text) : text[f] \in Seq(AT!Records)
  BY TrailFacts
<1>2. CASE path = 0
  <2>1. text' = Append(text, <<>>) /\ path' = Len(text) + 1
    BY <1>2 DEF AT!PathFile, AT!Opened
  <2>2. /\ text' \in Seq(Seq(AT!Records)) /\ Len(text') = Len(text) + 1
        /\ \A f \in 1..Len(text) : text'[f] = text[f]
        /\ text'[path'] = <<>> /\ <<>> \in Seq(AT!Records)
    BY <1>1, <2>1
  <2>3. FilesAccounted'
    BY <1>1, <1>2, <2>1, <2>2 DEF TrailInv, FilesAccounted
  <2>4. rotated' \subseteq RotatedAt(Len(text'))
    BY <1>1, <2>2 DEF RotatedAt
  <2> QED
    BY <1>1, <2>1, <2>2, <2>3, <2>4
<1>3. CASE path # 0
  <2>1. text' = text /\ path' = path
    BY <1>3 DEF AT!PathFile, AT!Opened
  <2>2. FilesAccounted'
    BY <2>1 DEF TrailInv, FilesAccounted
  <2> QED
    BY <1>1, <1>3, <2>1, <2>2
<1> QED
  BY <1>2, <1>3

(* What holds of appends as long as texts only grow and writers stay.      *)
LEMMA HeldStays ==
  ASSUME TrailInv, Len(text') \in Nat, Len(text') >= Len(text), Len(text) \in Nat,
         \A f \in 1..Len(text) : text'[f] = text[f],
         NEW r \in AT!Records, append[r].pc \in Logged
  PROVE  \E f \in 1..Len(text') : AT!Holds(f, r)'
<1>1. PICK f \in 1..Len(text) : AT!Holds(f, r)
  BY DEF TrailInv, LoggedHeld
<1>2. f \in 1..Len(text') /\ text'[f] = text[f]
  OBVIOUS
<1> QED
  BY <1>1, <1>2 DEF AT!Holds

(* Opening a writer leaves those there are.                                *)
LEMMA WritersGrow ==
  ASSUME TrailInv, Len(writers') = Len(writers) + 1, Len(writers) \in Nat,
         \A w \in 1..Len(writers) : writers'[w] = writers[w], NEW r \in AT!Records
  PROVE  /\ append[r].pc = "writing" =>
               /\ append[r].w \in 1..Len(writers')
               /\ \E i \in 1..Len(writers'[append[r].w].lines) : writers'[append[r].w].lines[i] = r
         /\ append[r].pc = "assigning" => append[r].w \in 1..Len(writers')
<1>1. 1..Len(writers) \subseteq 1..Len(writers')
  OBVIOUS
<1>2. CASE append[r].pc = "writing"
  <2>1. /\ append[r].w \in 1..Len(writers)
        /\ \E i \in 1..Len(writers[append[r].w].lines) : writers[append[r].w].lines[i] = r
    BY <1>2 DEF TrailInv, LinesQueued
  <2>2. writers'[append[r].w] = writers[append[r].w]
    BY <2>1
  <2> QED
    BY <1>1, <1>2, <2>1, <2>2
<1>3. CASE append[r].pc = "assigning"
  BY <1>1, <1>3 DEF TrailInv, WriterThere
<1> QED
  BY <1>2, <1>3

LEMMA InitKeeps == ASSUME TrailInv, AT!init PROVE TrailInv'
<1>1. UNCHANGED <<logger, writers, rotated, append, now, removed>> /\ phase' \in {"failed", "inited"}
  BY DEF AT!init
<1>2. CASE UNCHANGED <<text, path>>
  BY <1>1, <1>2, QuietStep, TrailFacts
<1>3. CASE path' = AT!PathFile /\ text' = AT!Opened
  <2>1. /\ text' \in Seq(Seq(AT!Records)) /\ path' \in 1..Len(text')
        /\ Len(text') >= Len(text) /\ Len(text) \in Nat /\ Len(text') \in Nat
        /\ \A f \in 1..Len(text) : text'[f] = text[f]
        /\ FilesAccounted' /\ rotated' \subseteq RotatedAt(Len(text'))
    BY <1>1, <1>3, LogOpened
  <2>2. TrailTypes'
    <3>1. \A w \in 1..Len(writers) : writers[w].file \in 1..Len(text')
      BY <2>1, TrailFacts
    <3>2. text' \in Seq(Seq(AT!Records)) /\ path' \in 0..Len(text')
      BY <2>1
    <3> QED
      BY <1>1, <2>1, <3>1, <3>2, TrailFacts DEF TrailTypes
  <2>3. LoggedHeld'
    BY <1>1, <2>1, HeldStays DEF LoggedHeld
  <2>4. LinesQueued' /\ WriterThere'
    BY <1>1 DEF TrailInv, LinesQueued, WriterThere
  <2>5. OnePerTime' /\ DoomedOld'
    BY <1>1 DEF TrailInv, OnePerTime, DoomedOld, Newer
  <2> QED
    BY <2>1, <2>2, <2>3, <2>4, <2>5 DEF TrailInv
<1> QED
  BY <1>2, <1>3 DEF AT!init

LEMMA WriterOpened ==
  ASSUME TrailInv, AT!openWriter, UNCHANGED <<rotated, removed>>
  PROVE  /\ text' \in Seq(Seq(AT!Records)) /\ path' \in 0..Len(text')
         /\ Len(text') >= Len(text) /\ Len(text) \in Nat /\ Len(text') \in Nat
         /\ \A f \in 1..Len(text) : text'[f] = text[f]
         /\ FilesAccounted' /\ rotated' \subseteq RotatedAt(Len(text'))
         /\ writers' \in Seq(WriterRec) /\ \A w \in 1..Len(writers') : writers'[w].file \in 1..Len(text')
         /\ Len(writers') = Len(writers) + 1 /\ Len(writers) \in Nat
         /\ \A w \in 1..Len(writers) : writers'[w] = writers[w]
         /\ logger' \in [writer : 0..Len(writers'), closing : Nat, by : {"none", "deactivate", "dispose"}]
         /\ logger'.writer = Len(writers) + 1
<1>1. /\ text' \in Seq(Seq(AT!Records)) /\ path' \in 1..Len(text')
      /\ Len(text') >= Len(text) /\ Len(text) \in Nat /\ Len(text') \in Nat
      /\ \A f \in 1..Len(text) : text'[f] = text[f]
      /\ FilesAccounted' /\ rotated' \subseteq RotatedAt(Len(text'))
      /\ text'[path'] \in Seq(AT!Records)
  BY LogOpened DEF AT!openWriter
<1> DEFINE new == AT!Writer(AT!PathFile, Len(AT!Opened[AT!PathFile]))
<1>2. new \in WriterRec /\ new.file = path'
  <2>1. path' = AT!PathFile /\ text' = AT!Opened
    BY DEF AT!openWriter
  <2>2. Len(text'[path']) \in Nat /\ path' \in Nat /\ <<>> \in Seq(AT!Records)
    BY <1>1
  <2> QED
    BY <2>1, <2>2 DEF AT!Writer, WriterRec
<1>3. writers' = Append(writers, new) /\ logger' = [logger EXCEPT !.writer = Len(writers) + 1]
  BY DEF AT!openWriter
<1> HIDE DEF new
<1>4. writers \in Seq(WriterRec) /\ Len(writers) \in Nat
      /\ \A w \in 1..Len(writers) : writers[w].file \in 1..Len(text)
  BY TrailFacts
<1>5. /\ writers' \in Seq(WriterRec) /\ Len(writers') = Len(writers) + 1
      /\ \A w \in 1..Len(writers) : writers'[w] = writers[w]
      /\ writers'[Len(writers) + 1] = new
  BY <1>2, <1>3, <1>4, Appended
<1>6. ASSUME NEW w \in 1..Len(writers') PROVE writers'[w].file \in 1..Len(text')
  <2>1. CASE w \in 1..Len(writers)
    BY <1>1, <1>4, <1>5, <2>1
  <2>2. CASE w = Len(writers) + 1
    BY <1>1, <1>2, <1>5, <2>2
  <2> QED
    BY <1>4, <1>5, <2>1, <2>2
<1>7. /\ logger' \in [writer : 0..Len(writers'), closing : Nat, by : {"none", "deactivate", "dispose"}]
      /\ logger'.writer = Len(writers) + 1
  <2>1. Len(writers) + 1 \in 0..Len(writers') /\ 0..Len(writers) \subseteq 0..Len(writers')
    BY <1>4, <1>5
  <2>2. logger \in [writer : 0..Len(writers), closing : Nat, by : {"none", "deactivate", "dispose"}]
    BY TrailFacts
  <2> QED
    BY <1>3, <2>1, <2>2
<1>8. path' \in 0..Len(text')
  BY <1>1
<1> QED
  BY <1>1, <1>4, <1>5, <1>6, <1>7, <1>8

LEMMA ActivateKeeps == ASSUME TrailInv, AT!activate PROVE TrailInv'
<1>1. UNCHANGED <<rotated, append, now, removed>> /\ phase' \in {"failed", "on"}
  BY DEF AT!activate
<1>2. CASE phase' = "failed" /\ UNCHANGED <<logger, text, path, writers>>
  BY <1>1, <1>2, QuietStep, TrailFacts
<1>3. CASE AT!openWriter
  <2>1. /\ text' \in Seq(Seq(AT!Records)) /\ path' \in 0..Len(text')
        /\ Len(text') >= Len(text) /\ Len(text) \in Nat /\ Len(text') \in Nat
        /\ \A f \in 1..Len(text) : text'[f] = text[f]
        /\ FilesAccounted' /\ rotated' \subseteq RotatedAt(Len(text'))
        /\ writers' \in Seq(WriterRec) /\ \A w \in 1..Len(writers') : writers'[w].file \in 1..Len(text')
        /\ Len(writers') = Len(writers) + 1 /\ Len(writers) \in Nat
        /\ \A w \in 1..Len(writers) : writers'[w] = writers[w]
        /\ logger' \in [writer : 0..Len(writers'), closing : Nat, by : {"none", "deactivate", "dispose"}]
        /\ logger'.writer = Len(writers) + 1
    BY <1>1, <1>3, WriterOpened
  <2>2. TrailTypes'
    BY <1>1, <2>1, TrailFacts DEF TrailTypes
  <2>3. LoggedHeld'
    BY <1>1, <2>1, HeldStays DEF LoggedHeld
  <2>4. LinesQueued'
    BY <1>1, <2>1, WritersGrow DEF LinesQueued
  <2>5. WriterThere'
    BY <1>1, <2>1, WritersGrow DEF WriterThere
  <2>6. OnePerTime' /\ DoomedOld'
    BY <1>1 DEF TrailInv, OnePerTime, DoomedOld, Newer
  <2> QED
    BY <2>1, <2>2, <2>3, <2>4, <2>5, <2>6 DEF TrailInv
<1> QED
  BY <1>2, <1>3 DEF AT!activate

LEMMA ReopensKeeps == ASSUME TrailInv, NEW r \in AT!Records, AT!reopens(r) PROVE TrailInv'
<1>1. UNCHANGED <<rotated, now, removed, phase>> /\ append[r].pc = "reopening"
  BY DEF AT!reopens, AT!KeepBus
<1>2. CASE AT!Rejects(r) /\ UNCHANGED <<logger, text, path, writers>>
  BY <1>1, <1>2, PcMoves DEF AT!Rejects, AppendPcs, Logged
<1>3. CASE AT!At(r, "done") /\ AT!openWriter
  <2>1. /\ text' \in Seq(Seq(AT!Records)) /\ path' \in 0..Len(text')
        /\ Len(text') >= Len(text) /\ Len(text) \in Nat /\ Len(text') \in Nat
        /\ \A f \in 1..Len(text) : text'[f] = text[f]
        /\ FilesAccounted' /\ rotated' \subseteq RotatedAt(Len(text'))
        /\ writers' \in Seq(WriterRec) /\ \A w \in 1..Len(writers') : writers'[w].file \in 1..Len(text')
        /\ Len(writers') = Len(writers) + 1 /\ Len(writers) \in Nat
        /\ \A w \in 1..Len(writers) : writers'[w] = writers[w]
        /\ logger' \in [writer : 0..Len(writers'), closing : Nat, by : {"none", "deactivate", "dispose"}]
        /\ logger'.writer = Len(writers) + 1
    BY <1>1, <1>3, WriterOpened
  <2>2. /\ append' \in [AT!Records -> AppendRec] /\ append'[r].pc = "done"
        /\ \A q \in AT!Records \ {r} : append'[q] = append[q]
    BY <1>3, PcSet DEF AppendPcs, Logged
  <2>3. TrailTypes'
    BY <1>1, <2>1, <2>2, TrailFacts DEF TrailTypes, TrailInv
  <2>4. LoggedHeld'
    BY <1>1, <2>1, <2>2, HeldStays DEF LoggedHeld, Logged
  <2>5. LinesQueued'
    <3> SUFFICES ASSUME NEW q \in AT!Records, append'[q].pc = "writing"
                 PROVE  /\ append'[q].w \in 1..Len(writers')
                        /\ \E i \in 1..Len(writers'[append'[q].w].lines) : writers'[append'[q].w].lines[i] = q
      BY DEF LinesQueued
    <3>1. append'[q] = append[q]
      BY <2>2
    <3> QED
      BY <2>1, <3>1, WritersGrow
  <2>6. WriterThere'
    <3>1. logger'.writer # 0
      BY <2>1
    <3>2. ASSUME NEW q \in AT!Records, append'[q].pc = "assigning"
          PROVE  append'[q].w \in 1..Len(writers')
      <4>1. append'[q] = append[q]
        BY <2>2, <3>2
      <4> QED
        BY <2>1, <3>2, <4>1, WritersGrow
    <3> QED
      BY <3>1, <3>2 DEF WriterThere
  <2>7. OnePerTime' /\ DoomedOld'
    BY <1>1, <2>2 DEF TrailInv, OnePerTime, DoomedOld, Newer
  <2> QED
    BY <2>1, <2>3, <2>4, <2>5, <2>6, <2>7 DEF TrailInv
<1> QED
  BY <1>2, <1>3 DEF AT!reopens

Queued(w, q) == \E i \in 1..Len(writers[w].lines) : writers[w].lines[i] = q

(* Steps in which records are taken, written and passed on, and no file is *)
(* opened, renamed or removed.                                             *)
LEMMA AppendStep ==
  ASSUME TrailInv, UNCHANGED <<path, rotated, removed, phase, now>>,
         logger' \in [writer : 0..Len(writers), closing : Nat, by : {"none", "deactivate", "dispose"}],
         phase = "on" => logger'.writer # 0,
         text' \in Seq(Seq(AT!Records)), Len(text') = Len(text),
         writers' \in Seq(WriterRec), Len(writers') = Len(writers),
         \A w \in 1..Len(writers) : writers'[w].file = writers[w].file,
         append' \in [AT!Records -> AppendRec],
         \A q \in AT!Records : append'[q].pc \in Logged => \E f \in 1..Len(text) : AT!Holds(f, q)',
         \A q \in AT!Records : append'[q].pc = "writing" =>
            append'[q].w \in 1..Len(writers) /\ Queued(append[q].w, q)',
         \A q \in AT!Records : append'[q].pc = "assigning" => append'[q].w \in 1..Len(writers),
         \A q \in AT!Records : append'[q].pc = "pruning" =>
            \A t \in append'[q].doomed : Cardinality(Newer(t)) >= MaxRotatedFiles
  PROVE  TrailInv'
<1>1. TrailTypes'
  <2>1. \A w \in 1..Len(writers') : writers'[w].file \in 1..Len(text')
    BY TrailFacts
  <2> QED
    BY <2>1, TrailFacts DEF TrailTypes, TrailInv
<1>2. FilesAccounted' /\ OnePerTime'
  BY DEF TrailInv, FilesAccounted, OnePerTime
<1>3. LoggedHeld'
  BY DEF LoggedHeld
<1>4. LinesQueued'
  BY DEF LinesQueued, Queued
<1>5. WriterThere'
  BY DEF WriterThere
<1>6. DoomedOld'
  BY DEF DoomedOld, Newer
<1> QED
  BY <1>1, <1>2, <1>3, <1>4, <1>5, <1>6 DEF TrailInv

(* What AppendStep asks of the records a step leaves alone.                *)
LEMMA OthersKept ==
  ASSUME TrailInv, NEW q \in AT!Records, append'[q] = append[q]
  PROVE  /\ append'[q].pc \in Logged => \E f \in 1..Len(text) : AT!Holds(f, q)
         /\ append'[q].pc = "writing" => append'[q].w \in 1..Len(writers) /\ Queued(append[q].w, q)
         /\ append'[q].pc = "assigning" => append'[q].w \in 1..Len(writers)
         /\ append'[q].pc = "pruning" =>
               \A t \in append'[q].doomed : Cardinality(Newer(t)) >= MaxRotatedFiles
<1>1. append'[q].pc \in Logged => \E f \in 1..Len(text) : AT!Holds(f, q)
  BY DEF TrailInv, LoggedHeld
<1>2. append'[q].pc = "writing" => append'[q].w \in 1..Len(writers) /\ Queued(append[q].w, q)
  BY DEF TrailInv, LinesQueued, Queued
<1>3. append'[q].pc = "assigning" => append'[q].w \in 1..Len(writers)
  BY DEF TrailInv, WriterThere
<1>4. append'[q].pc = "pruning" => \A t \in append'[q].doomed : Cardinality(Newer(t)) >= MaxRotatedFiles
  BY DEF TrailInv, DoomedOld
<1> QED
  BY <1>1, <1>2, <1>3, <1>4

(* The logger takes a record of the bus: it is refused, or a line is queued. *)
LEMMA LineTaken ==
  ASSUME TrailInv, phase = "on", NEW r \in AT!Records, AT!TakesLine(r)
  PROVE  /\ writers' \in Seq(WriterRec) /\ Len(writers') = Len(writers)
         /\ \A w \in 1..Len(writers) : writers'[w].file = writers[w].file
         /\ \A w \in 1..Len(writers), q \in AT!Records : Queued(w, q) => Queued(w, q)'
         /\ AT!Started \in AppendRec /\ AT!Started.pc \in {"writing", "rejected"}
         /\ AT!Started.pc = "writing" => /\ AT!Started.w \in 1..Len(writers)
                                         /\ \E i \in 1..Len(writers'[AT!Started.w].lines) :
                                               writers'[AT!Started.w].lines[i] = r
<1>1. PICK cur : cur = logger.writer
  OBVIOUS
<1>2. cur \in 1..Len(writers) /\ cur \in Nat
  <2>1. logger.writer # 0
    BY DEF TrailInv, WriterThere
  <2>2. logger.writer \in 0..Len(writers) /\ Len(writers) \in Nat
    BY TrailFacts
  <2> QED
    BY <1>1, <2>1, <2>2
<1>3. writers \in Seq(WriterRec) /\ writers[cur] \in WriterRec
  BY <1>2, TrailFacts
<1>4. CASE ~AT!Writable
  <2>1. writers' = writers
    BY <1>4 DEF AT!TakesLine
  <2>2. AT!Started = [pc |-> "rejected", w |-> cur, doomed |-> {}]
    BY <1>1, <1>4 DEF AT!Started, AT!NoAppend
  <2>3. AT!Started \in AppendRec /\ AT!Started.pc = "rejected"
    BY <1>2, <2>2 DEF AppendRec, AppendPcs
  <2> QED
    BY <1>3, <2>1, <2>3 DEF Queued
<1>5. CASE AT!Writable
  <2> DEFINE rec == [writers[cur] EXCEPT !.lines = Append(@, r)]
  <2>1. writers' = [writers EXCEPT ![cur] = rec]
    BY <1>1, <1>5 DEF AT!TakesLine
  <2>2. /\ rec \in WriterRec /\ rec.file = writers[cur].file
        /\ rec.lines = Append(writers[cur].lines, r) /\ writers[cur].lines \in Seq(AT!Records)
    <3>1. writers[cur].lines \in Seq(AT!Records)
      BY <1>3 DEF WriterRec
    <3>2. Append(writers[cur].lines, r) \in Seq(AT!Records)
      BY <3>1
    <3> QED
      BY <1>3, <3>1, <3>2 DEF WriterRec
  <2> HIDE DEF rec
  <2>3. /\ writers' \in Seq(WriterRec) /\ Len(writers') = Len(writers)
        /\ writers'[cur] = rec /\ \A w \in 1..Len(writers) \ {cur} : writers'[w] = writers[w]
    BY <1>2, <1>3, <2>1, <2>2, Replaced
  <2>4. ASSUME NEW w \in 1..Len(writers) PROVE writers'[w].file = writers[w].file
    BY <2>2, <2>3
  <2>5. /\ Len(rec.lines) = Len(writers[cur].lines) + 1 /\ Len(writers[cur].lines) \in Nat
        /\ \A i \in 1..Len(writers[cur].lines) : rec.lines[i] = writers[cur].lines[i]
        /\ rec.lines[Len(writers[cur].lines) + 1] = r
    BY <2>2, Appended
  <2>6. ASSUME NEW w \in 1..Len(writers), NEW q \in AT!Records, Queued(w, q) PROVE Queued(w, q)'
    <3>1. CASE w = cur
      <4>1. PICK i \in 1..Len(writers[cur].lines) : writers[cur].lines[i] = q
        BY <2>6, <3>1 DEF Queued
      <4>2. i \in 1..Len(rec.lines) /\ rec.lines[i] = q
        BY <2>5, <4>1
      <4> QED
        BY <2>3, <3>1, <4>2 DEF Queued
    <3>2. CASE w # cur
      BY <2>3, <2>6, <3>2 DEF Queued
    <3> QED
      BY <3>1, <3>2
  <2>7. AT!Started = [pc |-> "writing", w |-> cur, doomed |-> {}]
    BY <1>1, <1>5 DEF AT!Started, AT!NoAppend
  <2>8. AT!Started \in AppendRec /\ AT!Started.pc = "writing" /\ AT!Started.w = cur
    BY <1>2, <2>7 DEF AppendRec, AppendPcs
  <2>9. \E i \in 1..Len(writers'[cur].lines) : writers'[cur].lines[i] = r
    <3>1. Len(writers[cur].lines) + 1 \in 1..Len(rec.lines)
      BY <2>5
    <3> QED
      BY <2>3, <2>5, <3>1
  <2> QED
    BY <1>2, <2>3, <2>4, <2>6, <2>8, <2>9
<1> QED
  BY <1>4, <1>5

LEMMA StartedKeeps ==
  ASSUME TrailInv, phase = "on", NEW r \in AT!Records, AT!TakesLine(r),
         UNCHANGED <<phase, now, text, path, rotated, removed, logger>>,
         append' \in [AT!Records -> AppendRec], append'[r] = AT!Started,
         \A q \in AT!Records \ {r} : append'[q] = append[q] \/ append'[q].pc = "reported"
  PROVE  TrailInv'
<1>1. /\ writers' \in Seq(WriterRec) /\ Len(writers') = Len(writers)
      /\ \A w \in 1..Len(writers) : writers'[w].file = writers[w].file
      /\ \A w \in 1..Len(writers), q \in AT!Records : Queued(w, q) => Queued(w, q)'
      /\ AT!Started \in AppendRec /\ AT!Started.pc \in {"writing", "rejected"}
      /\ AT!Started.pc = "writing" => /\ AT!Started.w \in 1..Len(writers)
                                      /\ \E i \in 1..Len(writers'[AT!Started.w].lines) :
                                            writers'[AT!Started.w].lines[i] = r
  BY LineTaken
<1>2. ASSUME NEW q \in AT!Records
      PROVE  /\ append'[q].pc \in Logged => \E f \in 1..Len(text) : AT!Holds(f, q)
             /\ append'[q].pc = "writing" => append'[q].w \in 1..Len(writers) /\ Queued(append[q].w, q)'
             /\ append'[q].pc = "assigning" => append'[q].w \in 1..Len(writers)
             /\ append'[q].pc = "pruning" =>
                   \A t \in append'[q].doomed : Cardinality(Newer(t)) >= MaxRotatedFiles
  <2>1. CASE q = r
    <3>1. append'[q].pc \in {"writing", "rejected"}
      BY <1>1, <2>1
    <3>2. append'[q].pc = "writing" => append'[q].w \in 1..Len(writers) /\ Queued(append[q].w, q)'
      BY <1>1, <2>1 DEF Queued
    <3> QED
      BY <3>1, <3>2 DEF Logged
  <2>2. CASE append'[q].pc = "reported"
    BY <2>2 DEF Logged
  <2>3. CASE append'[q] = append[q]
    <3>1. /\ append'[q].pc \in Logged => \E f \in 1..Len(text) : AT!Holds(f, q)
          /\ append'[q].pc = "writing" => append'[q].w \in 1..Len(writers) /\ Queued(append[q].w, q)
          /\ append'[q].pc = "assigning" => append'[q].w \in 1..Len(writers)
          /\ append'[q].pc = "pruning" =>
                \A t \in append'[q].doomed : Cardinality(Newer(t)) >= MaxRotatedFiles
      BY <2>3, OthersKept
    <3>2. append'[q].pc = "writing" => Queued(append[q].w, q)'
      BY <1>1, <2>3, <3>1 DEF Queued
    <3> QED
      BY <3>1, <3>2
  <2> QED
    BY <2>1, <2>2, <2>3
<1>3. \A q \in AT!Records : append'[q].pc \in Logged => \E f \in 1..Len(text) : AT!Holds(f, q)'
  BY <1>2 DEF AT!Holds
<1>4. /\ text' \in Seq(Seq(AT!Records)) /\ Len(text') = Len(text)
      /\ logger' \in [writer : 0..Len(writers), closing : Nat, by : {"none", "deactivate", "dispose"}]
      /\ logger'.writer # 0
  BY TrailFacts DEF TrailInv, WriterThere
<1> QED
  BY <1>1, <1>2, <1>3, <1>4, AppendStep

LEMMA EmitKeeps == ASSUME TrailInv, NEW r \in AT!Originals, AT!emit(r) PROVE TrailInv'
<1>1. /\ phase = "on" /\ append' = [append EXCEPT ![r] = AT!Started] /\ AT!TakesLine(r)
      /\ UNCHANGED <<phase, now, text, path, rotated, removed, logger>> /\ r \in AT!Records
  BY RecordsFit DEF AT!emit, AT!KeepBus, AT!KeepDisk
<1>2. AT!Started \in AppendRec
  BY <1>1, LineTaken
<1>3. /\ append' \in [AT!Records -> AppendRec] /\ append'[r] = AT!Started
      /\ \A q \in AT!Records \ {r} : append'[q] = append[q]
  BY <1>1, <1>2, AppendSet
<1> QED
  BY <1>1, <1>3, StartedKeeps

LEMMA BroadcastKeeps == ASSUME TrailInv, NEW r \in AT!Records, AT!broadcast(r) PROVE TrailInv'
<1>1. /\ append[r].pc = "rejected"
      /\ UNCHANGED <<phase, now, text, path, rotated, removed, logger>>
  BY DEF AT!broadcast, AT!KeepBus, AT!KeepDisk
<1>2. CASE r \notin AT!Originals \/ phase # "on"
  <2>1. AT!At(r, "lost") /\ UNCHANGED writers
    BY <1>2 DEF AT!broadcast
  <2> QED
    BY <1>1, <2>1, PcMoves DEF AppendPcs, Logged
<1>3. CASE r \in AT!Originals /\ phase = "on"
  <2> DEFINE s == r + MaxRecords
             told == [append EXCEPT ![r].pc = "reported"]
  <2>1. append' = [told EXCEPT ![s] = AT!Started] /\ AT!TakesLine(s)
    BY <1>3 DEF AT!broadcast
  <2>2. s \in AT!Records /\ s # r
    BY <1>3, RecordsFit
  <2>3. AT!Started \in AppendRec
    BY <1>3, <2>1, <2>2, LineTaken
  <2>4. /\ told \in [AT!Records -> AppendRec] /\ told[r].pc = "reported"
        /\ \A q \in AT!Records \ {r} : told[q] = append[q]
    <3>1. append \in [AT!Records -> AppendRec] /\ append[r] \in AppendRec
      BY TrailFacts
    <3>2. told = [append EXCEPT ![r] = [append[r] EXCEPT !.pc = "reported"]]
      OBVIOUS
    <3>3. [append[r] EXCEPT !.pc = "reported"] \in AppendRec /\ [append[r] EXCEPT !.pc = "reported"].pc = "reported"
      BY <3>1 DEF AppendRec, AppendPcs
    <3> QED
      BY <3>1, <3>2, <3>3
  <2> HIDE DEF s, told
  <2>5. /\ append' \in [AT!Records -> AppendRec] /\ append'[s] = AT!Started
        /\ \A q \in AT!Records \ {s} : append'[q] = append[q] \/ append'[q].pc = "reported"
    BY <2>1, <2>2, <2>3, <2>4
  <2> QED
    BY <1>1, <1>3, <2>1, <2>2, <2>5, StartedKeeps
<1> QED
  BY <1>2, <1>3

(* The line at the head of a writer leaves the writer's lines.             *)
LEMMA LineLeaves ==
  ASSUME TrailInv, NEW w \in 1..Len(writers), NEW r \in AT!Records, Head(writers[w].lines) = r,
         Len(writers[w].lines) > 0,
         NEW rec \in WriterRec, rec.file = writers[w].file, rec.lines = Tail(writers[w].lines),
         writers' = [writers EXCEPT ![w] = rec]
  PROVE  /\ writers' \in Seq(WriterRec) /\ Len(writers') = Len(writers)
         /\ \A v \in 1..Len(writers) : writers'[v].file = writers[v].file
         /\ \A v \in 1..Len(writers), q \in AT!Records \ {r} : Queued(v, q) => Queued(v, q)'
<1>1. writers \in Seq(WriterRec) /\ writers[w] \in WriterRec
  BY TrailFacts
<1>2. /\ writers' \in Seq(WriterRec) /\ Len(writers') = Len(writers)
      /\ writers'[w] = rec /\ \A v \in 1..Len(writers) \ {w} : writers'[v] = writers[v]
  BY <1>1, Replaced
<1>3. ASSUME NEW v \in 1..Len(writers), NEW q \in AT!Records \ {r}, Queued(v, q) PROVE Queued(v, q)'
  <2>1. CASE v # w
    BY <1>2, <1>3, <2>1 DEF Queued
  <2>2. CASE v = w
    <3>1. PICK i \in 1..Len(writers[w].lines) : writers[w].lines[i] = q
      BY <1>3, <2>2 DEF Queued
    <3>2. writers[w].lines \in Seq(AT!Records)
      BY <1>1 DEF WriterRec
    <3>3. i # 1
      BY <3>1, <3>2
    <3>4. i - 1 \in 1..Len(Tail(writers[w].lines)) /\ Tail(writers[w].lines)[i - 1] = q
      BY <3>1, <3>2, <3>3
    <3> QED
      BY <1>2, <2>2, <3>4 DEF Queued
  <2> QED
    BY <2>1, <2>2
<1>4. \A v \in 1..Len(writers) : writers'[v].file = writers[v].file
  BY <1>2
<1> QED
  BY <1>2, <1>3, <1>4

(* One record moves on, the others keep their place.                       *)
LEMMA RecordMoves ==
  ASSUME TrailInv, NEW r \in AT!Records, UNCHANGED <<phase, now, logger, path, rotated, removed>>,
         writers' \in Seq(WriterRec), Len(writers') = Len(writers),
         \A v \in 1..Len(writers) : writers'[v].file = writers[v].file,
         \A v \in 1..Len(writers), q \in AT!Records \ {r} : Queued(v, q) => Queued(v, q)',
         append' \in [AT!Records -> AppendRec],
         \A q \in AT!Records \ {r} : append'[q] = append[q],
         text' \in Seq(Seq(AT!Records)), Len(text') = Len(text),
         \A f \in 1..Len(text), q \in AT!Records : AT!Holds(f, q) => AT!Holds(f, q)',
         append'[r].pc \notin {"writing", "pruning"},
         append'[r].pc = "assigning" => append'[r].w \in 1..Len(writers),
         append'[r].pc \in Logged => \E f \in 1..Len(text) : AT!Holds(f, r)'
  PROVE  TrailInv'
<1>1. ASSUME NEW q \in AT!Records
      PROVE  /\ append'[q].pc \in Logged => \E f \in 1..Len(text) : AT!Holds(f, q)'
             /\ append'[q].pc = "writing" => append'[q].w \in 1..Len(writers) /\ Queued(append[q].w, q)'
             /\ append'[q].pc = "assigning" => append'[q].w \in 1..Len(writers)
             /\ append'[q].pc = "pruning" =>
                   \A t \in append'[q].doomed : Cardinality(Newer(t)) >= MaxRotatedFiles
  <2>1. CASE q = r
    BY <2>1
  <2>2. CASE q # r
    <3>1. append'[q] = append[q]
      BY <2>2
    <3>2. /\ append'[q].pc \in Logged => \E f \in 1..Len(text) : AT!Holds(f, q)
          /\ append'[q].pc = "writing" => append'[q].w \in 1..Len(writers) /\ Queued(append[q].w, q)
          /\ append'[q].pc = "assigning" => append'[q].w \in 1..Len(writers)
          /\ append'[q].pc = "pruning" =>
                \A t \in append'[q].doomed : Cardinality(Newer(t)) >= MaxRotatedFiles
      BY <3>1, OthersKept
    <3>3. append'[q].pc = "writing" => Queued(append[q].w, q)'
      <4>1. PICK v : v = append[q].w
        OBVIOUS
      <4>2. ASSUME append'[q].pc = "writing" PROVE Queued(v, q)'
        <5>1. v \in 1..Len(writers) /\ Queued(v, q)
          BY <3>1, <3>2, <4>1, <4>2 DEF Queued
        <5> QED
          BY <2>2, <5>1
      <4> QED
        BY <3>1, <4>1, <4>2 DEF Queued
    <3>4. append'[q].pc \in Logged => \E f \in 1..Len(text) : AT!Holds(f, q)'
      BY <3>2
    <3> QED
      BY <3>2, <3>3, <3>4
  <2> QED
    BY <2>1, <2>2
<1>2. /\ logger' \in [writer : 0..Len(writers), closing : Nat, by : {"none", "deactivate", "dispose"}]
      /\ phase = "on" => logger'.writer # 0
  BY TrailFacts DEF TrailInv, WriterThere
<1> QED
  BY <1>1, <1>2, AppendStep

LEMMA WroteKeeps == ASSUME TrailInv, NEW r \in AT!Records, AT!wrote(r) PROVE TrailInv'
<1>1. /\ append[r].pc = "writing" /\ Head(writers[append[r].w].lines) = r
      /\ UNCHANGED <<phase, now, logger, path, rotated, removed>>
  BY DEF AT!wrote, AT!KeepBus
<1>2. PICK w : w = append[r].w
  OBVIOUS
<1>3. /\ w \in 1..Len(writers) /\ writers[w] \in WriterRec /\ writers[w].lines \in Seq(AT!Records)
      /\ Len(writers[w].lines) > 0 /\ writers[w].file \in 1..Len(text) /\ writers[w].size \in Nat
      /\ Tail(writers[w].lines) \in Seq(AT!Records)
  <2>1. w \in 1..Len(writers) /\ Queued(w, r)
    BY <1>1, <1>2 DEF TrailInv, LinesQueued, Queued
  <2>2. writers[w] \in WriterRec /\ writers[w].file \in 1..Len(text)
    BY <2>1, TrailFacts
  <2>3. writers[w].lines \in Seq(AT!Records) /\ writers[w].size \in Nat
    BY <2>2 DEF WriterRec
  <2>4. Len(writers[w].lines) > 0
    BY <2>1, <2>3 DEF Queued
  <2>5. Tail(writers[w].lines) \in Seq(AT!Records)
    BY <2>3, <2>4
  <2> QED
    BY <2>1, <2>2, <2>3, <2>4, <2>5
<1>4. CASE AT!Rejects(r) /\ UNCHANGED text
           /\ writers' = [writers EXCEPT ![w].lines = Tail(@), ![w].broken = TRUE]
  <2> DEFINE rec == [writers[w] EXCEPT !.lines = Tail(@), !.broken = TRUE]
  <2>1. writers' = [writers EXCEPT ![w] = rec]
    BY <1>3, <1>4, TrailFacts
  <2>2. rec \in WriterRec /\ rec.file = writers[w].file /\ rec.lines = Tail(writers[w].lines)
    BY <1>3 DEF WriterRec
  <2> HIDE DEF rec
  <2>3. /\ writers' \in Seq(WriterRec) /\ Len(writers') = Len(writers)
        /\ \A v \in 1..Len(writers) : writers'[v].file = writers[v].file
        /\ \A v \in 1..Len(writers), q \in AT!Records \ {r} : Queued(v, q) => Queued(v, q)'
    BY <1>1, <1>2, <1>3, <2>1, <2>2, LineLeaves
  <2>4. /\ append' \in [AT!Records -> AppendRec] /\ append'[r].pc = "rejected"
        /\ \A q \in AT!Records \ {r} : append'[q] = append[q]
    BY <1>4, PcSet DEF AT!Rejects, AppendPcs
  <2>5. /\ text' \in Seq(Seq(AT!Records)) /\ Len(text') = Len(text)
        /\ \A f \in 1..Len(text), q \in AT!Records : AT!Holds(f, q) => AT!Holds(f, q)'
    BY <1>4, TrailFacts DEF AT!Holds
  <2>6. append'[r].pc \notin Logged \cup {"writing", "pruning", "assigning"}
    BY <2>4 DEF Logged
  <2> QED
    BY <1>1, <2>3, <2>4, <2>5, <2>6, RecordMoves
<1>5. CASE /\ writers' = [writers EXCEPT ![w].lines = Tail(@), ![w].size = @ + 1]
           /\ text' = [text EXCEPT ![writers[w].file] = Append(@, r)]
           /\ IF logger.writer = 0 THEN AT!Rejects(r)
              ELSE \E pc \in {"assigning", "renaming", "flushing"} :
                     append' = [append EXCEPT ![r].w = logger.writer, ![r].pc = pc]
  <2> DEFINE rec == [writers[w] EXCEPT !.lines = Tail(@), !.size = @ + 1]
  <2>1. writers' = [writers EXCEPT ![w] = rec]
    BY <1>3, <1>5, TrailFacts
  <2>2. rec \in WriterRec /\ rec.file = writers[w].file /\ rec.lines = Tail(writers[w].lines)
    <3>1. writers[w].size + 1 \in Nat
      BY <1>3
    <3>2. rec.lines = Tail(writers[w].lines) /\ rec.file = writers[w].file
      BY <1>3 DEF WriterRec
    <3> QED
      BY <1>3, <3>1, <3>2 DEF WriterRec
  <2> HIDE DEF rec
  <2>3. /\ writers' \in Seq(WriterRec) /\ Len(writers') = Len(writers)
        /\ \A v \in 1..Len(writers) : writers'[v].file = writers[v].file
        /\ \A v \in 1..Len(writers), q \in AT!Records \ {r} : Queued(v, q) => Queued(v, q)'
    BY <1>1, <1>2, <1>3, <2>1, <2>2, LineLeaves
  <2>20. PICK f : f = writers[w].file
    OBVIOUS
  <2>21. PICK new : new = Append(text[f], r)
    OBVIOUS
  <2>4. f \in 1..Len(text) /\ text \in Seq(Seq(AT!Records)) /\ text[f] \in Seq(AT!Records)
    BY <1>3, <2>20, TrailFacts
  <2>5. text' = [text EXCEPT ![f] = new]
    BY <1>5, <2>20, <2>21
  <2>6. /\ new \in Seq(AT!Records) /\ Len(new) = Len(text[f]) + 1 /\ Len(text[f]) \in Nat
        /\ \A i \in 1..Len(text[f]) : new[i] = text[f][i]
        /\ new[Len(text[f]) + 1] = r
    BY <2>4, <2>21, Appended
  <2>7. /\ text' \in Seq(Seq(AT!Records)) /\ Len(text') = Len(text) /\ text'[f] = new
        /\ \A g \in 1..Len(text) \ {f} : text'[g] = text[g]
    BY <2>4, <2>5, <2>6, Replaced
  <2>8. ASSUME NEW g \in 1..Len(text), NEW q \in AT!Records, AT!Holds(g, q) PROVE AT!Holds(g, q)'
    <3>1. CASE g # f
      BY <2>7, <2>8, <3>1 DEF AT!Holds
    <3>2. CASE g = f
      <4>1. PICK i \in 1..Len(text[f]) : text[f][i] = q
        BY <2>8, <3>2 DEF AT!Holds
      <4>2. i \in 1..Len(new) /\ new[i] = q
        BY <2>6, <4>1
      <4> QED
        BY <2>7, <3>2, <4>2 DEF AT!Holds
    <3> QED
      BY <3>1, <3>2
  <2>9. AT!Holds(f, r)'
    <3>1. Len(text[f]) + 1 \in 1..Len(new)
      BY <2>6
    <3> QED
      BY <2>6, <2>7, <3>1 DEF AT!Holds
  <2>10. CASE AT!Rejects(r)
    <3>1. /\ append' \in [AT!Records -> AppendRec] /\ append'[r].pc = "rejected"
          /\ \A q \in AT!Records \ {r} : append'[q] = append[q]
      BY <2>10, PcSet DEF AT!Rejects, AppendPcs
    <3>2. append'[r].pc \notin Logged \cup {"writing", "pruning", "assigning"}
      BY <3>1 DEF Logged
    <3> QED
      BY <1>1, <2>3, <2>7, <2>8, <3>1, <3>2, RecordMoves
  <2>11. ASSUME logger.writer # 0, NEW pc \in {"assigning", "renaming", "flushing"},
                append' = [append EXCEPT ![r].w = logger.writer, ![r].pc = pc]
         PROVE  TrailInv'
    <3>1. logger.writer \in 1..Len(writers) /\ logger.writer \in Nat
      <4>1. logger.writer \in 0..Len(writers) /\ Len(writers) \in Nat
        BY TrailFacts
      <4> QED
        BY <2>11, <4>1
    <3>2. append \in [AT!Records -> AppendRec] /\ append[r] \in AppendRec
      BY TrailFacts
    <3> DEFINE a == [append[r] EXCEPT !.w = logger.writer, !.pc = pc]
    <3>3. append' = [append EXCEPT ![r] = a]
      BY <2>11, <3>2
    <3>4. a \in AppendRec /\ a.pc = pc /\ a.w = logger.writer
      BY <3>1, <3>2 DEF AppendRec, AppendPcs, Logged
    <3> HIDE DEF a
    <3>5. /\ append' \in [AT!Records -> AppendRec] /\ append'[r] = a
          /\ \A q \in AT!Records \ {r} : append'[q] = append[q]
      BY <3>3, <3>4, AppendSet
    <3>6. append'[r].pc \notin {"writing", "pruning"} /\ append'[r].w \in 1..Len(writers)
      BY <3>1, <3>4, <3>5
    <3> QED
      BY <1>1, <2>3, <2>4, <2>7, <2>8, <2>9, <3>5, <3>6, RecordMoves
  <2> QED
    BY <1>5, <2>10, <2>11
<1>6. AT!wrote(r) => \/ AT!Rejects(r) /\ UNCHANGED text
                         /\ writers' = [writers EXCEPT ![w].lines = Tail(@), ![w].broken = TRUE]
                     \/ /\ writers' = [writers EXCEPT ![w].lines = Tail(@), ![w].size = @ + 1]
                        /\ text' = [text EXCEPT ![writers[w].file] = Append(@, r)]
                        /\ IF logger.writer = 0 THEN AT!Rejects(r)
                           ELSE \E pc \in {"assigning", "renaming", "flushing"} :
                                  append' = [append EXCEPT ![r].w = logger.writer, ![r].pc = pc]
  BY <1>2 DEF AT!wrote
<1> QED
  BY <1>4, <1>5, <1>6

LEMMA AssignsKeeps == ASSUME TrailInv, NEW r \in AT!Records, AT!assigns(r) PROVE TrailInv'
<1>1. /\ append[r].pc = "assigning" /\ AT!At(r, "done")
      /\ logger' = [logger EXCEPT !.writer = append[r].w]
      /\ UNCHANGED <<phase, now, text, path, rotated, removed, writers>>
  BY DEF AT!assigns, AT!KeepBus, AT!KeepDisk
<1>2. append[r].w \in 1..Len(writers) /\ Len(writers) \in Nat
  BY <1>1, TrailFacts DEF TrailInv, WriterThere
<1>3. /\ append' \in [AT!Records -> AppendRec] /\ append'[r].pc = "done"
      /\ \A q \in AT!Records \ {r} : append'[q] = append[q]
  BY <1>1, PcSet DEF AppendPcs, Logged
<1>4. /\ logger' \in [writer : 0..Len(writers), closing : Nat, by : {"none", "deactivate", "dispose"}]
      /\ logger'.writer # 0
  <2>1. append[r].w \in 0..Len(writers) /\ append[r].w # 0
    BY <1>2
  <2>2. logger \in [writer : 0..Len(writers), closing : Nat, by : {"none", "deactivate", "dispose"}]
    BY TrailFacts
  <2> QED
    BY <1>1, <2>1, <2>2
<1>5. ASSUME NEW q \in AT!Records
      PROVE  /\ append'[q].pc \in Logged => \E f \in 1..Len(text) : AT!Holds(f, q)
             /\ append'[q].pc = "writing" => append'[q].w \in 1..Len(writers) /\ Queued(append[q].w, q)
             /\ append'[q].pc = "assigning" => append'[q].w \in 1..Len(writers)
             /\ append'[q].pc = "pruning" =>
                   \A t \in append'[q].doomed : Cardinality(Newer(t)) >= MaxRotatedFiles
  <2>1. CASE q = r
    BY <1>1, <1>3, <2>1 DEF TrailInv, LoggedHeld, Logged
  <2>2. CASE q # r
    <3>1. append'[q] = append[q]
      BY <1>3, <2>2
    <3> QED
      BY <3>1, OthersKept
  <2> QED
    BY <2>1, <2>2
<1>6. \A q \in AT!Records : append'[q].pc = "writing" => Queued(append[q].w, q)'
  <2> SUFFICES ASSUME NEW q \in AT!Records, append'[q].pc = "writing"
               PROVE  \E i \in 1..Len(writers[append'[q].w].lines) : writers[append'[q].w].lines[i] = q
    BY <1>1 DEF Queued
  <2>1. q # r /\ append'[q] = append[q]
    BY <1>3
  <2> QED
    BY <1>5, <2>1 DEF Queued
<1>7. \A q \in AT!Records : append'[q].pc \in Logged => \E f \in 1..Len(text) : AT!Holds(f, q)'
  BY <1>1, <1>5 DEF AT!Holds
<1> QED
  BY <1>1, <1>3, <1>4, <1>5, <1>6, <1>7, TrailFacts, AppendStep

LEMMA SameCardinality == ASSUME NEW S PROVE AT!Cardinality(S) = Cardinality(S)
  BY DEF AT!Cardinality, Cardinality

LEMMA WriterReplaced ==
  ASSUME TrailInv, NEW w \in 1..Len(writers), NEW rec \in WriterRec, rec.file = writers[w].file,
         rec.lines = writers[w].lines, writers' = [writers EXCEPT ![w] = rec]
  PROVE  /\ writers' \in Seq(WriterRec) /\ Len(writers') = Len(writers)
         /\ \A v \in 1..Len(writers) : writers'[v].file = writers[v].file
         /\ \A v \in 1..Len(writers), q \in AT!Records : Queued(v, q) => Queued(v, q)'
<1>1. writers \in Seq(WriterRec)
  BY TrailFacts
<1>4. /\ writers' \in Seq(WriterRec) /\ Len(writers') = Len(writers)
      /\ writers'[w] = rec /\ \A v \in 1..Len(writers) \ {w} : writers'[v] = writers[v]
  BY <1>1, Replaced
<1>5. \A v \in 1..Len(writers) : writers'[v].file = writers[v].file /\ writers'[v].lines = writers[v].lines
  BY <1>4
<1> QED
  BY <1>4, <1>5 DEF Queued

LEMMA ClosedFacts ==
  ASSUME TrailInv, NEW w \in 1..Len(writers), writers' = [writers EXCEPT ![w].closed = TRUE]
  PROVE  /\ writers' \in Seq(WriterRec) /\ Len(writers') = Len(writers)
         /\ \A v \in 1..Len(writers) : writers'[v].file = writers[v].file
         /\ \A v \in 1..Len(writers), q \in AT!Records : Queued(v, q) => Queued(v, q)'
<1>1. writers \in Seq(WriterRec) /\ writers[w] \in WriterRec
  BY TrailFacts
<1>2. PICK rec : rec = [writers[w] EXCEPT !.closed = TRUE]
  OBVIOUS
<1>3. writers' = [writers EXCEPT ![w] = rec]
  BY <1>1, <1>2
<1>4. rec \in WriterRec /\ rec.file = writers[w].file /\ rec.lines = writers[w].lines
  BY <1>1, <1>2 DEF WriterRec
<1> QED
  BY <1>3, <1>4, WriterReplaced

LEMMA FlushedKeeps == ASSUME TrailInv, NEW r \in AT!Records, AT!flushed(r) PROVE TrailInv'
<1>1. /\ append[r].pc = "flushing" /\ append[r].w \in Nat
      /\ UNCHANGED <<phase, now, text, path, rotated, removed, logger>>
  <2>1. append[r] \in AppendRec
    BY TrailFacts
  <2> QED
    BY <2>1 DEF AT!flushed, AT!KeepBus, AT!KeepDisk, AppendRec
<1>2. CASE AT!Rejects(r) /\ UNCHANGED writers
  BY <1>1, <1>2, PcMoves DEF AT!Rejects, AppendPcs, Logged
<1>3. CASE /\ AT!At(r, "ending")
           /\ writers' = [writers EXCEPT ![append[r].w].closed = TRUE]
  <2>1. /\ writers' \in Seq(WriterRec) /\ Len(writers') = Len(writers)
        /\ \A v \in 1..Len(writers) : writers'[v].file = writers[v].file
        /\ \A v \in 1..Len(writers), q \in AT!Records \ {r} : Queued(v, q) => Queued(v, q)'
    <3>1. PICK w : w = append[r].w
      OBVIOUS
    <3>2. CASE w \in 1..Len(writers)
      BY <1>3, <3>1, <3>2, ClosedFacts
    <3>3. CASE w \notin 1..Len(writers)
      <4>1. writers' = writers
        BY <1>3, <3>1, <3>3, TrailFacts
      <4> QED
        BY <4>1, TrailFacts DEF Queued
    <3> QED
      BY <3>2, <3>3
  <2>2. /\ append' \in [AT!Records -> AppendRec] /\ append'[r].pc = "ending"
        /\ \A q \in AT!Records \ {r} : append'[q] = append[q]
    BY <1>3, PcSet DEF AppendPcs, Logged
  <2>3. /\ text' \in Seq(Seq(AT!Records)) /\ Len(text') = Len(text)
        /\ \A f \in 1..Len(text), q \in AT!Records : AT!Holds(f, q) => AT!Holds(f, q)'
    BY <1>1, TrailFacts DEF AT!Holds
  <2>4. \E f \in 1..Len(text) : AT!Holds(f, r)
    BY <1>1 DEF TrailInv, LoggedHeld, Logged
  <2> QED
    BY <1>1, <2>1, <2>2, <2>3, <2>4, RecordMoves
<1> QED
  BY <1>2, <1>3 DEF AT!flushed

LEMMA EndedKeeps == ASSUME TrailInv, NEW r \in AT!Records, AT!ended(r) PROVE TrailInv'
<1>1. /\ AT!At(r, "rejected") \/ AT!At(r, "renaming")
      /\ UNCHANGED <<phase, now, text, path, rotated, removed, logger, writers>>
  BY DEF AT!ended, AT!KeepBus, AT!KeepDisk, AT!Rejects
<1>2. append[r].pc = "ending"
  BY DEF AT!ended
<1> QED
  BY <1>1, <1>2, PcMoves DEF AppendPcs, Logged

LEMMA ListsKeeps == ASSUME TrailInv, NEW r \in AT!Records, AT!lists(r) PROVE TrailInv'
<1>1. /\ append[r].pc = "listing"
      /\ UNCHANGED <<phase, now, text, path, rotated, removed, logger, writers>>
  BY DEF AT!lists, AT!KeepBus, AT!KeepDisk
<1>2. CASE AT!Rejects(r)
  BY <1>1, <1>2, PcMoves DEF AT!Rejects, AppendPcs, Logged
<1>3. CASE append' = [append EXCEPT ![r].pc = "pruning", ![r].doomed = {x.at : x \in AT!Overflow(rotated)}]
  <2> DEFINE ats == {x.at : x \in AT!Overflow(rotated)}
             rec == [append[r] EXCEPT !.pc = "pruning", !.doomed = ats]
  <2>1. append \in [AT!Records -> AppendRec] /\ append[r] \in AppendRec /\ rotated \subseteq RotatedAt(Len(text))
    BY TrailFacts
  <2>2. ASSUME NEW t \in ats PROVE t \in 1..MaxNow /\ Cardinality(Newer(t)) >= MaxRotatedFiles
    <3>1. PICK x \in AT!Overflow(rotated) : t = x.at
      OBVIOUS
    <3>2. x \in rotated /\ Cardinality(Newer(x.at)) >= MaxRotatedFiles
      BY SameCardinality DEF AT!Overflow, Newer
    <3> QED
      BY <2>1, <3>1, <3>2 DEF RotatedAt
  <2>3. append' = [append EXCEPT ![r] = rec]
    BY <1>3, <2>1
  <2>4. ats \subseteq 1..MaxNow
    BY <2>2
  <2> HIDE DEF ats
  <2>5. rec \in AppendRec /\ rec.pc = "pruning" /\ rec.doomed = ats
    BY <2>1, <2>4 DEF AppendRec, AppendPcs, Logged
  <2> HIDE DEF rec
  <2>6. /\ append' \in [AT!Records -> AppendRec] /\ append'[r] = rec
        /\ \A q \in AT!Records \ {r} : append'[q] = append[q]
    BY <2>3, <2>5, AppendSet
  <2>7. ASSUME NEW q \in AT!Records
        PROVE  /\ append'[q].pc \in Logged => \E f \in 1..Len(text) : AT!Holds(f, q)
               /\ append'[q].pc = "writing" => append'[q].w \in 1..Len(writers) /\ Queued(append[q].w, q)
               /\ append'[q].pc = "writing" => append'[q] = append[q]
               /\ append'[q].pc = "assigning" => append'[q].w \in 1..Len(writers)
               /\ append'[q].pc = "pruning" =>
                     \A t \in append'[q].doomed : Cardinality(Newer(t)) >= MaxRotatedFiles
    <3>1. CASE q = r
      <4>1. append'[q].pc = "pruning" /\ append'[q].doomed = ats
        BY <2>5, <2>6, <3>1
      <4>2. \E f \in 1..Len(text) : AT!Holds(f, q)
        BY <1>1, <3>1 DEF TrailInv, LoggedHeld, Logged
      <4> QED
        BY <2>2, <4>1, <4>2
    <3>2. CASE q # r
      <4>1. append'[q] = append[q]
        BY <2>6, <3>2
      <4> QED
        BY <4>1, OthersKept
    <3> QED
      BY <3>1, <3>2
  <2>8. \A q \in AT!Records : append'[q].pc = "writing" => Queued(append[q].w, q)'
    <3> SUFFICES ASSUME NEW q \in AT!Records, append'[q].pc = "writing"
                 PROVE  \E i \in 1..Len(writers[append'[q].w].lines) : writers[append'[q].w].lines[i] = q
      BY <1>1 DEF Queued
    <3> QED
      BY <2>7 DEF Queued
  <2>9. \A q \in AT!Records : append'[q].pc \in Logged => \E f \in 1..Len(text) : AT!Holds(f, q)'
    BY <1>1, <2>7 DEF AT!Holds
  <2>10. phase = "on" => logger'.writer # 0
    BY <1>1 DEF TrailInv, WriterThere
  <2> QED
    BY <1>1, <2>6, <2>7, <2>8, <2>9, <2>10, TrailFacts, AppendStep
<1> QED
  BY <1>2, <1>3 DEF AT!lists

(* One record keeps its lines and another file list: renames and removals. *)
LEMMA FilesMoved ==
  ASSUME TrailInv, NEW r \in AT!Records, UNCHANGED <<phase, now, logger, text, writers>>,
         path' \in 0..Len(text), rotated' \subseteq RotatedAt(Len(text)), IsFiniteSet(rotated'),
         FilesAccounted', OnePerTime', DoomedOld',
         append' \in [AT!Records -> AppendRec], append'[r].pc \in Logged \ {"assigning"},
         append[r].pc \in Logged,
         \A q \in AT!Records \ {r} : append'[q] = append[q]
  PROVE  TrailInv'
<1>1. TrailTypes'
  BY TrailFacts DEF TrailTypes, TrailInv
<1>2. LoggedHeld'
  BY DEF TrailInv, LoggedHeld, AT!Holds
<1>3. LinesQueued'
  <2> SUFFICES ASSUME NEW q \in AT!Records, append'[q].pc = "writing"
               PROVE  /\ append'[q].w \in 1..Len(writers)
                      /\ \E i \in 1..Len(writers[append'[q].w].lines) : writers[append'[q].w].lines[i] = q
    BY DEF LinesQueued
  <2>1. q # r /\ append'[q] = append[q]
    BY DEF Logged
  <2> QED
    BY <2>1 DEF TrailInv, LinesQueued
<1>4. WriterThere'
  BY DEF TrailInv, WriterThere
<1> QED
  BY <1>1, <1>2, <1>3, <1>4 DEF TrailInv

LEMMA RenamesKeeps == ASSUME TrailInv, NEW r \in AT!Records, AT!renames(r) PROVE TrailInv'
<1>1. append[r].pc = "renaming" /\ UNCHANGED <<phase, now, logger, text, writers>>
  BY DEF AT!renames, AT!KeepBus
<1>2. CASE AT!Rejects(r) /\ UNCHANGED <<path, rotated, removed>>
  BY <1>1, <1>2, PcMoves DEF AT!Rejects, AppendPcs, Logged
<1>3. CASE path # 0 /\ AT!At(r, "listing") /\ path' = 0
           /\ rotated' = (rotated \ {x \in rotated : x.at = now}) \cup {[at |-> now, file |-> path]}
           /\ removed' = removed \cup {x.file : x \in {y \in rotated : y.at = now}}
  <2>1. PICK same, new : same = {x \in rotated : x.at = now} /\ new = [at |-> now, file |-> path]
    OBVIOUS
  <2>2. /\ rotated \subseteq RotatedAt(Len(text)) /\ IsFiniteSet(rotated) /\ now \in 1..MaxNow
        /\ path \in 1..Len(text) /\ Len(text) \in Nat
    BY <1>3, TrailFacts
  <2>3. rotated' = (rotated \ same) \cup {new} /\ new.at = now /\ new.file = path
    BY <1>3, <2>1
  <2>4. rotated' \subseteq RotatedAt(Len(text)) /\ IsFiniteSet(rotated')
    <3>1. new \in RotatedAt(Len(text))
      BY <2>1, <2>2 DEF RotatedAt
    <3>2. IsFiniteSet(rotated \ same)
      BY <2>2, FS_Difference
    <3> QED
      BY <2>2, <2>3, <3>1, <3>2, FS_AddElement
  <2>5. FilesAccounted'
    <3> SUFFICES ASSUME NEW f \in 1..Len(text)
                 PROVE  f = 0 \/ f \in removed' \/ \E x \in rotated' : x.file = f
      BY <1>1, <1>3 DEF FilesAccounted
    <3>1. CASE f = path
      BY <2>3, <3>1
    <3>2. CASE f \in removed
      BY <1>3, <3>2
    <3>3. ASSUME NEW x \in rotated, x.file = f PROVE f \in removed' \/ \E y \in rotated' : y.file = f
      BY <1>3, <2>1, <2>3, <3>3
    <3> QED
      BY <3>1, <3>2, <3>3 DEF TrailInv, FilesAccounted
  <2>6. OnePerTime'
    BY <2>1, <2>3 DEF TrailInv, OnePerTime
  <2>7. /\ append' \in [AT!Records -> AppendRec] /\ append'[r].pc = "listing"
        /\ \A q \in AT!Records \ {r} : append'[q] = append[q]
    BY <1>3, PcSet DEF AppendPcs, Logged
  <2>8. DoomedOld'
    <3> SUFFICES ASSUME NEW q \in AT!Records, append'[q].pc = "pruning", NEW t \in append'[q].doomed
                 PROVE  Cardinality({y \in rotated' : y.at > t}) >= MaxRotatedFiles
      BY DEF DoomedOld, Newer
    <3>1. append'[q] = append[q]
      BY <2>7
    <3>2. Cardinality(Newer(t)) >= MaxRotatedFiles
      BY <3>1 DEF TrailInv, DoomedOld
    <3>3. t \in Nat /\ \A y \in rotated : y.at \in Nat
      <4>1. append'[q] \in AppendRec
        BY <2>7
      <4> QED
        BY <2>2, <4>1 DEF AppendRec, RotatedAt
    <3>4. IsFiniteSet(Newer(t)) /\ IsFiniteSet({y \in rotated' : y.at > t})
      BY <2>2, <2>4, FS_Subset DEF Newer
    <3>5. PICK newer : newer = {y \in rotated' : y.at > t}
      OBVIOUS
    <3>6. CASE now <= t
      <4>1. newer = Newer(t)
        BY <2>1, <2>2, <2>3, <3>3, <3>5, <3>6 DEF Newer
      <4> QED
        BY <3>2, <3>5, <4>1
    <3>7. CASE now > t /\ same = {}
      <4>1. Newer(t) \subseteq newer
        BY <2>3, <3>5, <3>7 DEF Newer
      <4>2. Cardinality(Newer(t)) <= Cardinality(newer) /\ Cardinality(Newer(t)) \in Nat /\ Cardinality(newer) \in Nat
        BY <3>4, <3>5, <4>1, FS_Subset, FS_CardinalityType
      <4> QED
        BY <3>2, <3>5, <4>2, TrailAssumption
    <3>8. CASE now > t /\ same # {}
      <4>1. PICK x \in same : TRUE
        BY <3>8
      <4>2. same = {x}
        BY <2>1, <4>1 DEF TrailInv, OnePerTime
      <4>3. x \in Newer(t)
        BY <2>1, <3>8, <4>1 DEF Newer
      <4>4. newer = (Newer(t) \ {x}) \cup {new}
        BY <2>1, <2>2, <2>3, <3>5, <3>8, <4>2 DEF Newer
      <4>5. new \notin Newer(t) \ {x}
        BY <2>1, <2>3, <4>2 DEF Newer
      <4>6. /\ IsFiniteSet(Newer(t) \ {x}) /\ Cardinality(Newer(t) \ {x}) = Cardinality(Newer(t)) - 1
            /\ Cardinality(Newer(t)) \in Nat
        BY <3>4, <4>3, FS_RemoveElement, FS_CardinalityType
      <4>7. Cardinality(newer) = Cardinality(Newer(t) \ {x}) + 1
        BY <4>4, <4>5, <4>6, FS_AddElement
      <4> QED
        BY <3>2, <3>5, <4>6, <4>7
    <3> QED
      BY <2>2, <3>3, <3>6, <3>7, <3>8
  <2>9. path' \in 0..Len(text) /\ append'[r].pc \in Logged \ {"assigning"} /\ append[r].pc \in Logged
    BY <1>1, <1>3, <2>2, <2>7 DEF Logged
  <2> QED
    BY <1>1, <2>4, <2>5, <2>6, <2>7, <2>8, <2>9, FilesMoved
<1> QED
  BY <1>2, <1>3 DEF AT!renames

(* One removal of pruneRotatedFiles: the names doomed have newer ones.     *)
LEMMA PrunesKeeps == ASSUME TrailInv, NEW r \in AT!Records, AT!prunes(r) PROVE TrailInv'
<1>1. append[r].pc = "pruning" /\ UNCHANGED <<phase, now, logger, text, path, writers>>
  BY DEF AT!prunes, AT!KeepBus
<1>2. CASE AT!Rejects(r) /\ UNCHANGED <<rotated, removed>>
  BY <1>1, <1>2, PcMoves DEF AT!Rejects, AppendPcs, Logged
<1>3. CASE AT!At(r, "reopening") /\ UNCHANGED <<rotated, removed>>
  BY <1>1, <1>3, PcMoves DEF AppendPcs, Logged
<1>4. ASSUME append[r].doomed # {},
             NEW d \in append[r].doomed, \A y \in append[r].doomed : d <= y,
             append' = [append EXCEPT ![r].doomed = @ \ {d}],
             rotated' = rotated \ {x \in rotated : x.at = d},
             removed' = removed \cup {x.file : x \in {y \in rotated : y.at = d}}
      PROVE  TrailInv'
  <2>1. /\ rotated \subseteq RotatedAt(Len(text)) /\ IsFiniteSet(rotated)
        /\ append \in [AT!Records -> AppendRec] /\ append[r] \in AppendRec /\ path \in 0..Len(text)
    BY TrailFacts
  <2>2. d \in Nat /\ append[r].doomed \in SUBSET (1..MaxNow)
    BY <2>1 DEF AppendRec
  <2>3. PICK rec : rec = [append[r] EXCEPT !.doomed = @ \ {d}]
    OBVIOUS
  <2>4. rec \in AppendRec /\ rec.pc = "pruning" /\ rec.doomed = append[r].doomed \ {d}
    BY <1>1, <2>1, <2>2, <2>3 DEF AppendRec
  <2>5. append' = [append EXCEPT ![r] = rec]
    BY <1>4, <2>1, <2>3
  <2>6. /\ append' \in [AT!Records -> AppendRec] /\ append'[r] = rec
        /\ \A q \in AT!Records \ {r} : append'[q] = append[q]
    BY <2>4, <2>5, AppendSet
  <2>7. rotated' \subseteq RotatedAt(Len(text)) /\ IsFiniteSet(rotated') /\ rotated' \subseteq rotated
    BY <1>4, <2>1, FS_Subset
  <2>8. FilesAccounted'
    <3> SUFFICES ASSUME NEW f \in 1..Len(text)
                 PROVE  f = path \/ f \in removed' \/ \E x \in rotated' : x.file = f
      BY <1>1 DEF FilesAccounted
    <3>1. ASSUME NEW x \in rotated, x.file = f PROVE f \in removed' \/ \E y \in rotated' : y.file = f
      BY <1>4, <3>1
    <3> QED
      BY <1>4, <3>1 DEF TrailInv, FilesAccounted
  <2>9. OnePerTime'
    BY <2>7 DEF TrailInv, OnePerTime
  <2>10. DoomedOld'
    <3> SUFFICES ASSUME NEW q \in AT!Records, append'[q].pc = "pruning", NEW t \in append'[q].doomed
                 PROVE  Cardinality({y \in rotated' : y.at > t}) >= MaxRotatedFiles
      BY DEF DoomedOld, Newer
    <3>1. append[q].pc = "pruning" /\ t \in append[q].doomed /\ (q = r => t # d)
      BY <1>1, <2>4, <2>6
    <3>2. t \in Nat /\ \A y \in rotated : y.at \in Nat
      <4>1. append[q] \in AppendRec
        BY <2>1
      <4> QED
        BY <2>1, <3>1, <4>1 DEF AppendRec, RotatedAt
    <3>3. Cardinality(Newer(t)) >= MaxRotatedFiles /\ Cardinality(Newer(d)) >= MaxRotatedFiles
      BY <1>1, <3>1 DEF TrailInv, DoomedOld
    <3>4. PICK newer : newer = {y \in rotated' : y.at > t}
      OBVIOUS
    <3>5. CASE t >= d
      <4>1. newer = Newer(t)
        BY <1>4, <2>2, <3>2, <3>4, <3>5 DEF Newer
      <4> QED
        BY <3>3, <3>4, <4>1
    <3>6. CASE t < d
      <4>1. Newer(d) \subseteq newer
        BY <1>4, <2>2, <3>2, <3>4, <3>6 DEF Newer
      <4>2. IsFiniteSet(newer)
        BY <2>7, <3>4, FS_Subset
      <4>3. Cardinality(Newer(d)) <= Cardinality(newer) /\ Cardinality(Newer(d)) \in Nat /\ Cardinality(newer) \in Nat
        BY <4>1, <4>2, FS_Subset, FS_CardinalityType
      <4> QED
        BY <3>3, <3>4, <4>3, TrailAssumption
    <3> QED
      BY <2>2, <3>2, <3>5, <3>6
  <2>11. path' \in 0..Len(text) /\ append'[r].pc \in Logged \ {"assigning"} /\ append[r].pc \in Logged
    BY <1>1, <2>1, <2>4, <2>6 DEF Logged
  <2> QED
    BY <1>1, <2>6, <2>7, <2>8, <2>9, <2>10, <2>11, FilesMoved
<1>5. ASSUME append[r].doomed # {}
      PROVE  LET d == CHOOSE x \in append[r].doomed : \A y \in append[r].doomed : x <= y
             IN  d \in append[r].doomed /\ \A y \in append[r].doomed : d <= y
  <2>1. append[r].doomed \in SUBSET Nat
    <3>1. append[r] \in AppendRec
      BY TrailFacts
    <3> QED
      BY <3>1 DEF AppendRec
  <2>2. \E x \in append[r].doomed : \A y \in append[r].doomed : x <= y
    BY <1>5, <2>1, LeastNumber
  <2> QED
    BY <2>2
<1>6. CASE append[r].doomed # {} /\ ~AT!Rejects(r)
  <2>1. PICK d : d = CHOOSE x \in append[r].doomed : \A y \in append[r].doomed : x <= y
    OBVIOUS
  <2>2. d \in append[r].doomed /\ \A y \in append[r].doomed : d <= y
    BY <1>5, <1>6, <2>1
  <2>3. /\ append' = [append EXCEPT ![r].doomed = @ \ {d}]
        /\ rotated' = rotated \ {x \in rotated : x.at = d}
        /\ removed' = removed \cup {x.file : x \in {y \in rotated : y.at = d}}
    BY <1>6, <2>1 DEF AT!prunes
  <2> QED
    BY <1>4, <1>6, <2>2, <2>3
<1>7. CASE append[r].doomed # {} /\ AT!Rejects(r)
  <2>1. append'[r].pc = "rejected"
    BY <1>7, PcSet DEF AT!Rejects, AppendPcs
  <2>2. UNCHANGED <<rotated, removed>>
    <3> SUFFICES ASSUME append' = [append EXCEPT ![r].doomed = @ \ {CHOOSE x \in append[r].doomed : \A y \in append[r].doomed : x <= y}]
                 PROVE  FALSE
      BY <1>7 DEF AT!prunes
    <3>1. append \in [AT!Records -> AppendRec] /\ append[r] \in AppendRec
      BY TrailFacts
    <3>2. append'[r].pc = append[r].pc
      BY <3>1 DEF AppendRec
    <3> QED
      BY <1>1, <2>1, <3>2
  <2> QED
    BY <1>2, <1>7, <2>2
<1>8. CASE append[r].doomed = {}
  BY <1>3, <1>8 DEF AT!prunes
<1> QED
  BY <1>6, <1>7, <1>8

(* The steps of the clock and of the bus's close.                          *)
LEMMA TickKeeps == ASSUME TrailInv, AT!tick PROVE TrailInv'
<1>1. now' = now + 1 /\ now < MaxNow
      /\ UNCHANGED <<phase, logger, writers, append, text, path, rotated, removed>>
  BY DEF AT!tick, AT!KeepDisk
<1>2. now' \in 1..MaxNow
  BY <1>1, TrailFacts, TrailAssumption
<1>3. /\ phase \in {"off", "failed", "inited", "on", "closing", "ending", "disposing", "closed", "close failed"}
      /\ phase = "on" => logger.writer # 0
  BY DEF TrailInv, TrailTypes, WriterThere
<1> QED
  BY <1>1, <1>2, <1>3, QuietStep, TrailFacts

LEMMA DeactivateKeeps ==
  ASSUME TrailInv, NEW by \in {"deactivate", "dispose"}, AT!deactivate(by),
         UNCHANGED <<writers, append, now, text, path, rotated, removed>>
  PROVE  TrailInv'
<1>1. logger \in [writer : 0..Len(writers), closing : Nat, by : {"none", "deactivate", "dispose"}]
      /\ Len(writers) \in Nat
  BY TrailFacts
<1>2. /\ logger' \in [writer : 0..Len(writers), closing : Nat, by : {"none", "deactivate", "dispose"}]
      /\ phase' \in {"closing", "disposing", "closed"}
  <2>1. logger.writer \in 0..Len(writers) /\ logger.writer \in Nat /\ 0 \in 0..Len(writers)
    BY <1>1
  <2>2. \/ UNCHANGED logger
        \/ logger' = [logger EXCEPT !.writer = 0]
        \/ logger' = [logger EXCEPT !.closing = logger.writer, !.by = by]
    BY DEF AT!deactivate
  <2>3. phase' \in {"closing", "disposing", "closed"}
    BY DEF AT!deactivate, AT!AfterDeactivate
  <2>4. logger' \in [writer : 0..Len(writers), closing : Nat, by : {"none", "deactivate", "dispose"}]
    BY <1>1, <2>1, <2>2
  <2> QED
    BY <2>3, <2>4
<1> QED
  BY <1>2, QuietStep, TrailFacts

LEMMA CloseFlushedKeeps == ASSUME TrailInv, AT!closeFlushed PROVE TrailInv'
<1>1. /\ UNCHANGED <<logger, append, now, text, path, rotated, removed>>
      /\ phase' \in {"close failed", "ending"}
  BY DEF AT!closeFlushed, AT!KeepDisk
<1>2. CASE UNCHANGED writers
  BY <1>1, <1>2, QuietStep, TrailFacts
<1>3. CASE writers' = [writers EXCEPT ![logger.closing].closed = TRUE]
  <2>1. /\ writers' \in Seq(WriterRec) /\ Len(writers') = Len(writers)
        /\ \A v \in 1..Len(writers) : writers'[v].file = writers[v].file
        /\ \A v \in 1..Len(writers), q \in AT!Records : Queued(v, q) => Queued(v, q)'
    <3>1. PICK w : w = logger.closing
      OBVIOUS
    <3>2. CASE w \in 1..Len(writers)
      BY <1>3, <3>1, <3>2, ClosedFacts
    <3>3. CASE w \notin 1..Len(writers)
      <4>1. writers' = writers
        BY <1>3, <3>1, <3>3, TrailFacts
      <4> QED
        BY <4>1, TrailFacts DEF Queued
    <3> QED
      BY <3>2, <3>3
  <2>2. TrailTypes'
    <3>1. \A w \in 1..Len(writers') : writers'[w].file \in 1..Len(text)
      BY <2>1, TrailFacts
    <3> QED
      BY <1>1, <2>1, <3>1, TrailFacts DEF TrailTypes
  <2>3. LinesQueued'
    <3> SUFFICES ASSUME NEW q \in AT!Records, append[q].pc = "writing"
                 PROVE  /\ append[q].w \in 1..Len(writers')
                        /\ \E i \in 1..Len(writers'[append[q].w].lines) : writers'[append[q].w].lines[i] = q
      BY <1>1 DEF LinesQueued
    <3>1. PICK w : w = append[q].w
      OBVIOUS
    <3>2. w \in 1..Len(writers) /\ Queued(w, q)
      BY <3>1 DEF TrailInv, LinesQueued, Queued
    <3>3. Queued(w, q)'
      BY <2>1, <3>2
    <3> QED
      BY <2>1, <3>1, <3>2, <3>3 DEF Queued
  <2>4. WriterThere'
    BY <1>1, <2>1 DEF TrailInv, WriterThere
  <2>5. LoggedHeld' /\ FilesAccounted'
    BY <1>1 DEF TrailInv, LoggedHeld, FilesAccounted, AT!Holds
  <2>6. OnePerTime' /\ DoomedOld'
    BY <1>1 DEF TrailInv, OnePerTime, DoomedOld, Newer
  <2> QED
    BY <2>2, <2>3, <2>4, <2>5, <2>6 DEF TrailInv
<1> QED
  BY <1>2, <1>3 DEF AT!closeFlushed

LEMMA CloseEndsKeeps == ASSUME TrailInv, AT!closeEnds PROVE TrailInv'
<1>1. /\ UNCHANGED <<writers, append, now, text, path, rotated, removed>>
      /\ phase' \in {"close failed", "disposing", "closed"}
      /\ UNCHANGED logger \/ logger' = [logger EXCEPT !.writer = 0]
  BY DEF AT!closeEnds, AT!KeepDisk, AT!AfterDeactivate
<1>2. logger' \in [writer : 0..Len(writers), closing : Nat, by : {"none", "deactivate", "dispose"}]
  <2>1. /\ logger \in [writer : 0..Len(writers), closing : Nat, by : {"none", "deactivate", "dispose"}]
        /\ 0 \in 0..Len(writers)
    BY TrailFacts
  <2> QED
    BY <1>1, <2>1
<1> QED
  BY <1>1, <1>2, QuietStep, TrailFacts

LEMMA TrailInit == AT!ATInit => TrailInv
<1> SUFFICES ASSUME AT!ATInit PROVE TrailInv
  OBVIOUS
<1>1. /\ phase = "off" /\ logger = [writer |-> 0, closing |-> 0, by |-> "none"]
      /\ writers = <<>> /\ rotated = {} /\ now = 1 /\ removed = {}
  BY DEF AT!ATInit
<1>2. AT!NoAppend \in AppendRec /\ AT!NoAppend.pc = "none" /\ AT!Finished \in AppendRec /\ AT!Finished.pc = "done"
  BY DEF AT!NoAppend, AT!Finished, AppendRec, AppendPcs, Logged
<1>3. append \in [AT!Records -> AppendRec]
      /\ \A r \in AT!Records : append[r].pc \in {"none", "done"}
  BY <1>2 DEF AT!ATInit
<1>4. 0 \in AT!Records /\ 0 \notin AT!Originals
  BY TrailAssumption DEF AT!Records, AT!Originals
<1>5. \/ text = <<>> /\ path = 0 /\ \A r \in AT!Records : append[r].pc = "none"
      \/ text = << <<0>> >> /\ path = 1 /\ \A r \in AT!Records : append[r].pc = "done" => r = 0
  BY <1>2 DEF AT!ATInit
<1>6. TrailTypes
  <2>1. text \in Seq(Seq(AT!Records)) /\ path \in 0..Len(text)
    <3>5. <<0>> \in Seq(AT!Records)
      BY <1>4
    <3>1. PICK line : line = <<0>> /\ line \in Seq(AT!Records)
      BY <3>5
    <3>2. <<line>> \in Seq(Seq(AT!Records)) /\ Len(<<line>>) = 1
      BY <3>1
    <3>3. CASE text = <<>> /\ path = 0
      BY <3>3
    <3>4. CASE text = <<line>> /\ path = 1
      BY <3>2, <3>4
    <3> QED
      BY <1>5, <3>1, <3>3, <3>4
  <2>2. writers \in Seq(WriterRec) /\ Len(writers) = 0
    BY <1>1
  <2>3. IsFiniteSet(rotated) /\ now \in 1..MaxNow
    BY <1>1, TrailAssumption, FS_EmptySet
  <2> QED
    BY <1>1, <1>3, <2>1, <2>2, <2>3 DEF TrailTypes
<1>7. FilesAccounted
  <2>1. \A f \in 1..Len(text) : f = path
    <3>1. CASE text = <<>>
      BY <3>1
    <3>2. CASE text = << <<0>> >> /\ path = 1
      <4>1. Len(text) = 1
        BY <3>2
      <4> QED
        BY <3>2, <4>1
    <3> QED
      BY <1>5, <3>1, <3>2
  <2> QED
    BY <2>1 DEF FilesAccounted
<1>8. LoggedHeld
  <2> SUFFICES ASSUME NEW r \in AT!Records, append[r].pc \in Logged PROVE \E f \in 1..Len(text) : AT!Holds(f, r)
    BY DEF LoggedHeld
  <2>1. r = 0 /\ text = << <<0>> >>
    BY <1>3, <1>5 DEF Logged
  <2>2. Len(text) = 1 /\ text[1] = <<0>> /\ Len(text[1]) = 1 /\ text[1][1] = r
    BY <2>1
  <2> QED
    BY <2>2 DEF AT!Holds
<1>9. LinesQueued /\ WriterThere /\ OnePerTime /\ DoomedOld
  BY <1>1, <1>3, RecordsFit DEF LinesQueued, WriterThere, OnePerTime, DoomedOld
<1> QED
  BY <1>6, <1>7, <1>8, <1>9 DEF TrailInv

LEMMA TrailStep == TrailInv /\ [AT!ATNext]_trailVars => TrailInv'
<1> SUFFICES ASSUME TrailInv, [AT!ATNext]_trailVars PROVE TrailInv'
  OBVIOUS
<1>1. CASE UNCHANGED trailVars
  <2>1. UNCHANGED <<phase, logger, writers, text, path, rotated, append, now, removed>>
    BY <1>1 DEF trailVars
  <2>2. /\ phase \in {"off", "failed", "inited", "on", "closing", "ending", "disposing", "closed", "close failed"}
        /\ phase = "on" => logger.writer # 0
    BY DEF TrailInv, TrailTypes, WriterThere
  <2> QED
    BY <2>1, <2>2, QuietStep, TrailFacts
<1>2. CASE AT!init
  BY <1>2, InitKeeps
<1>3. CASE AT!activate
  BY <1>3, ActivateKeeps
<1>4. CASE AT!close
  BY <1>4, DeactivateKeeps DEF AT!close, AT!KeepDisk
<1>5. CASE AT!dispose
  BY <1>5, DeactivateKeeps DEF AT!dispose, AT!KeepDisk
<1>6. CASE AT!closeFlushed
  BY <1>6, CloseFlushedKeeps
<1>7. CASE AT!closeEnds
  BY <1>7, CloseEndsKeeps
<1>8. CASE AT!tick
  BY <1>8, TickKeeps
<1>9. ASSUME NEW r \in AT!Originals, AT!emit(r) PROVE TrailInv'
  BY <1>9, EmitKeeps
<1>10. ASSUME NEW r \in AT!Records,
              \/ AT!wrote(r) \/ AT!assigns(r) \/ AT!flushed(r) \/ AT!ended(r) \/ AT!renames(r)
              \/ AT!lists(r) \/ AT!prunes(r) \/ AT!reopens(r) \/ AT!broadcast(r)
       PROVE  TrailInv'
  BY <1>10, WroteKeeps, AssignsKeeps, FlushedKeeps, EndedKeeps, RenamesKeeps, ListsKeeps, PrunesKeeps,
     ReopensKeeps, BroadcastKeeps
<1> QED
  BY <1>1, <1>2, <1>3, <1>4, <1>5, <1>6, <1>7, <1>8, <1>9, <1>10 DEF AT!ATNext

(***************************************************************************)
(* What became of a record whose append was rejected: its line is in a     *)
(* file, or the writer it was given to was closed or had lost its stream.  *)
(* Texts lose no line, and a writer that was closed or broken stays so.    *)
(***************************************************************************)
RejectedPcs == {"rejected", "reported", "lost"}
HeldSomewhere(r) == \E f \in 1..Len(text) : AT!Holds(f, r)
FateInv     == \A r \in AT!Records : append[r].pc \in RejectedPcs => HeldSomewhere(r) \/ AT!Refused(r)
TextsGrow   == \A f \in 1..Len(text), q \in AT!Records : AT!Holds(f, q) => HeldSomewhere(q)'
WritersStay == \A w \in 1..Len(writers) : /\ w \in 1..Len(writers')
                                          /\ writers[w].closed => writers'[w].closed
                                          /\ writers[w].broken => writers'[w].broken

LEMMA TrailKept == TrailInv /\ FateInv => AT!RecordsAccounted
<1> SUFFICES ASSUME TrailInv, FateInv, NEW r \in AT!Records
             PROVE  /\ append[r].pc = "done" => AT!Kept(r)
                    /\ append[r].pc \in RejectedPcs => AT!Kept(r) \/ AT!Refused(r)
  BY DEF AT!RecordsAccounted, RejectedPcs
<1>1. append[r].pc = "done" => HeldSomewhere(r)
  BY DEF TrailInv, LoggedHeld, Logged, HeldSomewhere
<1>2. \A f \in 1..Len(text) : f \in {path} \cup {x.file : x \in rotated} \cup removed
  BY DEF TrailInv, FilesAccounted
<1>3. HeldSomewhere(r) => AT!Kept(r)
  BY <1>2 DEF HeldSomewhere, AT!Kept
<1> QED
  BY <1>1, <1>3 DEF FateInv

LEMMA FateStays ==
  ASSUME TrailInv, FateInv, TextsGrow, WritersStay,
         \A q \in AT!Records : append'[q].pc \in RejectedPcs =>
            \/ append[q].pc \in RejectedPcs /\ append'[q].w = append[q].w
            \/ append[q].pc \in Logged
            \/ HeldSomewhere(q)' \/ AT!Refused(q)'
  PROVE  FateInv'
<1> SUFFICES ASSUME NEW q \in AT!Records, append'[q].pc \in RejectedPcs
             PROVE  HeldSomewhere(q)' \/ AT!Refused(q)'
  BY DEF FateInv
<1>1. CASE HeldSomewhere(q)
  BY <1>1 DEF HeldSomewhere, TextsGrow
<1>2. CASE append[q].pc \in Logged
  BY <1>1, <1>2 DEF TrailInv, LoggedHeld, HeldSomewhere
<1>3. CASE append[q].pc \in RejectedPcs /\ append'[q].w = append[q].w /\ ~HeldSomewhere(q)
  <2>1. AT!Refused(q)
    BY <1>3 DEF FateInv
  <2> QED
    BY <1>3, <2>1 DEF AT!Refused, WritersStay
<1> QED
  BY <1>1, <1>2, <1>3

LEMMA SameText == UNCHANGED text => TextsGrow
  BY DEF TextsGrow, HeldSomewhere, AT!Holds

LEMMA SameWriters == UNCHANGED writers => WritersStay
  BY DEF WritersStay

LEMMA OpenedGrows ==
  ASSUME Len(text) \in Nat, Len(text') \in Nat, Len(text') >= Len(text), \A f \in 1..Len(text) : text'[f] = text[f]
  PROVE  TextsGrow
<1>1. \A f \in 1..Len(text) : f \in 1..Len(text')
  OBVIOUS
<1> QED
  BY <1>1 DEF TextsGrow, HeldSomewhere, AT!Holds

LEMMA WriterClosed ==
  ASSUME TrailInv, NEW w, writers' = [writers EXCEPT ![w].closed = TRUE]
  PROVE  WritersStay
<1>1. writers \in Seq(WriterRec) /\ \A v \in 1..Len(writers) : writers[v] \in WriterRec
  BY TrailFacts
<1>2. CASE w \in 1..Len(writers)
  <2>1. Len(writers') = Len(writers)
    BY <1>2, ClosedFacts
  <2>2. PICK rec : rec = [writers[w] EXCEPT !.closed = TRUE]
    OBVIOUS
  <2>3. writers' = [writers EXCEPT ![w] = rec]
    BY <1>1, <1>2, <2>2
  <2>4. rec \in WriterRec /\ rec.closed = TRUE /\ rec.broken = writers[w].broken
    BY <1>1, <1>2, <2>2 DEF WriterRec
  <2>5. writers \in Seq(WriterRec)
    BY <1>1
  <2>6. writers'[w] = rec /\ \A v \in 1..Len(writers) \ {w} : writers'[v] = writers[v]
    BY <1>2, <2>3, <2>4, <2>5, Replaced
  <2> QED
    BY <2>1, <2>4, <2>6 DEF WritersStay
<1>3. CASE w \notin 1..Len(writers)
  <2>1. writers' = writers
    BY <1>1, <1>3
  <2> QED
    BY <2>1, SameWriters
<1> QED
  BY <1>2, <1>3

(* A record the bus hands over is refused only by a writer that is closed. *)
LEMMA TakenOrRefused ==
  ASSUME TrailInv, phase = "on", NEW r \in AT!Records, AT!TakesLine(r)
  PROVE  /\ WritersStay
         /\ append'[r] = AT!Started /\ append'[r].pc \in RejectedPcs => AT!Refused(r)'
<1>1. logger.writer \in 1..Len(writers)
  <2>1. logger.writer # 0
    BY DEF TrailInv, WriterThere
  <2>2. logger.writer \in 0..Len(writers) /\ Len(writers) \in Nat
    BY TrailFacts
  <2> QED
    BY <2>1, <2>2
<1>2. writers \in Seq(WriterRec) /\ writers[logger.writer] \in WriterRec
  BY <1>1, TrailFacts
<1>3. Len(writers') = Len(writers)
  BY LineTaken
<1>4. CASE AT!Writable
  <2>1. AT!Started.pc = "writing"
    BY <1>4 DEF AT!Started, AT!NoAppend
  <2>2. writers' = [writers EXCEPT ![logger.writer].lines = Append(@, r)]
    BY <1>4 DEF AT!TakesLine
  <2>3. PICK rec : rec = [writers[logger.writer] EXCEPT !.lines = Append(@, r)]
    OBVIOUS
  <2>5. writers' = [writers EXCEPT ![logger.writer] = rec]
    BY <1>1, <1>2, <2>2, <2>3
  <2>6. \A v \in 1..Len(writers) : writers'[v] = IF v = logger.writer THEN rec ELSE writers[v]
    BY <1>1, <1>2, <2>5
  <2>4. /\ writers'[logger.writer].closed = writers[logger.writer].closed
        /\ writers'[logger.writer].broken = writers[logger.writer].broken
    BY <1>1, <1>2, <2>3, <2>6 DEF WriterRec
  <2> QED
    BY <1>3, <2>1, <2>4, <2>6 DEF WritersStay, RejectedPcs
<1>5. CASE ~AT!Writable
  <2>1. AT!Started = [pc |-> "rejected", w |-> logger.writer, doomed |-> {}]
    BY <1>5 DEF AT!Started, AT!NoAppend
  <2>2. writers' = writers /\ writers[logger.writer].closed
    BY <1>5 DEF AT!TakesLine, AT!Writable
  <2> QED
    BY <1>1, <2>1, <2>2, SameWriters DEF AT!Refused
<1> QED
  BY <1>4, <1>5

(* A line that is not written breaks the stream.                           *)
LEMMA WroteFate == ASSUME TrailInv, TrailInv', FateInv, NEW r \in AT!Records, AT!wrote(r) PROVE FateInv'
<1>1. /\ append[r].pc = "writing" /\ UNCHANGED logger
  BY DEF AT!wrote
<1>2. PICK w : w = append[r].w
  OBVIOUS
<1>3. /\ w \in 1..Len(writers) /\ writers \in Seq(WriterRec) /\ writers[w] \in WriterRec
      /\ writers[w].file \in 1..Len(text) /\ writers[w].lines \in Seq(AT!Records)
      /\ append \in [AT!Records -> AppendRec] /\ append[r] \in AppendRec
      /\ text \in Seq(Seq(AT!Records)) /\ \A f \in 1..Len(text) : text[f] \in Seq(AT!Records)
  <2>1. w \in 1..Len(writers)
    BY <1>1, <1>2 DEF TrailInv, LinesQueued
  <2> QED
    BY <2>1, TrailFacts DEF WriterRec
<1>4. CASE AT!Rejects(r) /\ UNCHANGED text
           /\ writers' = [writers EXCEPT ![w].lines = Tail(@), ![w].broken = TRUE]
  <2>1. PICK rec : rec = [writers[w] EXCEPT !.lines = Tail(@), !.broken = TRUE]
    OBVIOUS
  <2>2. rec.broken /\ rec.closed = writers[w].closed
    BY <1>3, <2>1 DEF WriterRec
  <2>3. writers' = [writers EXCEPT ![w] = rec]
    BY <1>3, <1>4, <2>1
  <2>4. writers'[w] = rec /\ \A v \in 1..Len(writers) \ {w} : writers'[v] = writers[v]
    BY <1>3, <2>3
  <2>5. Len(writers') = Len(writers)
    BY <1>3, <2>3
  <2>6. WritersStay
    BY <2>2, <2>4, <2>5 DEF WritersStay
  <2>7. append'[r].w = w /\ \A q \in AT!Records \ {r} : append'[q] = append[q]
    BY <1>2, <1>4, PcSet DEF AT!Rejects, AppendPcs
  <2>8. AT!Refused(r)'
    BY <1>3, <2>2, <2>4, <2>5, <2>7 DEF AT!Refused
  <2> QED
    BY <1>4, <2>6, <2>7, <2>8, SameText, FateStays
<1>5. CASE /\ writers' = [writers EXCEPT ![w].lines = Tail(@), ![w].size = @ + 1]
           /\ text' = [text EXCEPT ![writers[w].file] = Append(@, r)]
           /\ \A q \in AT!Records \ {r} : append'[q] = append[q]
  <2>1. PICK rec : rec = [writers[w] EXCEPT !.lines = Tail(@), !.size = @ + 1]
    OBVIOUS
  <2>2. rec.broken = writers[w].broken /\ rec.closed = writers[w].closed
    BY <1>3, <2>1 DEF WriterRec
  <2>3. writers' = [writers EXCEPT ![w] = rec]
    BY <1>3, <1>5, <2>1
  <2>4. writers'[w] = rec /\ \A v \in 1..Len(writers) \ {w} : writers'[v] = writers[v]
    BY <1>3, <2>3
  <2>5. Len(writers') = Len(writers)
    BY <1>3, <2>3
  <2>6. WritersStay
    BY <2>2, <2>4, <2>5 DEF WritersStay
  <2>7. PICK f : f = writers[w].file
    OBVIOUS
  <2>8. PICK new : new = Append(text[f], r)
    OBVIOUS
  <2>9. f \in 1..Len(text) /\ text[f] \in Seq(AT!Records) /\ text' = [text EXCEPT ![f] = new]
    BY <1>3, <1>5, <2>7, <2>8
  <2>10. /\ new \in Seq(AT!Records) /\ Len(new) = Len(text[f]) + 1 /\ Len(text[f]) \in Nat
         /\ \A i \in 1..Len(text[f]) : new[i] = text[f][i]
         /\ new[Len(text[f]) + 1] = r
    BY <2>8, <2>9, Appended
  <2>11. /\ Len(text') = Len(text) /\ text'[f] = new
         /\ \A g \in 1..Len(text) \ {f} : text'[g] = text[g]
    BY <1>3, <2>9, <2>10, Replaced
  <2>12. ASSUME NEW g \in 1..Len(text), NEW q \in AT!Records, AT!Holds(g, q) PROVE AT!Holds(g, q)'
    <3>1. CASE g # f
      BY <2>11, <2>12, <3>1 DEF AT!Holds
    <3>2. CASE g = f
      <4>1. PICK i \in 1..Len(text[f]) : text[f][i] = q
        BY <2>12, <3>2 DEF AT!Holds
      <4>2. i \in 1..Len(new) /\ new[i] = q
        BY <2>10, <4>1
      <4> QED
        BY <2>11, <3>2, <4>2 DEF AT!Holds
    <3> QED
      BY <3>1, <3>2
  <2>13. TextsGrow
    BY <2>11, <2>12 DEF TextsGrow, HeldSomewhere
  <2>14. HeldSomewhere(r)'
    <3>1. Len(text[f]) + 1 \in 1..Len(new)
      BY <2>10
    <3> QED
      BY <2>9, <2>10, <2>11, <3>1 DEF AT!Holds, HeldSomewhere
  <2> QED
    BY <1>5, <2>6, <2>13, <2>14, FateStays
<1>6. AT!wrote(r) => \/ AT!Rejects(r) /\ UNCHANGED text
                         /\ writers' = [writers EXCEPT ![w].lines = Tail(@), ![w].broken = TRUE]
                     \/ /\ writers' = [writers EXCEPT ![w].lines = Tail(@), ![w].size = @ + 1]
                        /\ text' = [text EXCEPT ![writers[w].file] = Append(@, r)]
                        /\ \A q \in AT!Records \ {r} : append'[q] = append[q]
  BY <1>2, <1>3 DEF AT!wrote, AT!Rejects, AT!At
<1> QED
  BY <1>4, <1>5, <1>6

LEMMA FateStep == TrailInv /\ TrailInv' /\ FateInv /\ [AT!ATNext]_trailVars => FateInv'
<1> SUFFICES ASSUME TrailInv, TrailInv', FateInv, [AT!ATNext]_trailVars PROVE FateInv'
  OBVIOUS
<1>0. append \in [AT!Records -> AppendRec]
  BY TrailFacts
<1>1. CASE UNCHANGED <<append, text>> /\ (UNCHANGED writers \/ \E w : writers' = [writers EXCEPT ![w].closed = TRUE])
  <2>1. WritersStay
    BY <1>1, SameWriters, WriterClosed
  <2> QED
    BY <1>1, <2>1, SameText, FateStays
<1>2. CASE AT!init
  <2>1. UNCHANGED <<writers, append>>
    BY <1>2 DEF AT!init
  <2>2. TextsGrow
    <3>1. CASE UNCHANGED text
      BY <3>1, SameText
    <3>2. CASE path' = AT!PathFile /\ text' = AT!Opened
      <4>1. UNCHANGED <<rotated, removed>>
        BY <1>2 DEF AT!init
      <4> QED
        BY <3>2, <4>1, LogOpened, OpenedGrows
    <3> QED
      BY <1>2, <3>1, <3>2 DEF AT!init
  <2> QED
    BY <2>1, <2>2, SameWriters, FateStays
<1>3. ASSUME AT!openWriter, UNCHANGED <<rotated, removed>> PROVE TextsGrow /\ WritersStay
  <2>1. /\ Len(text') >= Len(text) /\ Len(text) \in Nat /\ Len(text') \in Nat
        /\ \A f \in 1..Len(text) : text'[f] = text[f]
        /\ Len(writers') = Len(writers) + 1 /\ Len(writers) \in Nat
        /\ \A w \in 1..Len(writers) : writers'[w] = writers[w]
    BY <1>3, WriterOpened
  <2> QED
    BY <2>1, OpenedGrows DEF WritersStay
<1>4. CASE AT!activate
  <2>1. UNCHANGED append /\ UNCHANGED <<rotated, removed>>
    BY <1>4 DEF AT!activate
  <2>2. TextsGrow /\ WritersStay
    BY <1>3, <1>4, <2>1, SameText, SameWriters DEF AT!activate
  <2> QED
    BY <2>1, <2>2, FateStays
<1>5. ASSUME NEW r \in AT!Originals, AT!emit(r) PROVE FateInv'
  <2>1. /\ phase = "on" /\ append' = [append EXCEPT ![r] = AT!Started] /\ AT!TakesLine(r)
        /\ UNCHANGED text /\ r \in AT!Records
    BY <1>5, RecordsFit DEF AT!emit, AT!KeepDisk
  <2>2. append'[r] = AT!Started /\ \A q \in AT!Records \ {r} : append'[q] = append[q]
    BY <1>0, <2>1
  <2>3. WritersStay /\ (append'[r].pc \in RejectedPcs => AT!Refused(r)')
    BY <2>1, <2>2, TakenOrRefused
  <2> QED
    BY <2>1, <2>2, <2>3, SameText, FateStays
<1>6. ASSUME NEW r \in AT!Records, append[r].pc \in Logged, TextsGrow, WritersStay,
             \A q \in AT!Records \ {r} : append'[q] = append[q]
      PROVE  FateInv'
  BY <1>6, FateStays
<1>7. ASSUME NEW r \in AT!Records, \/ AT!assigns(r) \/ AT!flushed(r) \/ AT!ended(r) \/ AT!renames(r)
                                   \/ AT!lists(r) \/ AT!prunes(r) \/ AT!reopens(r)
      PROVE  FateInv'
  <2>1. append[r].pc \in Logged
    BY <1>7 DEF AT!assigns, AT!flushed, AT!ended, AT!renames, AT!lists, AT!prunes, AT!reopens, Logged
  <2>2. \A q \in AT!Records \ {r} : append'[q] = append[q]
    BY <1>0, <1>7 DEF AT!assigns, AT!flushed, AT!ended, AT!renames, AT!lists, AT!prunes, AT!reopens, AT!At, AT!Rejects
  <2>3. \/ UNCHANGED text /\ (UNCHANGED writers \/ \E w : writers' = [writers EXCEPT ![w].closed = TRUE])
        \/ AT!openWriter /\ UNCHANGED <<rotated, removed>>
    BY <1>7 DEF AT!assigns, AT!flushed, AT!ended, AT!renames, AT!lists, AT!prunes, AT!reopens, AT!KeepDisk
  <2>4. TextsGrow /\ WritersStay
    BY <1>3, <2>3, SameText, SameWriters, WriterClosed
  <2> QED
    BY <1>6, <2>1, <2>2, <2>4
<1>8. ASSUME NEW r \in AT!Records, AT!broadcast(r) PROVE FateInv'
  <2>1. append[r].pc = "rejected" /\ UNCHANGED text
    BY <1>8 DEF AT!broadcast, AT!KeepDisk
  <2>2. CASE r \notin AT!Originals \/ phase # "on"
    <3>1. AT!At(r, "lost") /\ UNCHANGED writers
      BY <1>8, <2>2 DEF AT!broadcast
    <3>2. append'[r].w = append[r].w /\ \A q \in AT!Records \ {r} : append'[q] = append[q]
      BY <3>1, PcSet DEF AppendPcs
    <3> QED
      BY <2>1, <3>1, <3>2, SameText, SameWriters, FateStays DEF RejectedPcs
  <2>3. CASE r \in AT!Originals /\ phase = "on"
    <3>1. PICK s : s = r + MaxRecords
      OBVIOUS
    <3>2. s \in AT!Records /\ s # r
      BY <2>3, <3>1, RecordsFit
    <3>3. append' = [append EXCEPT ![r].pc = "reported", ![s] = AT!Started] /\ AT!TakesLine(s)
      BY <1>8, <2>3, <3>1 DEF AT!broadcast
    <3>4. append[r] \in AppendRec
      BY <1>0
    <3>5. /\ append'[r] = [append[r] EXCEPT !.pc = "reported"] /\ append'[s] = AT!Started
          /\ \A q \in AT!Records \ {r, s} : append'[q] = append[q]
      BY <1>0, <3>2, <3>3
    <3>6. append'[r].w = append[r].w
      BY <3>4, <3>5 DEF AppendRec
    <3>7. WritersStay /\ (append'[s].pc \in RejectedPcs => AT!Refused(s)')
      BY <2>3, <3>2, <3>3, <3>5, TakenOrRefused
    <3> QED
      BY <2>1, <3>2, <3>5, <3>6, <3>7, SameText, FateStays DEF RejectedPcs
  <2> QED
    BY <2>2, <2>3
<1>9. ASSUME AT!close \/ AT!dispose \/ AT!closeFlushed \/ AT!closeEnds \/ AT!tick \/ UNCHANGED trailVars PROVE FateInv'
  BY <1>1, <1>9 DEF AT!close, AT!dispose, AT!closeFlushed, AT!closeEnds, AT!tick, AT!KeepDisk, trailVars
<1>10. ASSUME NEW r \in AT!Records, AT!wrote(r) PROVE FateInv'
  BY <1>10, WroteFate
<1> QED
  BY <1>2, <1>4, <1>5, <1>7, <1>8, <1>9, <1>10 DEF AT!ATNext

LEMMA FateInit == AT!ATInit => FateInv
  BY DEF AT!ATInit, FateInv, RejectedPcs, AT!NoAppend, AT!Finished

(* What leaves the rotated files is renamed over or was doomed.            *)
LEMMA RetentionStep ==
  ASSUME TrailInv, [AT!ATNext]_trailVars
  PROVE  [\A x \in rotated \ rotated' :
            \/ \E y \in rotated' : y.at = x.at
            \/ AT!Cardinality({y \in rotated : y.at > x.at}) >= MaxRotatedFiles]_rotated
<1> SUFFICES ASSUME NEW x \in rotated \ rotated'
             PROVE  \/ \E y \in rotated' : y.at = x.at
                    \/ Cardinality(Newer(x.at)) >= MaxRotatedFiles
  BY SameCardinality DEF Newer
<1>1. ASSUME NEW r \in AT!Records, AT!renames(r) PROVE \E y \in rotated' : y.at = x.at
  <2>1. /\ path # 0
        /\ rotated' = (rotated \ {z \in rotated : z.at = now}) \cup {[at |-> now, file |-> path]}
    BY <1>1 DEF AT!renames
  <2>2. x.at = now
    BY <2>1
  <2>3. [at |-> now, file |-> path] \in rotated' /\ [at |-> now, file |-> path].at = now
    BY <2>1
  <2> QED
    BY <2>2, <2>3
<1>2. ASSUME NEW r \in AT!Records, AT!prunes(r) PROVE Cardinality(Newer(x.at)) >= MaxRotatedFiles
  <2>1. append[r].pc = "pruning" /\ append[r].doomed # {}
    BY <1>2 DEF AT!prunes
  <2>2. PICK d : d = CHOOSE z \in append[r].doomed : \A y \in append[r].doomed : z <= y
    OBVIOUS
  <2>3. rotated' = rotated \ {z \in rotated : z.at = d}
    BY <1>2, <2>1, <2>2 DEF AT!prunes
  <2>4. d \in append[r].doomed
    <3>1. append[r] \in AppendRec
      BY TrailFacts
    <3>2. append[r].doomed \in SUBSET Nat
      BY <3>1 DEF AppendRec
    <3>3. \E z \in append[r].doomed : \A y \in append[r].doomed : z <= y
      BY <2>1, <3>2, LeastNumber
    <3> QED
      BY <2>2, <3>3
  <2>5. x.at = d
    BY <2>3
  <2> QED
    BY <2>1, <2>4, <2>5 DEF TrailInv, DoomedOld
<1>3. (\E r \in AT!Records : AT!renames(r) \/ AT!prunes(r)) \/ UNCHANGED rotated
  BY DEF AT!ATNext, trailVars, AT!init, AT!activate, AT!close, AT!dispose, AT!closeFlushed, AT!closeEnds, AT!tick,
     AT!emit, AT!wrote, AT!assigns, AT!flushed, AT!ended, AT!lists, AT!reopens, AT!broadcast, AT!KeepDisk
<1> QED
  BY <1>1, <1>2, <1>3

-----------------------------------------------------------------------------
(***************************************************************************)
(* The states of a session and its snapshots.                              *)
(***************************************************************************)
States      == {"Idle", "Active", "Persisted", "Closed", "Resumed"}
OnDisk      == SS!Manifests \cup {SS!NoManifest, SS!Torn}
GoingOn     == {"attach", "resume", "first", "delivering", "resumed"}
ResumePcs   == GoingOn \cup {"none", "failed", "NoSnapshot", "ManifestDrift", "ResumeMismatch", "Unaudited",
                             "IllegalTransition"}
TriggerRec  == [pc : {"none", "delivering"}, from : States, next : States]
SaveRec     == [pc : {"none", "failed", "open", "fill", "rename", "audit"}, m : OnDisk, was : OnDisk]
ResumeRec   == [pc : ResumePcs, m : OnDisk, sm : {"none", "attached", "skipped"}, by : Triggerers \cup {0}]

StateTypes ==
  /\ current \in States /\ trig \in [Triggerers -> TriggerRec] /\ store \in {"unknown", "ready"}
  /\ disk \in OnDisk /\ manifestTmp \in OnDisk
  /\ save \in SaveRec /\ resume \in ResumeRec

(* What is on disk was acknowledged, or its write's outcome is unknown.    *)
DiskAccounted == IF save.pc = "audit" THEN disk = save.m ELSE disk \in {acked} \cup unsure
TempComplete  == save.pc = "rename" => manifestTmp = save.m
OwnStore      == resume.pc \in GoingOn \/ resume.sm = "attached" => resume.m.storeId = SS!ActiveStore

SessionsInv == StateTypes /\ DiskAccounted /\ TempComplete /\ OwnStore

LEMMA SessionsOwn == SessionsInv => SS!OwnSnapshotOnly /\ SS!SSTypeOK
<1>1. SessionsInv => SS!OwnSnapshotOnly
  BY DEF SessionsInv, OwnStore, SS!OwnSnapshotOnly, GoingOn
<1>2. SessionsInv => SS!SSTypeOK
  BY DEF SessionsInv, StateTypes, SS!SSTypeOK, States, OnDisk
<1> QED
  BY <1>1, <1>2

LEMMA SessionsInit == SS!SSInit => SessionsInv
<1> SUFFICES ASSUME SS!SSInit PROVE SessionsInv
  OBVIOUS
<1>1. SS!NoManifest \in OnDisk
  BY DEF OnDisk
<1>2. SS!NoTrigger \in TriggerRec /\ SS!NoSave \in SaveRec /\ SS!NoResume \in ResumeRec
  BY <1>1 DEF SS!NoTrigger, SS!NoSave, SS!NoResume, TriggerRec, SaveRec, ResumeRec, States, ResumePcs
<1>3. StateTypes
  BY <1>1, <1>2 DEF SS!SSInit, StateTypes, States
<1>4. DiskAccounted /\ TempComplete /\ OwnStore
  BY DEF SS!SSInit, DiskAccounted, TempComplete, OwnStore, SS!NoSave, SS!NoResume, GoingOn
<1> QED
  BY <1>3, <1>4 DEF SessionsInv

LEMMA RowsTyped == ASSUME NEW row \in SS!TRANSITION_TABLE PROVE row[3] \in States /\ row[1] \in States
  BY DEF SS!TRANSITION_TABLE, States

LEMMA EntersTyped ==
  ASSUME SessionsInv, NEW c \in Triggerers, NEW next \in States, SS!Enters(c, next)
  PROVE  current' \in States /\ trig' \in [Triggerers -> TriggerRec]
<1>1. SS!NoTrigger \in TriggerRec
  BY DEF SS!NoTrigger, TriggerRec, States
<1> QED
  BY <1>1 DEF SessionsInv, StateTypes, SS!Enters

LEMMA TriggerTyped ==
  ASSUME SessionsInv, NEW c \in Triggerers, NEW kind, SS!trigger(c, kind)
  PROVE  current' \in States /\ trig' \in [Triggerers -> TriggerRec]
<1>1. PICK row \in SS!TRANSITION_TABLE :
         IF current = "Resumed" /\ row[3] = "Active"
         THEN /\ trig' = [trig EXCEPT ![c] = [pc |-> "delivering", from |-> current, next |-> row[3]]]
              /\ UNCHANGED current
         ELSE SS!Enters(c, row[3])
  BY DEF SS!trigger
<1>2. row[3] \in States
  BY RowsTyped
<1>3. CASE SS!Enters(c, row[3])
  BY <1>2, <1>3, EntersTyped
<1>4. CASE /\ trig' = [trig EXCEPT ![c] = [pc |-> "delivering", from |-> current, next |-> row[3]]]
           /\ UNCHANGED current
  <2>1. [pc |-> "delivering", from |-> current, next |-> row[3]] \in TriggerRec
    BY <1>2 DEF TriggerRec, SessionsInv, StateTypes
  <2> QED
    BY <1>4, <2>1 DEF SessionsInv, StateTypes
<1> QED
  BY <1>1, <1>3, <1>4

(* Steps of the machine and of the resumption keep what is on disk.        *)
LEMMA DiskKept ==
  ASSUME SessionsInv, UNCHANGED <<disk, manifestTmp, save, acked, unsure>>,
         current' \in States, trig' \in [Triggerers -> TriggerRec], store' \in {"unknown", "ready"},
         resume' \in ResumeRec, OwnStore'
  PROVE  SessionsInv'
  BY DEF SessionsInv, StateTypes, DiskAccounted, TempComplete

LEMMA ResumeMoves ==
  ASSUME SessionsInv, NEW pc \in ResumePcs, NEW sm \in {"none", "attached", "skipped"},
         NEW by \in Triggerers \cup {0}, resume.pc \in GoingOn,
         resume' = [resume EXCEPT !.pc = pc, !.sm = sm, !.by = by]
  PROVE  resume' \in ResumeRec /\ OwnStore' /\ resume'.pc = pc
<1>1. resume \in ResumeRec /\ resume.m.storeId = SS!ActiveStore
  BY DEF SessionsInv, StateTypes, OwnStore
<1>2. resume' \in ResumeRec /\ resume'.m = resume.m /\ resume'.pc = pc
  BY <1>1 DEF ResumeRec
<1> QED
  BY <1>1, <1>2 DEF OwnStore, SS!ActiveStore

LEMMA ResumeParts == ASSUME SessionsInv, NEW pc
  PROVE  [resume EXCEPT !.pc = pc] = [resume EXCEPT !.pc = pc, !.sm = resume.sm, !.by = resume.by]
         /\ resume.sm \in {"none", "attached", "skipped"} /\ resume.by \in Triggerers \cup {0}
  BY DEF SessionsInv, StateTypes, ResumeRec

LEMMA TriggersKeeps == ASSUME SessionsInv, NEW c \in Triggerers, NEW kind, SS!triggers(c, kind) PROVE SessionsInv'
<1>1. SS!trigger(c, kind) /\ UNCHANGED <<store, disk, manifestTmp, save, acked, unsure, resume>>
  BY DEF SS!triggers, SS!KeepStore, SS!KeepSave
<1>2. current' \in States /\ trig' \in [Triggerers -> TriggerRec]
  BY <1>1, TriggerTyped
<1>3. resume' \in ResumeRec /\ OwnStore' /\ store' \in {"unknown", "ready"}
  BY <1>1 DEF SessionsInv, StateTypes, OwnStore, SS!ActiveStore
<1> QED
  BY <1>1, <1>2, <1>3, DiskKept

LEMMA DeliveredKeeps == ASSUME SessionsInv, NEW c \in Triggerers, SS!delivered(c) PROVE SessionsInv'
<1>1. /\ UNCHANGED <<store, disk, manifestTmp, save, acked, unsure>>
      /\ \E how \in {"resumed", "failed"} : SS!Settles(c, how)
      /\ SS!Enters(c, trig[c].next) \/ (trig' = [trig EXCEPT ![c] = SS!NoTrigger] /\ UNCHANGED current)
  BY DEF SS!delivered, SS!KeepStore, SS!KeepSave
<1>2. trig[c].next \in States
  BY DEF SessionsInv, StateTypes, TriggerRec
<1>3. current' \in States /\ trig' \in [Triggerers -> TriggerRec]
  <2>1. SS!NoTrigger \in TriggerRec
    BY DEF SS!NoTrigger, TriggerRec, States
  <2>2. CASE trig' = [trig EXCEPT ![c] = SS!NoTrigger] /\ UNCHANGED current
    BY <2>1, <2>2 DEF SessionsInv, StateTypes
  <2> QED
    BY <1>1, <1>2, <2>2, EntersTyped
<1>4. PICK how \in {"resumed", "failed"} : SS!Settles(c, how)
  BY <1>1
<1>5. resume' \in ResumeRec /\ OwnStore'
  <2>1. CASE UNCHANGED resume
    BY <2>1 DEF SessionsInv, StateTypes, OwnStore, SS!ActiveStore
  <2>2. CASE resume.pc = "delivering" /\ resume' = [resume EXCEPT !.pc = how]
    <3>1. how \in ResumePcs /\ resume.pc \in GoingOn
      BY <2>2 DEF ResumePcs, GoingOn
    <3> QED
      BY <2>2, <3>1, ResumeMoves, ResumeParts
  <2> QED
    BY <1>4, <2>1, <2>2 DEF SS!Settles
<1>6. store' \in {"unknown", "ready"}
  BY <1>1 DEF SessionsInv, StateTypes
<1> QED
  BY <1>1, <1>3, <1>5, <1>6, DiskKept

LEMMA ResumesKeeps ==
  ASSUME SessionsInv, SS!attachSm \/ \E c \in Triggerers : SS!triggersResume(c) \/ SS!triggersFirstTurn(c)
  PROVE  SessionsInv'
<1>1. UNCHANGED <<store, disk, manifestTmp, save, acked, unsure>>
  BY DEF SS!attachSm, SS!triggersResume, SS!triggersFirstTurn, SS!KeepStore, SS!KeepSave
<1>2. store' \in {"unknown", "ready"}
  BY <1>1 DEF SessionsInv, StateTypes
<1>3. CASE SS!attachSm
  <2>1. PICK sm \in {"attached", "skipped"} :
          resume.pc = "attach" /\ resume' = [resume EXCEPT !.pc = "resume", !.sm = sm] /\ UNCHANGED <<current, trig>>
    BY <1>3 DEF SS!attachSm, SS!KeepMachine
  <2>2. resume' = [resume EXCEPT !.pc = "resume", !.sm = sm, !.by = resume.by] /\ resume.by \in Triggerers \cup {0}
    BY <2>1 DEF SessionsInv, StateTypes, ResumeRec
  <2>3. resume' \in ResumeRec /\ OwnStore'
    BY <2>1, <2>2, ResumeMoves DEF GoingOn, ResumePcs
  <2> QED
    BY <1>1, <1>2, <2>1, <2>3, DiskKept DEF SessionsInv, StateTypes
<1>4. ASSUME NEW c \in Triggerers, SS!triggersResume(c) PROVE SessionsInv'
  <2>1. \/ resume.pc = "resume" /\ SS!Enters(c, "Resumed") /\ resume' = [resume EXCEPT !.pc = "first"]
        \/ resume.pc = "resume" /\ resume' = [resume EXCEPT !.pc = "IllegalTransition"] /\ UNCHANGED <<current, trig>>
    BY <1>4 DEF SS!triggersResume, SS!Ends, SS!KeepMachine
  <2>2. current' \in States /\ trig' \in [Triggerers -> TriggerRec]
    BY <2>1, EntersTyped DEF SessionsInv, StateTypes, States
  <2>3. resume' \in ResumeRec /\ OwnStore'
    <3>1. ASSUME NEW pc \in {"first", "IllegalTransition"}, resume' = [resume EXCEPT !.pc = pc]
          PROVE  resume' \in ResumeRec /\ OwnStore'
      <4>1. pc \in ResumePcs /\ resume.pc \in GoingOn
        BY <2>1, <3>1 DEF GoingOn, ResumePcs
      <4>2. /\ resume' = [resume EXCEPT !.pc = pc, !.sm = resume.sm, !.by = resume.by]
            /\ resume.sm \in {"none", "attached", "skipped"} /\ resume.by \in Triggerers \cup {0}
        BY <3>1, ResumeParts
      <4> QED
        BY <4>1, <4>2, ResumeMoves
    <3> QED
      BY <2>1, <3>1
  <2> QED
    BY <1>1, <1>2, <2>2, <2>3, DiskKept
<1>5. ASSUME NEW c \in Triggerers, SS!triggersFirstTurn(c) PROVE SessionsInv'
  <2>1. \/ /\ resume.pc = "first" /\ SS!trigger(c, "FirstTurn")
           /\ \E pc \in {"delivering", "resumed"} : resume' = [resume EXCEPT !.by = c, !.pc = pc]
        \/ resume.pc = "first" /\ resume' = [resume EXCEPT !.pc = "IllegalTransition"] /\ UNCHANGED <<current, trig>>
    BY <1>5 DEF SS!triggersFirstTurn, SS!Ends, SS!KeepMachine
  <2>2. current' \in States /\ trig' \in [Triggerers -> TriggerRec]
    BY <2>1, TriggerTyped DEF SessionsInv, StateTypes
  <2>3. resume' \in ResumeRec /\ OwnStore'
    <3>1. ASSUME NEW pc \in {"delivering", "resumed"}, resume.pc = "first",
                 resume' = [resume EXCEPT !.by = c, !.pc = pc]
          PROVE  resume' \in ResumeRec /\ OwnStore'
      <4>1. /\ resume' = [resume EXCEPT !.pc = pc, !.sm = resume.sm, !.by = c]
            /\ resume.sm \in {"none", "attached", "skipped"} /\ c \in Triggerers \cup {0}
        BY <3>1 DEF SessionsInv, StateTypes, ResumeRec
      <4>2. pc \in ResumePcs /\ resume.pc \in GoingOn
        BY <3>1 DEF GoingOn, ResumePcs
      <4> QED
        BY <4>1, <4>2, ResumeMoves
    <3>2. ASSUME resume.pc = "first", resume' = [resume EXCEPT !.pc = "IllegalTransition"]
          PROVE  resume' \in ResumeRec /\ OwnStore'
      BY <3>2, ResumeMoves, ResumeParts DEF GoingOn, ResumePcs
    <3> QED
      BY <2>1, <3>1, <3>2
  <2> QED
    BY <1>1, <1>2, <2>2, <2>3, DiskKept
<1> QED
  BY <1>3, <1>4, <1>5

LEMMA ReadsKeeps == ASSUME SessionsInv, SS!readLastSnapshot
  PROVE SessionsInv' /\ resume'.m \in {acked} \cup unsure
<1>1. /\ UNCHANGED <<current, trig, store, disk, manifestTmp, save, acked, unsure>>
      /\ save.pc \in {"none", "failed"}
  BY DEF SS!readLastSnapshot, SS!KeepMachine, SS!KeepStore, SS!KeepSave
<1>2. PICK pc : /\ resume' = [m |-> disk, sm |-> "none", by |-> 0, pc |-> pc]
                /\ pc \in {"NoSnapshot", "ManifestDrift", "ResumeMismatch", "Unaudited", "resume", "attach"}
                /\ pc \in {"resume", "attach"} => disk.storeId = SS!ActiveStore
  BY DEF SS!readLastSnapshot, SS!assertStoreCompatible
<1>3. disk \in OnDisk /\ pc \in ResumePcs
  BY <1>2 DEF SessionsInv, StateTypes, ResumePcs, GoingOn
<1>4. resume' \in ResumeRec /\ resume'.m = disk /\ resume'.pc = pc /\ resume'.sm = "none"
  BY <1>2, <1>3 DEF ResumeRec
<1>5. OwnStore'
  BY <1>2, <1>4 DEF OwnStore, GoingOn, SS!ActiveStore
<1>6. SessionsInv'
  BY <1>1, <1>4, <1>5, DiskKept DEF SessionsInv, StateTypes
<1>7. disk \in {acked} \cup unsure
  BY <1>1 DEF SessionsInv, DiskAccounted
<1> QED
  BY <1>4, <1>6, <1>7

(* The snapshot writer.                                                    *)
LEMMA SavesKeeps ==
  ASSUME SessionsInv, \/ \E m \in SS!Manifests : SS!writeSnapshot(m)
                      \/ SS!opensTemp \/ SS!fillsTemp \/ SS!renames \/ SS!acknowledges
  PROVE  SessionsInv'
<1>1. UNCHANGED <<current, trig, store, resume>>
  BY DEF SS!writeSnapshot, SS!opensTemp, SS!fillsTemp, SS!renames, SS!acknowledges, SS!KeepRest, SS!KeepMachine
<1>2. save \in SaveRec /\ disk \in OnDisk /\ manifestTmp \in OnDisk /\ SS!Torn \in OnDisk /\ SS!NoManifest \in OnDisk
  BY DEF SessionsInv, StateTypes, OnDisk
<1>3. save.m \in OnDisk
  BY <1>2 DEF SaveRec
<1>4. OwnStore'
  BY <1>1 DEF SessionsInv, OwnStore, SS!ActiveStore
<1>5. ASSUME save' \in SaveRec, disk' \in OnDisk, manifestTmp' \in OnDisk, DiskAccounted', TempComplete'
      PROVE  SessionsInv'
  BY <1>1, <1>4, <1>5 DEF SessionsInv, StateTypes
<1>6. ASSUME SS!Fails, UNCHANGED <<disk, manifestTmp>> PROVE SessionsInv'
  <2>1. save' \in SaveRec /\ save'.pc = "failed"
    BY <1>2, <1>6 DEF SS!Fails, SaveRec
  <2>2. disk \in {acked} \cup unsure \cup {save.m}
    BY DEF SessionsInv, DiskAccounted
  <2>3. DiskAccounted'
    BY <1>6, <2>1, <2>2 DEF SS!Fails, DiskAccounted
  <2> QED
    BY <1>2, <1>5, <1>6, <2>1, <2>3 DEF TempComplete
<1>7. ASSUME NEW m \in SS!Manifests, SS!writeSnapshot(m) PROVE SessionsInv'
  <2>1. m \in OnDisk /\ save' = [pc |-> "open", m |-> m, was |-> disk] /\ save.pc \in {"none", "failed"}
        /\ UNCHANGED <<disk, manifestTmp, acked, unsure>>
    BY <1>7 DEF SS!writeSnapshot, OnDisk
  <2>2. save' \in SaveRec /\ save'.pc = "open"
    BY <1>2, <2>1 DEF SaveRec
  <2>3. DiskAccounted' /\ TempComplete'
    BY <2>1, <2>2 DEF SessionsInv, DiskAccounted, TempComplete
  <2> QED
    BY <1>2, <1>5, <2>1, <2>2, <2>3
<1>8. ASSUME NEW pc \in {"fill", "rename", "audit"}, save' = [save EXCEPT !.pc = pc]
      PROVE  save' \in SaveRec /\ save'.pc = pc /\ save'.m = save.m
  BY <1>2, <1>8 DEF SaveRec
<1>9. CASE SS!opensTemp
  <2>1. CASE SS!Fails /\ UNCHANGED <<disk, manifestTmp>>
    BY <1>6, <2>1
  <2>2. CASE /\ save.pc = "open" /\ save' = [save EXCEPT !.pc = "fill"] /\ manifestTmp' = SS!Torn
             /\ UNCHANGED <<disk, acked, unsure>>
    <3>1. save' \in SaveRec /\ save'.pc = "fill"
      BY <1>8, <2>2
    <3>2. DiskAccounted' /\ TempComplete'
      BY <2>2, <3>1 DEF SessionsInv, DiskAccounted, TempComplete
    <3> QED
      BY <1>2, <1>5, <2>2, <3>1, <3>2
  <2> QED
    BY <1>9, <2>1, <2>2 DEF SS!opensTemp
<1>10. CASE SS!fillsTemp
  <2>1. CASE SS!Fails /\ UNCHANGED <<disk, manifestTmp>>
    BY <1>6, <2>1
  <2>2. CASE /\ save.pc = "fill" /\ save' = [save EXCEPT !.pc = "rename"] /\ manifestTmp' = save.m
             /\ UNCHANGED <<disk, acked, unsure>>
    <3>1. save' \in SaveRec /\ save'.pc = "rename" /\ save'.m = save.m
      BY <1>8, <2>2
    <3>2. DiskAccounted' /\ TempComplete'
      BY <2>2, <3>1 DEF SessionsInv, DiskAccounted, TempComplete
    <3> QED
      BY <1>2, <1>3, <1>5, <2>2, <3>1, <3>2
  <2> QED
    BY <1>10, <2>1, <2>2 DEF SS!fillsTemp
<1>11. CASE SS!renames
  <2>1. CASE SS!Fails /\ UNCHANGED <<disk, manifestTmp>>
    BY <1>6, <2>1
  <2>2. CASE /\ save.pc = "rename" /\ save' = [save EXCEPT !.pc = "audit"] /\ disk' = manifestTmp
             /\ manifestTmp' = SS!NoManifest
    <3>1. save' \in SaveRec /\ save'.pc = "audit" /\ save'.m = save.m
      BY <1>8, <2>2
    <3>2. DiskAccounted' /\ TempComplete'
      BY <2>2, <3>1 DEF SessionsInv, DiskAccounted, TempComplete
    <3> QED
      BY <1>2, <1>5, <2>2, <3>1, <3>2
  <2> QED
    BY <1>11, <2>1, <2>2 DEF SS!renames
<1>12. CASE SS!acknowledges
  <2>1. CASE SS!Fails /\ UNCHANGED <<disk, manifestTmp>>
    BY <1>6, <2>1
  <2>2. CASE /\ save.pc = "audit" /\ save' = SS!NoSave /\ acked' = save.m /\ unsure' = {}
             /\ UNCHANGED <<disk, manifestTmp>>
    <3>1. save' \in SaveRec /\ save'.pc = "none"
      BY <1>2, <2>2 DEF SaveRec, SS!NoSave
    <3>2. DiskAccounted' /\ TempComplete'
      BY <2>2, <3>1 DEF SessionsInv, DiskAccounted, TempComplete
    <3> QED
      BY <1>2, <1>5, <2>2, <3>1, <3>2
  <2> QED
    BY <1>12, <2>1, <2>2 DEF SS!acknowledges
<1> QED
  BY <1>7, <1>9, <1>10, <1>11, <1>12

LEMMA KilledKeeps == ASSUME SessionsInv, SS!killed PROVE SessionsInv'
<1>1. /\ current' = "Closed" /\ trig' = [c \in Triggerers |-> SS!NoTrigger]
      /\ store' = "unknown" /\ save' = SS!NoSave /\ resume' = SS!NoResume
      /\ unsure' = IF save.pc \in {"none", "failed"} THEN unsure ELSE unsure \cup {save.m}
      /\ UNCHANGED <<disk, manifestTmp, acked>>
  BY DEF SS!killed
<1>2. SS!NoManifest \in OnDisk
  BY DEF OnDisk
<1>3. SS!NoTrigger \in TriggerRec /\ SS!NoSave \in SaveRec /\ SS!NoResume \in ResumeRec
  BY <1>2 DEF SS!NoTrigger, SS!NoSave, SS!NoResume, TriggerRec, SaveRec, ResumeRec, States, ResumePcs
<1>4. StateTypes'
  BY <1>1, <1>3 DEF SessionsInv, StateTypes, States
<1>5. DiskAccounted'
  BY <1>1 DEF SessionsInv, DiskAccounted, SS!NoSave
<1>6. TempComplete' /\ OwnStore'
  BY <1>1 DEF TempComplete, OwnStore, SS!NoSave, SS!NoResume, GoingOn
<1> QED
  BY <1>4, <1>5, <1>6 DEF SessionsInv

LEMMA SessionsStep == SessionsInv /\ [SS!SSNext]_stateVars => SessionsInv'
<1> SUFFICES ASSUME SessionsInv, [SS!SSNext]_stateVars PROVE SessionsInv'
  OBVIOUS
<1>1. CASE UNCHANGED stateVars
  BY <1>1 DEF stateVars, SessionsInv, StateTypes, DiskAccounted, TempComplete, OwnStore, SS!ActiveStore
<1>2. CASE SS!init \/ SS!dispose
  <2>1. /\ UNCHANGED <<current, trig, disk, manifestTmp, save, acked, unsure, resume>>
        /\ store' \in {"unknown", "ready"}
    BY <1>2 DEF SS!init, SS!dispose, SS!KeepMachine, SS!KeepSave
  <2>2. resume' \in ResumeRec /\ OwnStore'
    BY <2>1 DEF SessionsInv, StateTypes, OwnStore, SS!ActiveStore
  <2> QED
    BY <2>1, <2>2, DiskKept DEF SessionsInv, StateTypes
<1> QED
  BY <1>1, <1>2, TriggersKeeps, DeliveredKeeps, ResumesKeeps, ReadsKeeps, SavesKeeps, KilledKeeps DEF SS!SSNext

LEMMA ResumesStep ==
  ASSUME SessionsInv, [SS!SSNext]_stateVars
  PROVE  [resume.pc = "none" /\ resume'.pc # "none" => resume'.m \in {acked} \cup unsure]_resume
<1> SUFFICES ASSUME resume.pc = "none", resume'.pc # "none"
             PROVE  resume'.m \in {acked} \cup unsure
  OBVIOUS
<1>2. ~(SS!init \/ SS!dispose \/ SS!opensTemp \/ SS!fillsTemp \/ SS!renames \/ SS!acknowledges)
  BY DEF SS!init, SS!dispose, SS!opensTemp, SS!fillsTemp, SS!renames, SS!acknowledges, SS!KeepRest
<1>3. ~(SS!attachSm \/ SS!killed \/ \E m \in SS!Manifests : SS!writeSnapshot(m))
  <2>1. ~SS!attachSm
    BY DEF SS!attachSm
  <2>2. ~SS!killed
    BY DEF SS!killed, SS!NoResume
  <2>3. ~\E m \in SS!Manifests : SS!writeSnapshot(m)
    BY DEF SS!writeSnapshot, SS!KeepRest
  <2> QED
    BY <2>1, <2>2, <2>3
<1>4. ASSUME NEW c \in Triggerers
      PROVE  ~(SS!delivered(c) \/ SS!triggersResume(c) \/ SS!triggersFirstTurn(c)
               \/ \E k \in {"FirstTurn", "Snapshot", "Resume", "Sigterm"} : SS!triggers(c, k))
  <2>1. ~SS!delivered(c)
    BY DEF SS!delivered, SS!Settles
  <2>2. ~SS!triggersResume(c) /\ ~SS!triggersFirstTurn(c)
    BY DEF SS!triggersResume, SS!triggersFirstTurn
  <2>3. ASSUME NEW k PROVE ~SS!triggers(c, k)
    BY DEF SS!triggers
  <2> QED
    BY <2>1, <2>2, <2>3
<1>5. ~UNCHANGED stateVars
  BY DEF stateVars
<1>1. SS!readLastSnapshot
  BY <1>2, <1>3, <1>4, <1>5 DEF SS!SSNext
<1> QED
  BY <1>1, ReadsKeeps

-----------------------------------------------------------------------------
(***************************************************************************)
(* The files of a workspace and the tools that change them.                *)
(***************************************************************************)
CallFields  == {"pc", "arg", "limit", "was", "text", "name"}
Composing   == {"open", "fill", "rename"}
CallPcs     == Composing \cup {"edit", "write", "read", "list", "ok", "failed"}

(* What is known of one call by how far it has come.                       *)
CallTyped(c) ==
  \/ fcall[c] = FT!NoFileCall
  \/ /\ DOMAIN fcall[c] = CallFields /\ fcall[c].pc \in CallPcs /\ fcall[c].arg \in FileArgs
     /\ fcall[c].pc \in {"edit", "write", "read", "list"} => fcall[c].arg.tool = fcall[c].pc
     /\ fcall[c].pc \in Composing => FT!Changes(fcall[c].arg)
     /\ FT!InFlight(c) /\ FT!Changes(fcall[c].arg) => FT!Target(c) \in FT!FilePaths
     /\ fcall[c].pc \in Composing =>
          /\ fcall[c].text \in composed[FT!Target(c)]
          /\ IF fcall[c].arg.tool = "edit" THEN \E t \in Ticks : fcall[c].name = FT!editTemp(c, t)
                                           ELSE fcall[c].name = FT!tempSibling(c)

FileTypes ==
  /\ DOMAIN fcall = FileCallers /\ DOMAIN file = FT!FilePaths /\ DOMAIN composed = FT!FilePaths
  /\ \A c \in FileCallers : CallTyped(c)
  /\ dirs \subseteq {".", "d"} /\ limit \in Limits
  /\ \A n \in DOMAIN temp : n[1] \in FT!FilePaths

Alone(c) == FT!Target(c) \notin sharedTemp \/ c \notin overlapped

(* The temporary file of a call that shares it with none holds its text.   *)
TempOwn ==
  \A c \in FileCallers :
    /\ fcall[c].pc \in {"fill", "rename"} /\ Alone(c) => fcall[c].name \in DOMAIN temp
    /\ fcall[c].pc = "rename" /\ Alone(c) => temp[fcall[c].name] = fcall[c].text

SharingSeen ==
  \A c, o \in FileCallers :
    c # o /\ fcall[c].pc \in {"fill", "rename"} /\ fcall[o].pc \in {"fill", "rename"}
          /\ fcall[c].name = fcall[o].name => FT!Target(c) \in sharedTemp

Changing(c) == FT!InFlight(c) /\ FT!Changes(fcall[c].arg)

OverlapSeen ==
  \A c, o \in FileCallers :
    c # o /\ Changing(c) /\ Changing(o) /\ FT!Target(c) = FT!Target(o) => c \in overlapped

StillWas == \A c \in FileCallers : Changing(c) /\ c \notin overlapped => file[FT!Target(c)] = fcall[c].was

FilesInv == FileTypes /\ FT!FilesAreWhole /\ TempOwn /\ SharingSeen /\ OverlapSeen /\ StillWas

LEMMA FilesTyped == FilesInv => FT!FTTypeOK
  BY DEF FilesInv, FileTypes, CallTyped, CallPcs, Composing, FT!FTTypeOK, FT!NoFileCall

LEMMA FilesInit == FT!FTInit => FilesInv
<1> SUFFICES ASSUME FT!FTInit PROVE FilesInv
  OBVIOUS
<1>1. /\ \A c \in FileCallers : fcall[c] = FT!NoFileCall /\ fcall[c].pc = "none"
      /\ DOMAIN fcall = FileCallers /\ DOMAIN file = FT!FilePaths /\ DOMAIN composed = FT!FilePaths
      /\ \A p \in FT!FilePaths : composed[p] = {file[p]}
      /\ DOMAIN temp = {} /\ dirs \subseteq {".", "d"} /\ limit \in Limits
  BY DEF FT!FTInit, FT!NoFileCall
<1>2. FileTypes
  BY <1>1 DEF FileTypes, CallTyped
<1>3. FT!FilesAreWhole
  BY <1>1 DEF FT!FilesAreWhole
<1>4. TempOwn /\ SharingSeen /\ OverlapSeen /\ StillWas
  BY <1>1 DEF TempOwn, SharingSeen, OverlapSeen, StillWas, Changing, FT!InFlight
<1> QED
  BY <1>2, <1>3, <1>4 DEF FilesInv

(* A composing call is under way, changes its file and names it.           *)
LEMMA ComposingFacts ==
  ASSUME FilesInv, NEW c \in FileCallers, fcall[c].pc \in Composing
  PROVE  /\ Changing(c) /\ FT!Target(c) \in FT!FilePaths /\ fcall[c].text \in composed[FT!Target(c)]
         /\ DOMAIN fcall[c] = CallFields /\ fcall[c].arg \in FileArgs
         /\ fcall[c].name[1] = FT!Target(c)
         /\ fcall[c].arg.tool = "write" => fcall[c].name = <<FT!Target(c), "random", c>>
         /\ fcall[c].arg.tool # "write" => fcall[c].arg.tool = "edit" /\ \E t \in Ticks : fcall[c].name = <<FT!Target(c), "tick", t>>
<1>1. fcall[c] # FT!NoFileCall /\ CallTyped(c)
  BY DEF FilesInv, FileTypes, FT!NoFileCall, Composing
<1>2. Changing(c)
  BY <1>1 DEF Changing, CallTyped, FT!InFlight, Composing
<1>3. fcall[c].arg.tool \in {"edit", "write"}
  BY <1>1 DEF CallTyped, FT!Changes
<1>4. FT!Target(c) \in FT!FilePaths /\ fcall[c].text \in composed[FT!Target(c)]
      /\ DOMAIN fcall[c] = CallFields /\ fcall[c].arg \in FileArgs
  BY <1>1, <1>2 DEF CallTyped, Changing
<1>5. /\ fcall[c].arg.tool = "write" => fcall[c].name = <<FT!Target(c), "random", c>>
      /\ fcall[c].arg.tool # "write" => fcall[c].arg.tool = "edit" /\ \E t \in Ticks : fcall[c].name = <<FT!Target(c), "tick", t>>
  BY <1>1, <1>3 DEF CallTyped, FT!editTemp, FT!tempSibling
<1>6. fcall[c].name[1] = FT!Target(c)
  <2>1. PICK t : t = FT!Target(c)
    OBVIOUS
  <2>2. \A k, v : <<t, k, v>>[1] = t
    OBVIOUS
  <2> QED
    BY <1>5, <2>1, <2>2
<1> QED
  BY <1>2, <1>4, <1>5, <1>6

(* Two composing calls with one temporary file are two edits of one file   *)
(* in one tick, and have seen each other.                                  *)
LEMMA SharersMet ==
  ASSUME FilesInv, NEW c \in FileCallers, NEW o \in FileCallers, c # o,
         fcall[c].pc \in Composing, fcall[o].pc \in Composing, fcall[c].name = fcall[o].name
  PROVE  /\ c \in overlapped /\ o \in overlapped /\ FT!Target(c) = FT!Target(o)
         /\ fcall[c].arg.tool = "edit" /\ fcall[o].arg.tool = "edit"
<1>1. FT!Target(c) = FT!Target(o) /\ Changing(c) /\ Changing(o)
  BY ComposingFacts
<1>2. c \in overlapped /\ o \in overlapped
  BY <1>1 DEF FilesInv, OverlapSeen
<1>3. PICK t, u : t = FT!Target(c) /\ u = FT!Target(o)
  OBVIOUS
<1>4. \A x, y : /\ <<t, "random", x>> = <<u, "random", y>> => x = y
                /\ <<t, "random", x>> # <<u, "tick", y>>
                /\ <<t, "tick", x>> # <<u, "random", y>>
  OBVIOUS
<1>5. fcall[c].arg.tool = "edit" /\ fcall[o].arg.tool = "edit"
  BY <1>3, <1>4, ComposingFacts
<1> QED
  BY <1>1, <1>2, <1>5

(* Of a step that moves one call on, what does not depend on its outcome.  *)
OthersStay(c) == /\ DOMAIN fcall' = FileCallers
                 /\ \A o \in FileCallers \ {c} : fcall'[o] = fcall[o]

LEMMA PcSetTo ==
  ASSUME FilesInv, NEW c \in FileCallers, NEW pc, fcall[c].pc # "none", fcall' = [fcall EXCEPT ![c].pc = pc]
  PROVE  /\ OthersStay(c) /\ DOMAIN fcall'[c] = CallFields /\ fcall'[c].pc = pc
         /\ fcall'[c].arg = fcall[c].arg /\ fcall'[c].text = fcall[c].text
         /\ fcall'[c].name = fcall[c].name /\ fcall'[c].was = fcall[c].was /\ fcall'[c].limit = fcall[c].limit
<1>1. DOMAIN fcall = FileCallers /\ DOMAIN fcall[c] = CallFields
  BY DEF FilesInv, FileTypes, CallTyped, FT!NoFileCall
<1>2. PICK rec : rec = [fcall[c] EXCEPT !.pc = pc]
  OBVIOUS
<1>3. /\ DOMAIN rec = CallFields /\ rec.pc = pc /\ rec.arg = fcall[c].arg /\ rec.text = fcall[c].text
      /\ rec.name = fcall[c].name /\ rec.was = fcall[c].was /\ rec.limit = fcall[c].limit
  BY <1>1, <1>2 DEF CallFields
<1>4. fcall' = [fcall EXCEPT ![c] = rec]
  BY <1>2
<1>5. fcall'[c] = rec /\ OthersStay(c)
  BY <1>1, <1>4 DEF OthersStay
<1> QED
  BY <1>3, <1>5

(* Temporary files of other calls survive a step of c.                     *)
TempsKept(c) ==
  \A o \in FileCallers \ {c} :
    fcall[o].pc \in {"fill", "rename"} /\ (FT!Target(o) \notin sharedTemp' \/ o \notin overlapped)
      => fcall[o].name \in DOMAIN temp' /\ temp'[fcall[o].name] = temp[fcall[o].name]

LEMMA CallEnds ==
  ASSUME FilesInv, NEW c \in FileCallers, OthersStay(c), DOMAIN fcall'[c] = CallFields,
         fcall'[c].pc \in {"ok", "failed"}, fcall'[c].arg \in FileArgs,
         UNCHANGED <<composed, limit, overlapped>>, dirs' \subseteq {".", "d"}, DOMAIN file' = FT!FilePaths,
         sharedTemp \subseteq sharedTemp', TempsKept(c), \A n \in DOMAIN temp' : n[1] \in FT!FilePaths,
         \A p \in FT!FilePaths : \/ file'[p] = file[p]
                                 \/ p = FT!Target(c) /\ Changing(c) /\ (file'[p] \in composed[p] \/ p \in sharedTemp)
  PROVE  FilesInv'
<1>1. ASSUME NEW o \in FileCallers PROVE CallTyped(o)'
  <2>1. CASE o = c
    BY <2>1 DEF CallTyped, CallPcs, Composing, FT!InFlight
  <2>2. CASE o # c
    <3>1. fcall'[o] = fcall[o] /\ CallTyped(o)
      BY <2>2 DEF OthersStay, FilesInv, FileTypes
    <3> QED
      BY <3>1 DEF CallTyped, FT!InFlight, FT!Changes, FT!Target, FT!NoFileCall, FT!editTemp, FT!tempSibling, FT!FilePaths
  <2> QED
    BY <2>1, <2>2
<1>2. FileTypes'
  BY <1>1 DEF FilesInv, FileTypes, OthersStay, FT!FilePaths
<1>3. FT!FilesAreWhole'
  BY DEF FilesInv, FT!FilesAreWhole, FT!FilePaths
<1>4. ASSUME NEW o \in FileCallers, fcall'[o].pc \notin {"ok", "failed"} PROVE o # c /\ fcall'[o] = fcall[o]
  BY <1>4 DEF OthersStay
<1>5. TempOwn'
  <2> SUFFICES ASSUME NEW o \in FileCallers, fcall'[o].pc \in {"fill", "rename"},
                      FT!Target(o)' \notin sharedTemp' \/ o \notin overlapped
               PROVE  /\ fcall'[o].name \in DOMAIN temp'
                      /\ fcall'[o].pc = "rename" => temp'[fcall'[o].name] = fcall'[o].text
    BY DEF TempOwn, Alone
  <2>1. o # c /\ fcall'[o] = fcall[o]
    BY <1>4
  <2>2. FT!Target(o) \notin sharedTemp' \/ o \notin overlapped
    BY <2>1 DEF FT!Target
  <2>3. fcall[o].name \in DOMAIN temp' /\ temp'[fcall[o].name] = temp[fcall[o].name]
    BY <2>1, <2>2 DEF TempsKept
  <2>4. Alone(o)
    BY <2>2 DEF Alone
  <2>5. fcall[o].pc = "rename" => temp[fcall[o].name] = fcall[o].text
    BY <2>4 DEF FilesInv, TempOwn
  <2> QED
    BY <2>1, <2>3, <2>5
<1>6. SharingSeen'
  BY <1>4 DEF FilesInv, SharingSeen, FT!Target
<1>7. OverlapSeen'
  BY <1>4 DEF FilesInv, OverlapSeen, Changing, FT!InFlight, FT!Changes, FT!Target
<1>8. StillWas'
  <2> SUFFICES ASSUME NEW o \in FileCallers, Changing(o)', o \notin overlapped
               PROVE  file'[FT!Target(o)'] = fcall'[o].was
    BY DEF StillWas
  <2>1. o # c /\ fcall'[o] = fcall[o]
    BY <1>4 DEF Changing, FT!InFlight
  <2>2. Changing(o) /\ FT!Target(o)' = FT!Target(o)
    BY <2>1 DEF Changing, FT!InFlight, FT!Changes, FT!Target
  <2>3. FT!Target(o) \in FT!FilePaths
    BY <2>2 DEF FilesInv, FileTypes, CallTyped, Changing, FT!InFlight, FT!NoFileCall
  <2>4. file[FT!Target(o)] = fcall[o].was
    BY <2>2 DEF FilesInv, StillWas
  <2>5. ~(FT!Target(o) = FT!Target(c) /\ Changing(c))
    BY <2>1, <2>2 DEF FilesInv, OverlapSeen
  <2> QED
    BY <2>1, <2>2, <2>3, <2>4, <2>5
<1> QED
  BY <1>2, <1>3, <1>5, <1>6, <1>7, <1>8 DEF FilesInv

LEMMA CallMoves ==
  ASSUME FilesInv, NEW c \in FileCallers, OthersStay(c), DOMAIN fcall'[c] = CallFields,
         fcall'[c].pc \in Composing, Changing(c), UNCHANGED <<file, limit, overlapped>>,
         fcall'[c].arg = fcall[c].arg, fcall'[c].was = fcall[c].was, fcall[c].arg \in FileArgs,
         fcall'[c].text \in composed'[FT!Target(c)],
         IF fcall[c].arg.tool = "edit" THEN \E t \in Ticks : fcall'[c].name = FT!editTemp(c, t)
                                       ELSE fcall'[c].name = FT!tempSibling(c),
         DOMAIN composed' = FT!FilePaths, \A p \in FT!FilePaths : composed[p] \subseteq composed'[p],
         dirs' \subseteq {".", "d"}, sharedTemp \subseteq sharedTemp', TempsKept(c),
         \A n \in DOMAIN temp' : n[1] \in FT!FilePaths,
         fcall'[c].pc \in {"fill", "rename"} /\ (FT!Target(c) \notin sharedTemp' \/ c \notin overlapped)
           => /\ fcall'[c].name \in DOMAIN temp'
              /\ fcall'[c].pc = "rename" => temp'[fcall'[c].name] = fcall'[c].text,
         \A o \in FileCallers \ {c} : /\ fcall'[c].pc \in {"fill", "rename"} /\ fcall[o].pc \in {"fill", "rename"}
                                      /\ fcall'[c].name = fcall[o].name
                                      => FT!Target(c) \in sharedTemp' /\ FT!Target(o) \in sharedTemp'
  PROVE  FilesInv'
<1>1. /\ FT!Target(c)' = FT!Target(c) /\ Changing(c)' /\ FT!Target(c) \in FT!FilePaths
      /\ \A o \in FileCallers \ {c} : fcall'[o] = fcall[o] /\ FT!Target(o)' = FT!Target(o) /\ Changing(o)' = Changing(o)
  <2>1. FT!Target(c)' = FT!Target(c)
    BY DEF FT!Target
  <2>2. Changing(c)'
    BY DEF Changing, FT!InFlight, FT!Changes, Composing
  <2>3. FT!Target(c) \in FT!FilePaths
    BY DEF FilesInv, FileTypes, CallTyped, Changing, FT!InFlight, FT!NoFileCall
  <2>4. ASSUME NEW o \in FileCallers \ {c}
        PROVE  fcall'[o] = fcall[o] /\ FT!Target(o)' = FT!Target(o) /\ Changing(o)' = Changing(o)
    <3>1. fcall'[o] = fcall[o]
      BY DEF OthersStay
    <3> QED
      BY <3>1 DEF FT!Target, Changing, FT!InFlight, FT!Changes
  <2> QED
    BY <2>1, <2>2, <2>3, <2>4
<1>2. ASSUME NEW o \in FileCallers PROVE CallTyped(o)'
  <2>1. CASE o = c
    <3>1. (fcall[c].arg.tool = "edit" => \E t \in Ticks : fcall'[c].name = FT!editTemp(c, t)')
          /\ (fcall[c].arg.tool # "edit" => fcall'[c].name = FT!tempSibling(c)')
      BY <1>1 DEF FT!editTemp, FT!tempSibling
    <3>2. FT!Changes(fcall'[c].arg) /\ FT!FilePaths' = FT!FilePaths
      BY DEF Changing, FT!Changes, FT!FilePaths
    <3> QED
      BY <1>1, <2>1, <3>1, <3>2 DEF CallTyped, CallPcs, Composing, FT!Changes
  <2>2. CASE o # c
    <3>1. fcall'[o] = fcall[o] /\ CallTyped(o) /\ FT!Target(o)' = FT!Target(o)
      BY <1>1, <2>2 DEF FilesInv, FileTypes
    <3>2. FT!Target(o) \in FT!FilePaths => composed[FT!Target(o)] \subseteq composed'[FT!Target(o)]
      OBVIOUS
    <3>3. fcall[o].pc \in Composing => FT!InFlight(o)
      BY DEF Composing, FT!InFlight
    <3> QED
      BY <3>1, <3>2, <3>3 DEF CallTyped, FT!InFlight, FT!Changes, FT!NoFileCall, FT!editTemp, FT!tempSibling, FT!FilePaths
  <2> QED
    BY <2>1, <2>2
<1>3. FileTypes'
  BY <1>2 DEF FilesInv, FileTypes, OthersStay, FT!FilePaths
<1>4. FT!FilesAreWhole'
  BY DEF FilesInv, FT!FilesAreWhole, FT!FilePaths
<1>5. TempOwn'
  <2> SUFFICES ASSUME NEW o \in FileCallers, fcall'[o].pc \in {"fill", "rename"},
                      FT!Target(o)' \notin sharedTemp' \/ o \notin overlapped
               PROVE  /\ fcall'[o].name \in DOMAIN temp'
                      /\ fcall'[o].pc = "rename" => temp'[fcall'[o].name] = fcall'[o].text
    BY DEF TempOwn, Alone
  <2>1. CASE o = c
    BY <1>1, <2>1
  <2>2. CASE o # c
    <3>1. fcall'[o] = fcall[o] /\ (FT!Target(o) \notin sharedTemp' \/ o \notin overlapped)
      BY <1>1, <2>2
    <3>2. fcall[o].name \in DOMAIN temp' /\ temp'[fcall[o].name] = temp[fcall[o].name]
      BY <2>2, <3>1 DEF TempsKept
    <3>3. Alone(o)
      BY <3>1 DEF Alone
    <3>4. fcall[o].pc = "rename" => temp[fcall[o].name] = fcall[o].text
      BY <3>3 DEF FilesInv, TempOwn
    <3> QED
      BY <3>1, <3>2, <3>4
  <2> QED
    BY <2>1, <2>2
<1>6. SharingSeen'
  <2> SUFFICES ASSUME NEW x \in FileCallers, NEW o \in FileCallers, x # o, fcall'[x].pc \in {"fill", "rename"},
                      fcall'[o].pc \in {"fill", "rename"}, fcall'[x].name = fcall'[o].name
               PROVE  FT!Target(x)' \in sharedTemp'
    BY DEF SharingSeen
  <2>1. CASE x = c
    BY <1>1, <2>1
  <2>2. CASE o = c
    BY <1>1, <2>2
  <2>3. CASE x # c /\ o # c
    BY <1>1, <2>3 DEF FilesInv, SharingSeen
  <2> QED
    BY <2>1, <2>2, <2>3
<1>7. OverlapSeen'
  BY <1>1 DEF FilesInv, OverlapSeen
<1>8. StillWas'
  BY <1>1 DEF FilesInv, StillWas
<1> QED
  BY <1>3, <1>4, <1>5, <1>6, <1>7, <1>8 DEF FilesInv

(* A call that holds a temporary file may do with it what it likes.        *)
LEMMA TempsKeptBy ==
  ASSUME FilesInv, NEW c \in FileCallers, fcall[c].pc \in Composing, sharedTemp \subseteq sharedTemp',
         \A n \in DOMAIN temp : n # fcall[c].name => n \in DOMAIN temp' /\ temp'[n] = temp[n],
         \/ fcall[c].pc \in {"fill", "rename"}
         \/ \A o \in FileCallers \ {c} : fcall[o].pc \in {"fill", "rename"} /\ fcall[o].name = fcall[c].name
                                         => FT!Target(o) \in sharedTemp'
  PROVE  TempsKept(c)
<1> SUFFICES ASSUME NEW o \in FileCallers \ {c}, fcall[o].pc \in {"fill", "rename"},
                    FT!Target(o) \notin sharedTemp' \/ o \notin overlapped
             PROVE  fcall[o].name \in DOMAIN temp' /\ temp'[fcall[o].name] = temp[fcall[o].name]
  BY DEF TempsKept
<1>1. fcall[o].pc \in Composing
  BY DEF Composing
<1>2. fcall[o].name # fcall[c].name
  <2> SUFFICES ASSUME fcall[o].name = fcall[c].name PROVE FALSE
    OBVIOUS
  <2>1. o \in overlapped /\ FT!Target(o) = FT!Target(c)
    BY <1>1, SharersMet
  <2>2. FT!Target(o) \in sharedTemp'
    BY DEF FilesInv, SharingSeen
  <2> QED
    BY <2>1, <2>2
<1>3. Alone(o)
  BY DEF Alone
<1>4. fcall[o].name \in DOMAIN temp
  BY <1>3 DEF FilesInv, TempOwn
<1> QED
  BY <1>2, <1>4

LEMMA NotNone ==
  ASSUME FilesInv, NEW c \in FileCallers, fcall[c].pc # "none"
  PROVE  /\ DOMAIN fcall[c] = CallFields /\ fcall[c].arg \in FileArgs /\ CallTyped(c)
         /\ DOMAIN fcall = FileCallers
         /\ fcall[c].pc \in {"edit", "write", "read", "list"} => fcall[c].arg.tool = fcall[c].pc
  BY DEF FilesInv, FileTypes, CallTyped, FT!NoFileCall

(* A step that only ends the call, keeping the files.                      *)
LEMMA ErrorKeeps ==
  ASSUME FilesInv, NEW c \in FileCallers, fcall[c].pc # "none", NEW pc \in {"ok", "failed"},
         fcall' = [fcall EXCEPT ![c].pc = pc], UNCHANGED <<file, composed, limit, overlapped>>,
         dirs' \subseteq {".", "d"}, sharedTemp \subseteq sharedTemp', TempsKept(c),
         \A n \in DOMAIN temp' : n[1] \in FT!FilePaths
  PROVE  FilesInv'
<1>1. /\ OthersStay(c) /\ DOMAIN fcall'[c] = CallFields /\ fcall'[c].pc = pc /\ fcall'[c].arg = fcall[c].arg
  BY PcSetTo
<1>2. fcall[c].arg \in FileArgs /\ DOMAIN file' = FT!FilePaths
  BY NotNone DEF FilesInv, FileTypes
<1> QED
  BY <1>1, <1>2, CallEnds

LEMMA TempsStay ==
  ASSUME FilesInv, NEW c \in FileCallers, UNCHANGED temp, sharedTemp \subseteq sharedTemp'
  PROVE  TempsKept(c) /\ \A n \in DOMAIN temp' : n[1] \in FT!FilePaths
<1>1. ASSUME NEW o \in FileCallers \ {c}, fcall[o].pc \in {"fill", "rename"},
             FT!Target(o) \notin sharedTemp' \/ o \notin overlapped
      PROVE  fcall[o].name \in DOMAIN temp
  <2>1. Alone(o)
    BY <1>1 DEF Alone
  <2> QED
    BY <1>1, <2>1 DEF FilesInv, TempOwn
<1> QED
  BY <1>1 DEF TempsKept, FilesInv, FileTypes

LEMMA EditReadsKeeps == ASSUME FilesInv, NEW c \in FileCallers, FT!editReads(c) PROVE FilesInv'
<1>1. fcall[c].pc = "edit" /\ UNCHANGED <<file, dirs, temp, limit, overlapped, sharedTemp>>
  BY DEF FT!editReads, FT!KeepFiles
<1>2. /\ DOMAIN fcall[c] = CallFields /\ fcall[c].arg \in FileArgs /\ CallTyped(c)
      /\ DOMAIN fcall = FileCallers /\ fcall[c].arg.tool = "edit"
  BY <1>1, NotNone
<1>3. TempsKept(c) /\ \A n \in DOMAIN temp' : n[1] \in FT!FilePaths
  BY <1>1, TempsStay
<1>4. CASE FT!ReturnsError(c) /\ UNCHANGED composed
  BY <1>1, <1>3, <1>4, ErrorKeeps DEF FT!ReturnsError, FilesInv, FileTypes
<1>5. ASSUME NEW new, NEW t \in Ticks,
             fcall' = [fcall EXCEPT ![c].pc = "open", ![c].text = new, ![c].name = FT!editTemp(c, t)],
             composed' = [composed EXCEPT ![fcall[c].arg.path] = @ \cup {new}]
      PROVE  FilesInv'
  <2>1. PICK name : name = FT!editTemp(c, t)
    OBVIOUS
  <2>2. PICK rec : rec = [fcall[c] EXCEPT !.pc = "open", !.text = new, !.name = name]
    OBVIOUS
  <2>3. /\ DOMAIN rec = CallFields /\ rec.pc = "open" /\ rec.text = new /\ rec.name = name
        /\ rec.arg = fcall[c].arg /\ rec.was = fcall[c].was
    BY <1>2, <2>2 DEF CallFields
  <2>4. fcall' = [fcall EXCEPT ![c] = rec]
    BY <1>5, <2>1, <2>2
  <2>5. fcall'[c] = rec /\ OthersStay(c)
    BY <1>2, <2>4 DEF OthersStay
  <2>6. Changing(c) /\ FT!Target(c) \in FT!FilePaths /\ FT!Target(c) = fcall[c].arg.path
    BY <1>1, <1>2 DEF Changing, CallTyped, FT!InFlight, FT!Changes, FT!Target, FT!NoFileCall
  <2>7. /\ DOMAIN composed' = FT!FilePaths /\ new \in composed'[FT!Target(c)]
        /\ \A p \in FT!FilePaths : composed[p] \subseteq composed'[p]
    BY <1>5, <2>6 DEF FilesInv, FileTypes
  <2>8. dirs' \subseteq {".", "d"} /\ rec.pc \in Composing
    BY <1>1, <2>3 DEF FilesInv, FileTypes, Composing
  <2>9. IF fcall[c].arg.tool = "edit" THEN \E u \in Ticks : fcall'[c].name = FT!editTemp(c, u)
                                     ELSE fcall'[c].name = FT!tempSibling(c)
    BY <1>2, <2>1, <2>3, <2>5
  <2> QED
    BY <1>1, <1>2, <1>3, <2>3, <2>5, <2>6, <2>7, <2>8, <2>9, CallMoves
<1> QED
  BY <1>4, <1>5 DEF FT!editReads

LEMMA WritePreparesKeeps == ASSUME FilesInv, NEW c \in FileCallers, FT!writePrepares(c) PROVE FilesInv'
<1>1. fcall[c].pc = "write" /\ UNCHANGED <<file, temp, limit, overlapped, sharedTemp>>
  BY DEF FT!writePrepares
<1>2. /\ DOMAIN fcall[c] = CallFields /\ fcall[c].arg \in FileArgs /\ CallTyped(c)
      /\ DOMAIN fcall = FileCallers /\ fcall[c].arg.tool = "write"
  BY <1>1, NotNone
<1>3. TempsKept(c) /\ \A n \in DOMAIN temp' : n[1] \in FT!FilePaths
  BY <1>1, TempsStay
<1>4. CASE FT!ReturnsError(c) /\ UNCHANGED <<dirs, composed>>
  BY <1>1, <1>3, <1>4, ErrorKeeps DEF FT!ReturnsError, FilesInv, FileTypes
<1>5. ASSUME dirs' = dirs \cup {FT!ParentOf(fcall[c].arg.path)},
             fcall' = [fcall EXCEPT ![c].pc = "open", ![c].text = fcall[c].arg.text, ![c].name = FT!tempSibling(c)],
             composed' = [composed EXCEPT ![fcall[c].arg.path] = @ \cup {fcall[c].arg.text}]
      PROVE  FilesInv'
  <2>1. PICK name, new : name = FT!tempSibling(c) /\ new = fcall[c].arg.text
    OBVIOUS
  <2>2. PICK rec : rec = [fcall[c] EXCEPT !.pc = "open", !.text = new, !.name = name]
    OBVIOUS
  <2>3. /\ DOMAIN rec = CallFields /\ rec.pc = "open" /\ rec.text = new /\ rec.name = name
        /\ rec.arg = fcall[c].arg /\ rec.was = fcall[c].was
    BY <1>2, <2>2 DEF CallFields
  <2>4. fcall' = [fcall EXCEPT ![c] = rec]
    BY <1>5, <2>1, <2>2
  <2>5. fcall'[c] = rec /\ OthersStay(c)
    BY <1>2, <2>4 DEF OthersStay
  <2>6. Changing(c) /\ FT!Target(c) \in FT!FilePaths /\ FT!Target(c) = fcall[c].arg.path
    BY <1>1, <1>2 DEF Changing, CallTyped, FT!InFlight, FT!Changes, FT!Target, FT!NoFileCall
  <2>7. /\ DOMAIN composed' = FT!FilePaths /\ new \in composed'[FT!Target(c)]
        /\ \A p \in FT!FilePaths : composed[p] \subseteq composed'[p]
    BY <1>5, <2>1, <2>6 DEF FilesInv, FileTypes
  <2>8. dirs' \subseteq {".", "d"} /\ rec.pc \in Composing
    BY <1>5, <2>3 DEF FilesInv, FileTypes, Composing, FT!ParentOf
  <2>9. IF fcall[c].arg.tool = "edit" THEN \E u \in Ticks : fcall'[c].name = FT!editTemp(c, u)
                                     ELSE fcall'[c].name = FT!tempSibling(c)
    BY <1>2, <2>1, <2>3, <2>5
  <2> QED
    BY <1>1, <1>2, <1>3, <2>3, <2>5, <2>6, <2>7, <2>8, <2>9, CallMoves
<1> QED
  BY <1>4, <1>5 DEF FT!writePrepares

LEMMA OpensTempKeeps == ASSUME FilesInv, NEW c \in FileCallers, FT!opensTemp(c) PROVE FilesInv'
<1>1. fcall[c].pc = "open" /\ UNCHANGED <<file, dirs, limit, composed, overlapped>> /\ sharedTemp \subseteq sharedTemp'
  BY DEF FT!opensTemp
<1>2. /\ Changing(c) /\ FT!Target(c) \in FT!FilePaths /\ fcall[c].text \in composed[FT!Target(c)]
      /\ DOMAIN fcall[c] = CallFields /\ fcall[c].arg \in FileArgs /\ fcall[c].name[1] = FT!Target(c)
      /\ fcall[c].pc \in Composing /\ fcall[c].pc # "none"
  BY <1>1, ComposingFacts DEF Composing
<1>3. ASSUME NEW o \in FileCallers \ {c}, fcall[o].pc \in {"fill", "rename"}, fcall[o].name = fcall[c].name
      PROVE  FT!Target(c) \in sharedTemp' /\ FT!Target(o) = FT!Target(c)
  <2>1. fcall[o].pc \in Composing
    BY <1>3 DEF Composing
  <2>2. fcall[c].arg.tool = "edit" /\ FT!Target(o) = FT!Target(c)
    BY <1>2, <1>3, <2>1, SharersMet
  <2>3. FT!InFlight(o)
    BY <1>3 DEF FT!InFlight
  <2> QED
    BY <1>3, <2>2, <2>3 DEF FT!opensTemp
<1>4. CASE FT!ReturnsError(c) /\ UNCHANGED temp
  <2>1. TempsKept(c) /\ \A n \in DOMAIN temp' : n[1] \in FT!FilePaths
    BY <1>1, <1>4, TempsStay
  <2> QED
    BY <1>1, <1>2, <1>4, <2>1, ErrorKeeps DEF FT!ReturnsError, FilesInv, FileTypes
<1>5. CASE /\ fcall' = [fcall EXCEPT ![c].pc = "fill"]
           /\ temp' = [n \in DOMAIN temp \cup {fcall[c].name} |-> IF n = fcall[c].name THEN <<>> ELSE temp[n]]
  <2>1. /\ OthersStay(c) /\ DOMAIN fcall'[c] = CallFields /\ fcall'[c].pc = "fill"
        /\ fcall'[c].arg = fcall[c].arg /\ fcall'[c].text = fcall[c].text
        /\ fcall'[c].name = fcall[c].name /\ fcall'[c].was = fcall[c].was
    BY <1>2, <1>5, PcSetTo
  <2>2. /\ fcall[c].name \in DOMAIN temp'
        /\ \A n \in DOMAIN temp : n # fcall[c].name => n \in DOMAIN temp' /\ temp'[n] = temp[n]
        /\ \A n \in DOMAIN temp' : n \in DOMAIN temp \/ n = fcall[c].name
    BY <1>5
  <2>3. TempsKept(c)
    BY <1>1, <1>2, <1>3, <2>2, TempsKeptBy
  <2>4. \A n \in DOMAIN temp' : n[1] \in FT!FilePaths
    BY <1>2, <2>2 DEF FilesInv, FileTypes
  <2>5. IF fcall[c].arg.tool = "edit" THEN \E t \in Ticks : fcall'[c].name = FT!editTemp(c, t)
                                     ELSE fcall'[c].name = FT!tempSibling(c)
    BY <1>2, <2>1, NotNone DEF CallTyped, FT!NoFileCall
  <2>6. dirs' \subseteq {".", "d"} /\ fcall'[c].pc \in Composing /\ DOMAIN composed' = FT!FilePaths
    BY <1>1, <2>1 DEF FilesInv, FileTypes, Composing
  <2>7. \A o \in FileCallers \ {c} : fcall[o].pc \in {"fill", "rename"} /\ fcall'[c].name = fcall[o].name
                                     => FT!Target(c) \in sharedTemp' /\ FT!Target(o) \in sharedTemp'
    BY <1>3, <2>1
  <2> QED
    BY <1>1, <1>2, <2>1, <2>2, <2>3, <2>4, <2>5, <2>6, <2>7, CallMoves
<1> QED
  BY <1>4, <1>5 DEF FT!opensTemp

LEMMA FillsTempKeeps == ASSUME FilesInv, NEW c \in FileCallers, FT!fillsTemp(c) PROVE FilesInv'
<1>1. fcall[c].pc = "fill" /\ UNCHANGED <<file, dirs, limit, composed, overlapped, sharedTemp>>
  BY DEF FT!fillsTemp, FT!KeepNotes
<1>2. /\ Changing(c) /\ FT!Target(c) \in FT!FilePaths /\ fcall[c].text \in composed[FT!Target(c)]
      /\ DOMAIN fcall[c] = CallFields /\ fcall[c].arg \in FileArgs
      /\ fcall[c].pc \in Composing /\ fcall[c].pc # "none"
  BY <1>1, ComposingFacts DEF Composing
<1>3. ASSUME \A n \in DOMAIN temp : n # fcall[c].name => n \in DOMAIN temp' /\ temp'[n] = temp[n],
             DOMAIN temp' \subseteq DOMAIN temp
      PROVE  TempsKept(c) /\ \A n \in DOMAIN temp' : n[1] \in FT!FilePaths
  BY <1>1, <1>2, <1>3, TempsKeptBy DEF FilesInv, FileTypes
<1>4. CASE FT!ReturnsError(c) /\ (UNCHANGED temp \/ temp' = FT!Without(fcall[c].name))
  <2>1. /\ \A n \in DOMAIN temp : n # fcall[c].name => n \in DOMAIN temp' /\ temp'[n] = temp[n]
        /\ DOMAIN temp' \subseteq DOMAIN temp
    BY <1>4 DEF FT!Without
  <2>2. TempsKept(c) /\ \A n \in DOMAIN temp' : n[1] \in FT!FilePaths
    BY <1>3, <2>1
  <2> QED
    BY <1>1, <1>2, <1>4, <2>2, ErrorKeeps DEF FT!ReturnsError, FilesInv, FileTypes
<1>5. CASE /\ fcall' = [fcall EXCEPT ![c].pc = "rename"]
           /\ temp' = [n \in DOMAIN temp |-> IF n = fcall[c].name THEN fcall[c].text ELSE temp[n]]
  <2>1. /\ OthersStay(c) /\ DOMAIN fcall'[c] = CallFields /\ fcall'[c].pc = "rename"
        /\ fcall'[c].arg = fcall[c].arg /\ fcall'[c].text = fcall[c].text
        /\ fcall'[c].name = fcall[c].name /\ fcall'[c].was = fcall[c].was
    BY <1>2, <1>5, PcSetTo
  <2>2. /\ \A n \in DOMAIN temp : n # fcall[c].name => n \in DOMAIN temp' /\ temp'[n] = temp[n]
        /\ DOMAIN temp' \subseteq DOMAIN temp
        /\ fcall[c].name \in DOMAIN temp => temp'[fcall[c].name] = fcall[c].text
        /\ DOMAIN temp' = DOMAIN temp
    BY <1>5
  <2>3. TempsKept(c) /\ \A n \in DOMAIN temp' : n[1] \in FT!FilePaths
    BY <1>3, <2>2
  <2>4. FT!Target(c) \notin sharedTemp' \/ c \notin overlapped => fcall[c].name \in DOMAIN temp
    BY <1>1 DEF FilesInv, TempOwn, Alone
  <2>5. IF fcall[c].arg.tool = "edit" THEN \E t \in Ticks : fcall'[c].name = FT!editTemp(c, t)
                                     ELSE fcall'[c].name = FT!tempSibling(c)
    BY <1>2, <2>1, NotNone DEF CallTyped, FT!NoFileCall
  <2>6. dirs' \subseteq {".", "d"} /\ fcall'[c].pc \in Composing /\ DOMAIN composed' = FT!FilePaths
    BY <1>1, <2>1 DEF FilesInv, FileTypes, Composing
  <2>7. \A o \in FileCallers \ {c} : fcall[o].pc \in {"fill", "rename"} /\ fcall'[c].name = fcall[o].name
                                     => FT!Target(c) \in sharedTemp' /\ FT!Target(o) \in sharedTemp'
    BY <1>1, <2>1 DEF FilesInv, SharingSeen
  <2> QED
    BY <1>1, <1>2, <2>1, <2>2, <2>3, <2>4, <2>5, <2>6, <2>7, CallMoves
<1> QED
  BY <1>4, <1>5 DEF FT!fillsTemp

LEMMA RenameKeepsFiles == ASSUME FilesInv, NEW c \in FileCallers, FT!renames(c) PROVE FilesInv'
<1>1. fcall[c].pc = "rename" /\ UNCHANGED <<dirs, limit, composed, overlapped, sharedTemp>>
  BY DEF FT!renames, FT!KeepNotes
<1>2. /\ Changing(c) /\ FT!Target(c) \in FT!FilePaths /\ fcall[c].text \in composed[FT!Target(c)]
      /\ DOMAIN fcall[c] = CallFields /\ fcall[c].arg \in FileArgs
      /\ fcall[c].pc \in Composing /\ fcall[c].pc # "none"
  BY <1>1, ComposingFacts DEF Composing
<1>3. temp' = temp \/ temp' = FT!Without(fcall[c].name)
  BY DEF FT!renames
<1>4. /\ \A n \in DOMAIN temp : n # fcall[c].name => n \in DOMAIN temp' /\ temp'[n] = temp[n]
      /\ DOMAIN temp' \subseteq DOMAIN temp
  BY <1>3 DEF FT!Without
<1>5. TempsKept(c) /\ \A n \in DOMAIN temp' : n[1] \in FT!FilePaths
  BY <1>1, <1>2, <1>4, TempsKeptBy DEF FilesInv, FileTypes
<1>6. CASE FT!renameFails(c) /\ UNCHANGED file
  BY <1>1, <1>2, <1>5, <1>6, ErrorKeeps DEF FT!renameFails, FT!ReturnsError, FilesInv, FileTypes
<1>7. CASE FT!ReturnsOk(c) /\ file' = [file EXCEPT ![FT!Target(c)] = temp[fcall[c].name]]
  <2>1. /\ OthersStay(c) /\ DOMAIN fcall'[c] = CallFields /\ fcall'[c].pc = "ok"
        /\ fcall'[c].arg = fcall[c].arg
    BY <1>2, <1>7, PcSetTo DEF FT!ReturnsOk
  <2>2. FT!Target(c) \notin sharedTemp => temp[fcall[c].name] = fcall[c].text
    BY <1>1 DEF FilesInv, TempOwn, Alone
  <2>3. DOMAIN file' = FT!FilePaths /\ dirs' \subseteq {".", "d"}
    BY <1>1, <1>7 DEF FilesInv, FileTypes
  <2>4. \A p \in FT!FilePaths : \/ file'[p] = file[p]
                                \/ p = FT!Target(c) /\ Changing(c) /\ (file'[p] \in composed[p] \/ p \in sharedTemp)
    BY <1>2, <1>7, <2>2 DEF FilesInv, FileTypes
  <2> QED
    BY <1>1, <1>2, <1>5, <2>1, <2>3, <2>4, CallEnds
<1> QED
  BY <1>6, <1>7 DEF FT!renames

LEMMA LooksKeeps == ASSUME FilesInv, NEW c \in FileCallers, FT!reads(c) \/ FT!walks(c) PROVE FilesInv'
<1>1. /\ UNCHANGED <<file, dirs, temp, limit, composed, overlapped, sharedTemp>>
      /\ fcall[c].pc \in {"read", "list"}
  BY DEF FT!reads, FT!walks, FT!KeepFiles, FT!KeepNotes
<1>2. DOMAIN fcall[c] = CallFields /\ fcall[c].arg \in FileArgs /\ DOMAIN fcall = FileCallers
  BY <1>1, NotNone
<1>3. TempsKept(c) /\ \A n \in DOMAIN temp' : n[1] \in FT!FilePaths
  BY <1>1, TempsStay
<1>4. CASE FT!ReturnsError(c)
  BY <1>1, <1>3, <1>4, ErrorKeeps DEF FT!ReturnsError, FilesInv, FileTypes
<1>5. ASSUME NEW found, fcall' = [fcall EXCEPT ![c].pc = "ok", ![c].text = found] PROVE FilesInv'
  <2>1. PICK rec : rec = [fcall[c] EXCEPT !.pc = "ok", !.text = found]
    OBVIOUS
  <2>2. DOMAIN rec = CallFields /\ rec.pc = "ok" /\ rec.arg = fcall[c].arg
    BY <1>2, <2>1 DEF CallFields
  <2>3. fcall' = [fcall EXCEPT ![c] = rec]
    BY <1>5, <2>1
  <2>4. fcall'[c] = rec /\ OthersStay(c)
    BY <1>2, <2>3 DEF OthersStay
  <2>5. DOMAIN file' = FT!FilePaths /\ dirs' \subseteq {".", "d"} /\ \A p \in FT!FilePaths : file'[p] = file[p]
    BY <1>1 DEF FilesInv, FileTypes
  <2> QED
    BY <1>1, <1>2, <1>3, <2>2, <2>4, <2>5, CallEnds
<1> QED
  BY <1>4, <1>5 DEF FT!reads, FT!walks

LEMMA SetStateKeeps == ASSUME FilesInv, NEW l \in Limits, FT!setState(l) PROVE FilesInv'
<1>1. limit' \in Limits /\ UNCHANGED <<file, dirs, temp, fcall, composed, overlapped, sharedTemp>>
  BY DEF FT!setState
<1>2. FileTypes'
  BY <1>1 DEF FilesInv, FileTypes, CallTyped, FT!InFlight, FT!Changes, FT!Target, FT!NoFileCall, FT!editTemp,
     FT!tempSibling, FT!FilePaths
<1>3. FT!FilesAreWhole' /\ TempOwn' /\ SharingSeen' /\ OverlapSeen' /\ StillWas'
  BY <1>1 DEF FilesInv, FT!FilesAreWhole, TempOwn, SharingSeen, OverlapSeen, StillWas, Alone, Changing,
     FT!InFlight, FT!Changes, FT!Target, FT!FilePaths
<1> QED
  BY <1>2, <1>3 DEF FilesInv

LEMMA CallKeeps == ASSUME FilesInv, NEW c \in FileCallers, NEW a \in FileArgs, FT!call(c, a) PROVE FilesInv'
<1> DEFINE met == {x \in FileCallers \ {c} : /\ FT!InFlight(x) /\ FT!Changes(fcall[x].arg)
                                             /\ FT!Target(x) = a.path}
<1>1. PICK rec : rec = [pc |-> IF FT!Refused(a) THEN "failed" ELSE a.tool, arg |-> a, limit |-> limit,
                        was |-> IF a.path \in FT!FilePaths THEN file[a.path] ELSE FT!Missing,
                        text |-> <<>>, name |-> << >>]
  OBVIOUS
<1>2. /\ fcall[c].pc = "none" /\ fcall' = [fcall EXCEPT ![c] = rec]
      /\ UNCHANGED <<file, dirs, temp, limit, composed, sharedTemp>>
      /\ overlapped \subseteq overlapped'
      /\ FT!Changes(a) /\ ~FT!Refused(a) /\ met # {} => c \in overlapped' /\ met \subseteq overlapped'
  BY <1>1 DEF FT!call, FT!KeepFiles
<1>3. DOMAIN fcall = FileCallers
  BY DEF FilesInv, FileTypes
<1>4. fcall'[c] = rec /\ OthersStay(c)
  BY <1>2, <1>3 DEF OthersStay
<1>5. /\ DOMAIN rec = CallFields /\ rec.arg = a /\ rec.pc = IF FT!Refused(a) THEN "failed" ELSE a.tool
      /\ a.path \in FT!FilePaths => rec.was = file[a.path]
  BY <1>1 DEF CallFields
<1>6. a.tool \in {"edit", "write", "read", "list"} /\ (FT!Changes(a) => a.path \in FT!FilePaths \cup {"", "out"})
  BY FilesAssumption
<1>7. ~FT!Refused(a) /\ FT!Changes(a) => a.path \in FT!FilePaths
  BY <1>6 DEF FT!Refused, FT!toRelativePosix
<1>8. rec.pc \notin Composing /\ rec.pc \in CallPcs
  BY <1>5, <1>6 DEF Composing, CallPcs
<1>9. /\ FT!Target(c)' = a.path /\ (Changing(c)' <=> ~FT!Refused(a) /\ FT!Changes(a))
      /\ \A o \in FileCallers \ {c} : fcall'[o] = fcall[o] /\ FT!Target(o)' = FT!Target(o) /\ Changing(o)' = Changing(o)
  <2>1. FT!Target(c)' = a.path
    BY <1>4, <1>5 DEF FT!Target
  <2>2. FT!InFlight(c)' <=> ~FT!Refused(a)
    BY <1>4, <1>5, <1>6 DEF FT!InFlight
  <2>3. Changing(c)' <=> ~FT!Refused(a) /\ FT!Changes(a)
    BY <1>4, <1>5, <2>2 DEF Changing, FT!Changes
  <2>4. ASSUME NEW o \in FileCallers \ {c}
        PROVE  fcall'[o] = fcall[o] /\ FT!Target(o)' = FT!Target(o) /\ Changing(o)' = Changing(o)
    <3>1. fcall'[o] = fcall[o]
      BY <1>4 DEF OthersStay
    <3> QED
      BY <3>1 DEF FT!Target, Changing, FT!InFlight, FT!Changes
  <2> QED
    BY <2>1, <2>3, <2>4
<1>10. ASSUME NEW o \in FileCallers PROVE CallTyped(o)'
  <2>1. CASE o = c
    <3>1. FT!InFlight(c)' /\ FT!Changes(fcall'[c].arg) => FT!Target(c)' \in FT!FilePaths
      BY <1>4, <1>5, <1>7, <1>9 DEF Changing, FT!Changes
    <3>2. fcall'[c].pc \in {"edit", "write", "read", "list"} => fcall'[c].arg.tool = fcall'[c].pc
      BY <1>4, <1>5
    <3> QED
      BY <1>4, <1>5, <1>8, <2>1, <3>1, <3>2 DEF CallTyped, FT!Changes, FT!FilePaths
  <2>2. CASE o # c
    <3>1. fcall'[o] = fcall[o] /\ CallTyped(o)
      BY <1>9, <2>2 DEF FilesInv, FileTypes
    <3> QED
      BY <1>2, <3>1 DEF CallTyped, FT!InFlight, FT!Changes, FT!Target, FT!NoFileCall, FT!editTemp, FT!tempSibling, FT!FilePaths
  <2> QED
    BY <2>1, <2>2
<1>11. FileTypes'
  BY <1>2, <1>4, <1>10 DEF FilesInv, FileTypes, OthersStay, FT!FilePaths
<1>12. FT!FilesAreWhole'
  BY <1>2 DEF FilesInv, FT!FilesAreWhole, FT!FilePaths
<1>13. \A o \in FileCallers : fcall'[o].pc \in {"fill", "rename"} => o # c
  BY <1>4, <1>8 DEF Composing
<1>14. TempOwn'
  BY <1>2, <1>9, <1>13 DEF FilesInv, TempOwn, Alone
<1>15. SharingSeen'
  BY <1>2, <1>9, <1>13 DEF FilesInv, SharingSeen
<1>16. OverlapSeen'
  <2> SUFFICES ASSUME NEW x \in FileCallers, NEW o \in FileCallers, x # o, Changing(x)', Changing(o)',
                      FT!Target(x)' = FT!Target(o)'
               PROVE  x \in overlapped'
    BY DEF OverlapSeen
  <2>1. CASE x = c
    <3>1. o \in met
      BY <1>9, <2>1 DEF Changing
    <3> QED
      BY <1>2, <1>9, <2>1, <3>1
  <2>2. CASE o = c
    <3>1. x \in met
      BY <1>9, <2>2 DEF Changing
    <3> QED
      BY <1>2, <1>9, <2>2, <3>1
  <2>3. CASE x # c /\ o # c
    BY <1>2, <1>9, <2>3 DEF FilesInv, OverlapSeen
  <2> QED
    BY <2>1, <2>2, <2>3
<1>17. StillWas'
  <2> SUFFICES ASSUME NEW o \in FileCallers, Changing(o)', o \notin overlapped'
               PROVE  file'[FT!Target(o)'] = fcall'[o].was
    BY DEF StillWas
  <2>1. CASE o = c
    BY <1>2, <1>4, <1>5, <1>7, <1>9, <2>1
  <2>2. CASE o # c
    BY <1>2, <1>9, <2>2 DEF FilesInv, StillWas
  <2> QED
    BY <2>1, <2>2
<1> QED
  BY <1>11, <1>12, <1>14, <1>15, <1>16, <1>17 DEF FilesInv

LEMMA FilesStep == FilesInv /\ [FT!FTNext]_toolVars => FilesInv'
<1> SUFFICES ASSUME FilesInv, [FT!FTNext]_toolVars PROVE FilesInv'
  OBVIOUS
<1>1. CASE UNCHANGED toolVars
  <2>1. UNCHANGED <<file, dirs, temp, fcall, limit, composed, overlapped, sharedTemp>>
    BY <1>1 DEF toolVars
  <2>2. FileTypes'
    BY <2>1 DEF FilesInv, FileTypes, CallTyped, FT!InFlight, FT!Changes, FT!Target, FT!NoFileCall, FT!editTemp,
       FT!tempSibling, FT!FilePaths
  <2>3. FT!FilesAreWhole' /\ TempOwn' /\ SharingSeen' /\ OverlapSeen' /\ StillWas'
    BY <2>1 DEF FilesInv, FT!FilesAreWhole, TempOwn, SharingSeen, OverlapSeen, StillWas, Alone, Changing,
       FT!InFlight, FT!Changes, FT!Target, FT!FilePaths
  <2> QED
    BY <2>2, <2>3 DEF FilesInv
<1>2. ASSUME NEW c \in FileCallers, FT!FileStep(c) PROVE FilesInv'
  BY <1>2, EditReadsKeeps, WritePreparesKeeps, OpensTempKeeps, FillsTempKeeps, RenameKeepsFiles, LooksKeeps
     DEF FT!FileStep
<1> QED
  BY <1>1, <1>2, CallKeeps, SetStateKeeps DEF FT!FTNext

(* What the last step of a call leaves of its file.                        *)
LEMMA ReportsStep ==
  ASSUME FilesInv, [FT!FTNext]_toolVars
  PROVE  [\A c \in FileCallers :
            FT!InFlight(c) /\ fcall'[c].pc \in {"ok", "failed"}
            /\ FT!Changes(fcall[c].arg) /\ c \notin overlapped
            => file'[FT!Target(c)] = IF fcall'[c].pc = "ok" THEN fcall[c].text
                                                            ELSE fcall[c].was]_toolVars
<1> SUFFICES ASSUME FT!FTNext, NEW c \in FileCallers, Changing(c), fcall'[c].pc \in {"ok", "failed"}, c \notin overlapped
             PROVE  file'[FT!Target(c)] = IF fcall'[c].pc = "ok" THEN fcall[c].text ELSE fcall[c].was
  BY DEF Changing, toolVars
<1>1. file[FT!Target(c)] = fcall[c].was
  BY DEF FilesInv, StillWas
<1>2. fcall[c].pc \notin {"none", "ok", "failed"}
  BY DEF Changing, FT!InFlight
<1>3. DOMAIN fcall = FileCallers /\ DOMAIN fcall[c] = CallFields /\ DOMAIN file = FT!FilePaths
  BY <1>2, NotNone DEF FilesInv, FileTypes
<1>4. ASSUME NEW o \in FileCallers, NEW pc, fcall' = [fcall EXCEPT ![o].pc = pc] PROVE o = c /\ fcall'[c].pc = pc
  <2>1. o = c
    BY <1>2, <1>3, <1>4
  <2> QED
    BY <1>2, <1>4, <2>1, PcSetTo
<1>5. ASSUME NEW o \in FileCallers, NEW a \in FileArgs, FT!call(o, a) PROVE FALSE
  BY <1>2, <1>3, <1>5 DEF FT!call
<1>6. ASSUME NEW l \in Limits, FT!setState(l) PROVE FALSE
  BY <1>2, <1>6 DEF FT!setState
<1>7. ASSUME UNCHANGED file, fcall'[c].pc = "failed" PROVE file'[FT!Target(c)] = fcall[c].was
  BY <1>1, <1>7
<1>8. ASSUME NEW o \in FileCallers, FT!editReads(o) PROVE UNCHANGED file /\ fcall'[c].pc = "failed"
  <2>1. UNCHANGED file
    BY <1>8 DEF FT!editReads, FT!KeepFiles
  <2>2. CASE FT!ReturnsError(o)
    BY <1>4, <2>1, <2>2 DEF FT!ReturnsError
  <2>3. ASSUME NEW new, NEW name,
               fcall' = [fcall EXCEPT ![o].pc = "open", ![o].text = new, ![o].name = name]
        PROVE  FALSE
    <3>1. o # c => fcall'[c] = fcall[c]
      BY <1>3, <2>3
    <3>2. o = c => fcall'[c].pc = "open"
      BY <1>3, <2>3 DEF CallFields
    <3> QED
      BY <1>2, <3>1, <3>2
  <2> QED
    BY <1>8, <2>1, <2>2, <2>3 DEF FT!editReads
<1>9. ASSUME NEW o \in FileCallers, FT!writePrepares(o) PROVE UNCHANGED file /\ fcall'[c].pc = "failed"
  <2>1. UNCHANGED file
    BY <1>9 DEF FT!writePrepares
  <2>2. CASE FT!ReturnsError(o)
    BY <1>4, <2>1, <2>2 DEF FT!ReturnsError
  <2>3. ASSUME NEW new, NEW name,
               fcall' = [fcall EXCEPT ![o].pc = "open", ![o].text = new, ![o].name = name]
        PROVE  FALSE
    <3>1. o # c => fcall'[c] = fcall[c]
      BY <1>3, <2>3
    <3>2. o = c => fcall'[c].pc = "open"
      BY <1>3, <2>3 DEF CallFields
    <3> QED
      BY <1>2, <3>1, <3>2
  <2> QED
    BY <1>9, <2>1, <2>2, <2>3 DEF FT!writePrepares
<1>10. ASSUME NEW o \in FileCallers, FT!opensTemp(o) \/ FT!fillsTemp(o)
       PROVE  UNCHANGED file /\ fcall'[c].pc = "failed"
  <2>1. UNCHANGED file /\ \E pc \in {"failed", "fill", "rename"} : fcall' = [fcall EXCEPT ![o].pc = pc]
    BY <1>10 DEF FT!opensTemp, FT!fillsTemp, FT!ReturnsError
  <2> QED
    BY <1>4, <2>1
<1>11. ASSUME NEW o \in FileCallers, FT!reads(o) \/ FT!walks(o)
       PROVE  FALSE
  <2>1. fcall[o].pc \in {"read", "list"} /\ o # c
    <3>1. fcall[o].pc \in {"read", "list"}
      BY <1>11 DEF FT!reads, FT!walks
    <3>2. fcall[o].arg.tool \in {"read", "list"}
      BY <3>1, NotNone
    <3> QED
      BY <3>1, <3>2 DEF Changing, FT!Changes
  <2>2. \/ FT!ReturnsError(o)
        \/ \E found : fcall' = [fcall EXCEPT ![o].pc = "ok", ![o].text = found]
    BY <1>11 DEF FT!reads, FT!walks
  <2>3. fcall'[c] = fcall[c]
    BY <1>3, <2>1, <2>2 DEF FT!ReturnsError
  <2> QED
    BY <1>2, <2>3
<1>12. ASSUME NEW o \in FileCallers, FT!renames(o)
       PROVE  file'[FT!Target(c)] = IF fcall'[c].pc = "ok" THEN fcall[c].text ELSE fcall[c].was
  <2>1. CASE FT!renameFails(o) /\ UNCHANGED file
    BY <1>1, <1>4, <2>1 DEF FT!renameFails, FT!ReturnsError
  <2>2. CASE FT!ReturnsOk(o) /\ file' = [file EXCEPT ![FT!Target(o)] = temp[fcall[o].name]]
    <3>1. o = c /\ fcall'[c].pc = "ok"
      BY <1>4, <2>2 DEF FT!ReturnsOk
    <3>2. fcall[c].pc = "rename" /\ fcall[c].pc \in Composing
      BY <1>12, <3>1 DEF FT!renames, Composing
    <3>3. temp[fcall[c].name] = fcall[c].text
      BY <3>2 DEF FilesInv, TempOwn, Alone
    <3>4. FT!Target(c) \in FT!FilePaths
      BY <3>2, ComposingFacts
    <3> QED
      BY <1>3, <2>2, <3>1, <3>3, <3>4
  <2> QED
    BY <1>12, <2>1, <2>2 DEF FT!renames
<1> QED
  BY <1>5, <1>6, <1>7, <1>8, <1>9, <1>10, <1>11, <1>12 DEF FT!FTNext, FT!FileStep

-----------------------------------------------------------------------------
(***************************************************************************)
(* A step of the whole is, for each part, one of its steps or none.        *)
(***************************************************************************)
LEMMA PartsStart ==
  MCInit => /\ PS!PSInit /\ SA!SAInit /\ TSC!TSCInit /\ AT!ATInit /\ SS!SSInit /\ FT!FTInit
BY DEF MCInit

LEMMA PartsStep ==
  [MCNext]_allVars =>
    /\ [PS!PSNext]_streamVars /\ [SA!SANext]_saVars /\ [TSC!TSCNext]_scopeVars
    /\ [AT!ATNext]_trailVars /\ [SS!SSNext]_stateVars /\ [FT!FTNext]_toolVars
<1>1. CASE MCNext
  BY <1>1 DEF MCNext
<1>2. CASE UNCHANGED allVars
  BY <1>2 DEF allVars
<1> QED
  BY <1>1, <1>2

LEMMA GrantsAlways == MCSpec => []GrantsInv
<1>1. MCInit => GrantsInv
  BY PartsStart, GrantsInit
<1>2. GrantsInv /\ [MCNext]_allVars => GrantsInv'
  BY PartsStep, GrantsStep
<1> QED
  BY <1>1, <1>2, PTL DEF MCSpec

LEMMA ScopesAlways == MCSpec => [](ScopesInv /\ TurnsInv)
<1>1. MCInit => ScopesInv /\ TurnsInv
  BY PartsStart, ScopesInit
<1>2. ScopesInv /\ TurnsInv /\ [MCNext]_allVars => (ScopesInv /\ TurnsInv)'
  BY PartsStep, ScopesStep
<1> QED
  BY <1>1, <1>2, PTL DEF MCSpec

LEMMA MessageAlways == MCSpec => []MessageInv
<1>1. MCInit => MessageInv
  BY PartsStart, MessageInit
<1>2. MessageInv /\ [MCNext]_allVars => MessageInv'
  BY PartsStep, MessageStep
<1> QED
  BY <1>1, <1>2, PTL DEF MCSpec

LEMMA TrailAlways == MCSpec => []TrailInv
<1>1. MCInit => TrailInv
  BY PartsStart, TrailInit
<1>2. TrailInv /\ [MCNext]_allVars => TrailInv'
  BY PartsStep, TrailStep
<1> QED
  BY <1>1, <1>2, PTL DEF MCSpec

LEMMA FateAlways == MCSpec => []FateInv
<1>1. MCInit => FateInv
  BY PartsStart, FateInit
<1>2. TrailInv /\ TrailInv' /\ FateInv /\ [MCNext]_allVars => FateInv'
  BY PartsStep, FateStep
<1> QED
  BY <1>1, <1>2, TrailAlways, PTL DEF MCSpec

LEMMA SessionsAlways == MCSpec => []SessionsInv
<1>1. MCInit => SessionsInv
  BY PartsStart, SessionsInit
<1>2. SessionsInv /\ [MCNext]_allVars => SessionsInv'
  BY PartsStep, SessionsStep
<1> QED
  BY <1>1, <1>2, PTL DEF MCSpec

LEMMA FilesAlways == MCSpec => []FilesInv
<1>1. MCInit => FilesInv
  BY PartsStart, FilesInit
<1>2. FilesInv /\ [MCNext]_allVars => FilesInv'
  BY PartsStep, FilesStep
<1> QED
  BY <1>1, <1>2, PTL DEF MCSpec

(***************************************************************************)
(* A grant ends with its stage, an abort reaches every scope below, and    *)
(* turns start in the order they were asked for.                           *)
(***************************************************************************)
THEOREM SessionScoped == MCSpec => []NothingOutlivesItsScope
<1>1. GrantsInv /\ ScopesInv /\ TurnsInv => NothingOutlivesItsScope
  BY AbortsReach, TurnsOrdered DEF GrantsInv, NothingOutlivesItsScope
<1> QED
  BY <1>1, GrantsAlways, ScopesAlways, PTL

(***************************************************************************)
(* Whatever overlaps or fails: an audit record the logger took is in a log *)
(* or a rotated file, or retention removed it there; one whose append was  *)
(* rejected is, too, unless the writer it was given to had been closed or  *)
(* had lost its stream.  A session goes on only from a snapshot of its own *)
(* store, and a file no two edits replaced through one temporary name      *)
(* never holds half a text.                                                *)
(***************************************************************************)
THEOREM RecordsKept == MCSpec => []NothingIsLostOrMixed
<1>1. TrailInv /\ FateInv /\ SessionsInv /\ FilesInv => NothingIsLostOrMixed
  BY TrailKept, SessionsOwn DEF FilesInv, NothingIsLostOrMixed
<1> QED
  BY <1>1, TrailAlways, FateAlways, SessionsAlways, FilesAlways, PTL

(***************************************************************************)
(* Retention removes a rotated file only while newer ones are kept, a      *)
(* session resumes from the snapshot last acknowledged or a later one, a   *)
(* file tool's result agrees with the file when no other call overlapped   *)
(* its own, and no delta goes before a part that was there.                *)
(***************************************************************************)
THEOREM StepsKept == MCSpec => StepsKeepTheirWord
<1>1. TrailInv /\ [MCNext]_allVars =>
        [\A x \in rotated \ rotated' :
            \/ \E y \in rotated' : y.at = x.at
            \/ AT!Cardinality({y \in rotated : y.at > x.at}) >= MaxRotatedFiles]_rotated
  BY PartsStep, RetentionStep
<1>2. SessionsInv /\ [MCNext]_allVars =>
        [resume.pc = "none" /\ resume'.pc # "none" => resume'.m \in {acked} \cup unsure]_resume
  BY PartsStep, ResumesStep
<1>3. FilesInv /\ [MCNext]_allVars =>
        [\A c \in FileCallers :
            FT!InFlight(c) /\ fcall'[c].pc \in {"ok", "failed"}
            /\ FT!Changes(fcall[c].arg) /\ c \notin overlapped
            => file'[FT!Target(c)] = IF fcall'[c].pc = "ok" THEN fcall[c].text
                                                            ELSE fcall[c].was]_(FT!fileVars)
  <2>1. FT!fileVars = toolVars /\ FT!fileVars' = toolVars'
    BY DEF FT!fileVars, toolVars
  <2> QED
    BY <2>1, PartsStep, ReportsStep
<1>4. MessageInv /\ [MCNext]_allVars =>
        [acc'.at = "streaming" /\ acc.at = "streaming" =>
           /\ Len(acc'.parts) >= Len(acc.parts)
           /\ \A i \in 1..(Len(acc.parts) - 1) : acc'.parts[i] = acc.parts[i]]_acc
  BY PartsStep, MessageStep DEF Grows
<1>5. MCSpec => AT!RetentionKeepsNewest
  BY <1>1, TrailAlways, PTL DEF MCSpec, AT!RetentionKeepsNewest
<1>6. MCSpec => SS!ResumesFromLastSnapshot
  BY <1>2, SessionsAlways, PTL DEF MCSpec, SS!ResumesFromLastSnapshot
<1>7. MCSpec => FT!ReportsAgree
  BY <1>3, FilesAlways, PTL DEF MCSpec, FT!ReportsAgree
<1>8. MCSpec => PS!PartsOnlyGrow
  BY <1>4, MessageAlways, PTL DEF MCSpec, PS!PartsOnlyGrow
<1> QED
  BY <1>5, <1>6, <1>7, <1>8 DEF StepsKeepTheirWord
=============================================================================
