------------------------ MODULE ProviderSessionProofs ------------------------
(***************************************************************************)
(* A session with any tools, envelopes, depth and number of children: its  *)
(* state keeps its types, the log, the registries and the running sessions *)
(* agree on every child, and what runs was approved for the session it     *)
(* runs in.                                                                *)
(***************************************************************************)
EXTENDS ProviderSession, FiniteSetTheorems, WellFoundedInduction, TLAPS

Kinds == {"EnvelopeApproved", "EnvelopeDenied", "Spawned", "Escalated"} \cup Terminals

Record == [who : Children, kind : Kinds]

FrameType == [who : Who, depth : 0..MaxDepth, env : Envelopes \cup {{}}, at : Places,
              round : 0..MaxRounds - 1, todo : Seq(Calls)]

(***************************************************************************)
(* What the log a says of child c.                                         *)
(***************************************************************************)
Has(a, c, k) == \E i \in 1..Len(a) : a[i].who = c /\ a[i].kind = k

Open(a, c) == Has(a, c, "Spawned") /\ \A k \in Terminals : ~Has(a, c, k)

Blank(a, c) == \A i \in 1..Len(a) : a[i].who # c

(***************************************************************************)
(* The log tells one story of each child: its records but the escalations  *)
(* are there once, the decision comes first, a terminal record last.       *)
(***************************************************************************)
Decisions == {"EnvelopeApproved", "EnvelopeDenied"}

Once(k, l) == \/ k \in Decisions /\ l \in Decisions
              \/ k = "Spawned" /\ l = "Spawned"
              \/ k \in Terminals /\ l \in Terminals

Before(a, i, k) == \E d \in 1..(i - 1) : a[d].who = a[i].who /\ a[d].kind = k

Story(a) ==
  /\ \A i, j \in 1..Len(a) : a[i].who = a[j].who /\ Once(a[i].kind, a[j].kind) => i = j
  /\ \A i, j \in 1..Len(a) :
       a[i].who = a[j].who /\ a[i].kind \in Terminals /\ a[j].kind \notin Decisions => j <= i
  /\ \A i \in 1..Len(a) : a[i].kind \notin Decisions => Before(a, i, "EnvelopeApproved")
  /\ \A i \in 1..Len(a) : a[i].kind \in Terminals => Before(a, i, "Spawned")

(***************************************************************************)
(* A session under way: its place on the stack, what it may run, and what  *)
(* the log says of it.                                                     *)
(***************************************************************************)
Placed(f, i, n) ==
  /\ f.who = Root <=> i = 1
  /\ f.depth = i - 1
  /\ f.at = "child" <=> i < n
  /\ f.at \in {"approve", "exec", "child"} => f.todo # << >>
  /\ f.who = Root => f.env = {} /\ f.at # "envelope"

Agreed(f, g, t) ==
  t = "ask" =>
    /\ f.at \in {"exec", "child"} /\ Head(f.todo).tool \in Gated \cup {Delegate}
         => <<f.who, Head(f.todo)>> \in g
    /\ f.at # "envelope" => \A k \in Calls : k.tool \in f.env => <<f.who, k>> \in g

Logged(f, a) ==
  /\ f.who # Root /\ f.at = "envelope" => Blank(a, f.who)
  /\ f.who # Root /\ f.at # "envelope" => Open(a, f.who)

OnStackOf(s) == {s[i].who : i \in 1..Len(s)} \ {Root}

(***************************************************************************)
(* A delegate call that was let through still has a child to open.         *)
(***************************************************************************)
MayDelegate(f, s, a) ==
  f.at \in {"approve", "exec"} /\ Head(f.todo).tool = Delegate
    => f.depth < MaxDepth /\ \E c \in Children : c \notin OnStackOf(s) /\ Blank(a, c)

StackInv(s, g, a, t) ==
  /\ s \in Seq(FrameType)
  /\ \A i \in 1..Len(s) : Placed(s[i], i, Len(s)) /\ Agreed(s[i], g, t) /\ Logged(s[i], a)
  /\ \A i, j \in 1..Len(s) : s[i].who = s[j].who => i = j
  /\ s # << >> => MayDelegate(s[Len(s)], s, a)

CacheInv ==
  /\ cache \in [Who -> SUBSET Calls]
  /\ trust = "ask" => \A w \in Who : \A k \in cache[w] : <<w, k>> \in granted

CountsInv ==
  /\ headless \in BOOLEAN /\ trust \in {"ask", "mode-yolo", "yolo"}
  /\ loop \in {"next", "waiting", "turn", "teardown", "closed", "down"} /\ aborted \in BOOLEAN
  /\ lines \in 0..MaxLines /\ typed \in 0..lines /\ resumes \in 0..MaxResumes

LogInv ==
  /\ audit \in Seq(Record) /\ Story(audit)
  /\ written \in 0..Len(audit)

AgreeInv ==
  /\ loop = "turn" <=> stack # << >>
  /\ registered = OnStackOf(stack) /\ known = OnStackOf(stack)

CoreInv == LogInv /\ CacheInv /\ StackInv(stack, granted, audit, trust) /\ AgreeInv

SessionInv == CountsInv /\ CoreInv

-----------------------------------------------------------------------------
(***************************************************************************)
(* 1. Sequences.                                                           *)
(***************************************************************************)
LEMMA SeqPrefix ==
  ASSUME NEW S, NEW s \in Seq(S), NEW n \in 1..Len(s)
  PROVE  /\ SubSeq(s, 1, n - 1) \in Seq(S) /\ Len(SubSeq(s, 1, n - 1)) = n - 1
         /\ \A i \in 1..(n - 1) : SubSeq(s, 1, n - 1)[i] = s[i]
  OBVIOUS

LEMMA SeqFront ==
  ASSUME NEW S, NEW s \in Seq(S), s # << >>
  PROVE  /\ Len(s) \in Nat /\ Len(s) >= 1
         /\ Front(s) \in Seq(S) /\ Len(Front(s)) = Len(s) - 1
         /\ \A i \in 1..(Len(s) - 1) : Front(s)[i] = s[i]
         /\ Last(s) = s[Len(s)] /\ Last(s) \in S
<1>1. Len(s) \in Nat /\ Len(s) >= 1 /\ s[Len(s)] \in S
  OBVIOUS
<1>2. /\ SubSeq(s, 1, Len(s) - 1) \in Seq(S) /\ Len(SubSeq(s, 1, Len(s) - 1)) = Len(s) - 1
      /\ \A i \in 1..(Len(s) - 1) : SubSeq(s, 1, Len(s) - 1)[i] = s[i]
  <2> DEFINE n == Len(s)
  <2>1. n \in 1..Len(s)
    BY <1>1
  <2> HIDE DEF n
  <2> QED
    BY <2>1, SeqPrefix DEF n
<1> QED
  BY <1>1, <1>2 DEF Front, Last

LEMMA SeqAppend ==
  ASSUME NEW S, NEW s \in Seq(S), NEW x \in S
  PROVE  /\ Append(s, x) \in Seq(S) /\ Len(Append(s, x)) = Len(s) + 1
         /\ Append(s, x)[Len(s) + 1] = x
         /\ \A i \in 1..Len(s) : Append(s, x)[i] = s[i]
  OBVIOUS

LEMMA SeqReplace ==
  ASSUME NEW S, NEW s \in Seq(S), s # << >>, NEW x \in S
  PROVE  /\ Append(Front(s), x) \in Seq(S) /\ Len(Append(Front(s), x)) = Len(s)
         /\ Append(Front(s), x)[Len(s)] = x
         /\ \A i \in 1..(Len(s) - 1) : Append(Front(s), x)[i] = s[i]
<1> DEFINE t == Front(s)
<1>1. /\ Len(s) \in Nat /\ Len(s) >= 1 /\ t \in Seq(S) /\ Len(t) = Len(s) - 1
      /\ \A i \in 1..(Len(s) - 1) : t[i] = s[i]
  BY SeqFront
<1> HIDE DEF t
<1> DEFINE u == Append(t, x)
<1>2. /\ u \in Seq(S) /\ Len(u) = Len(t) + 1 /\ u[Len(t) + 1] = x
      /\ \A i \in 1..Len(t) : u[i] = t[i]
  BY <1>1, SeqAppend
<1> HIDE DEF u
<1>3. /\ u \in Seq(S) /\ Len(u) = Len(s) /\ u[Len(s)] = x
      /\ \A i \in 1..(Len(s) - 1) : u[i] = s[i]
  BY <1>1, <1>2
<1> QED
  BY <1>3 DEF u, t

(***************************************************************************)
(* r is p with q behind it.                                                *)
(***************************************************************************)
Joins(p, q, r) == r = p \o q

LEMMA SeqConcat ==
  ASSUME NEW S, NEW p \in Seq(S), NEW q \in Seq(S), NEW r, Joins(p, q, r)
  PROVE  /\ r \in Seq(S) /\ Len(r) = Len(p) + Len(q)
         /\ \A j \in 1..Len(p) : r[j] = p[j]
         /\ \A j \in 1..Len(q) : r[Len(p) + j] = q[j]
<1>1. r \in Seq(S) /\ Len(r) = Len(p) + Len(q)
  BY DEF Joins
<1>2. \A j \in 1..Len(p) : r[j] = p[j]
  BY DEF Joins
<1>3. \A j \in 1..Len(q) : r[Len(p) + j] = q[j]
  BY DEF Joins
<1> QED
  BY <1>1, <1>2, <1>3

-----------------------------------------------------------------------------
(***************************************************************************)
(* 2. The log.  Records are added at its end.                              *)
(***************************************************************************)
Extends(a, b) ==
  /\ a \in Seq(Record) /\ b \in Seq(Record) /\ Len(a) <= Len(b)
  /\ \A i \in 1..Len(a) : b[i] = a[i]

(***************************************************************************)
(* The log says the same of child c.                                       *)
(***************************************************************************)
Alike(a, b, c) == (Open(a, c) <=> Open(b, c)) /\ (Blank(a, c) <=> Blank(b, c))

LEMMA OthersAlike ==
  ASSUME NEW a, NEW b, Extends(a, b), NEW c, \A i \in 1..Len(b) : i > Len(a) => b[i].who # c
  PROVE  Alike(a, b, c)
<1>1. \A k : Has(a, c, k) <=> Has(b, c, k)
  <2> TAKE k
  <2>1. Has(a, c, k) => Has(b, c, k)
    BY DEF Has, Extends
  <2>2. ASSUME Has(b, c, k) PROVE Has(a, c, k)
    <3>1. PICK i \in 1..Len(b) : b[i].who = c /\ b[i].kind = k
      BY <2>2 DEF Has
    <3>2. i \in 1..Len(a)
      BY <3>1 DEF Extends
    <3> QED
      BY <3>1, <3>2 DEF Has, Extends
  <2> QED
    BY <2>1, <2>2
<1>2. Blank(a, c) <=> Blank(b, c)
  BY DEF Blank, Extends
<1> QED
  BY <1>1, <1>2 DEF Alike, Open

(***************************************************************************)
(* An open child escalates or ends.                                        *)
(***************************************************************************)
LEMMA StoryGoesOn ==
  ASSUME NEW a, NEW b, Extends(a, b), Story(a),
         \A i \in 1..Len(b) : i > Len(a) => b[i].kind \in {"Escalated"} \cup Terminals /\ Open(a, b[i].who),
         \A i, j \in 1..Len(b) : i > Len(a) /\ j > Len(a) /\ b[i].who = b[j].who => i = j
  PROVE  Story(b)
<1> DEFINE N == 1..Len(a)
           M == 1..Len(b)
<1>0. /\ Len(a) \in Nat /\ Len(b) \in Nat /\ N \subseteq M
      /\ \A i \in M : i \in N \/ i > Len(a)
      /\ \A i \in N : b[i] = a[i]
  BY DEF Extends
<1>1. \A i \in M : i > Len(a) => b[i].kind \notin Decisions /\ b[i].kind # "Spawned"
  BY DEF Decisions, Terminals
<1>2. ASSUME NEW i \in N, NEW j \in M, j > Len(a), b[i].who = b[j].who
      PROVE  b[i].kind \notin Terminals
  <2>1. Open(a, b[j].who)
    BY <1>2
  <2> QED
    BY <1>0, <1>2, <2>1 DEF Open, Has
<1>3. \A i, j \in M : b[i].who = b[j].who /\ Once(b[i].kind, b[j].kind) => i = j
  <2> SUFFICES ASSUME NEW i \in M, NEW j \in M, b[i].who = b[j].who, Once(b[i].kind, b[j].kind) PROVE i = j
    OBVIOUS
  <2>1. CASE i \in N /\ j \in N
    BY <1>0, <2>1 DEF Story
  <2>2. CASE i \in N /\ j > Len(a)
    BY <1>1, <1>2, <2>2 DEF Once
  <2>3. CASE i > Len(a) /\ j \in N
    BY <1>1, <1>2, <2>3 DEF Once
  <2>4. CASE i > Len(a) /\ j > Len(a)
    BY <2>4
  <2> QED
    BY <1>0, <2>1, <2>2, <2>3, <2>4
<1>4. \A i, j \in M : b[i].who = b[j].who /\ b[i].kind \in Terminals /\ b[j].kind \notin Decisions => j <= i
  <2> SUFFICES ASSUME NEW i \in M, NEW j \in M, b[i].who = b[j].who, b[i].kind \in Terminals,
                      b[j].kind \notin Decisions
               PROVE j <= i
    OBVIOUS
  <2>1. CASE i \in N /\ j \in N
    BY <1>0, <2>1 DEF Story
  <2>2. CASE i \in N /\ j > Len(a)
    BY <1>2, <2>2
  <2>3. CASE i > Len(a) /\ j \in N
    BY <1>0, <2>3
  <2>4. CASE i > Len(a) /\ j > Len(a)
    BY <1>0, <2>4
  <2> QED
    BY <1>0, <2>1, <2>2, <2>3, <2>4
<1>5. \A i \in N : \A k : Before(a, i, k) => Before(b, i, k)
  <2> SUFFICES ASSUME NEW i \in N, NEW k, Before(a, i, k) PROVE Before(b, i, k)
    OBVIOUS
  <2>1. PICK d \in 1..(i - 1) : a[d].who = a[i].who /\ a[d].kind = k
    BY DEF Before
  <2>2. d \in N
    BY <1>0
  <2> QED
    BY <1>0, <2>1, <2>2 DEF Before
<1>6. ASSUME NEW i \in M, i > Len(a) PROVE Before(b, i, "EnvelopeApproved") /\ Before(b, i, "Spawned")
  <2>1. PICK d \in N : a[d].who = b[i].who /\ a[d].kind = "Spawned"
    BY <1>6 DEF Open, Has
  <2>2. "Spawned" \notin Decisions
    BY DEF Decisions
  <2>3. PICK e \in 1..(d - 1) : a[e].who = a[d].who /\ a[e].kind = "EnvelopeApproved"
    BY <2>1, <2>2 DEF Story, Before
  <2>4. d \in 1..(i - 1) /\ e \in 1..(i - 1) /\ e \in N
    BY <1>0, <1>6
  <2>5. b[d] = a[d] /\ b[e] = a[e]
    BY <1>0, <2>4
  <2> QED
    BY <2>1, <2>3, <2>4, <2>5 DEF Before
<1>7. \A i \in M : b[i].kind \notin Decisions => Before(b, i, "EnvelopeApproved")
  BY <1>0, <1>5, <1>6 DEF Story
<1>8. \A i \in M : b[i].kind \in Terminals => Before(b, i, "Spawned")
  BY <1>0, <1>5, <1>6 DEF Story
<1> QED
  BY <1>3, <1>4, <1>7, <1>8 DEF Story

(***************************************************************************)
(* The envelope of a child is decided: the first records of it.            *)
(***************************************************************************)
LEMMA StoryBegins ==
  ASSUME NEW a, NEW b, Extends(a, b), Story(a), NEW c, Blank(a, c),
         \A i \in 1..Len(b) : i > Len(a) => b[i].who = c,
         \/ Len(b) = Len(a) + 1 /\ b[Len(a) + 1].kind \in Decisions
         \/ /\ Len(b) = Len(a) + 2
            /\ b[Len(a) + 1].kind = "EnvelopeApproved" /\ b[Len(a) + 2].kind = "Spawned"
  PROVE  Story(b)
<1> DEFINE N == 1..Len(a)
           M == 1..Len(b)
<1>0. /\ Len(a) \in Nat /\ Len(b) \in Nat /\ N \subseteq M
      /\ \A i \in M : i \in N \/ i > Len(a)
      /\ \A i \in N : b[i] = a[i] /\ b[i].who # c
  BY DEF Extends, Blank
<1>1. /\ \A i \in M : i > Len(a) => i = Len(a) + 1 \/ i = Len(a) + 2
      /\ b[Len(a) + 1].kind \in Decisions
      /\ \A i \in M : i = Len(a) + 2 => b[i].kind = "Spawned" /\ b[Len(a) + 1].kind = "EnvelopeApproved"
                                     /\ Len(a) + 1 \in M
  BY <1>0 DEF Decisions
<1>2. /\ "Spawned" \notin Decisions /\ "Spawned" \notin Terminals
      /\ \A k \in Decisions : k \notin Terminals /\ k # "Spawned"
  BY DEF Decisions, Terminals
<1>3. \A i, j \in M : b[i].who = b[j].who /\ Once(b[i].kind, b[j].kind) => i = j
  <2> SUFFICES ASSUME NEW i \in M, NEW j \in M, b[i].who = b[j].who, Once(b[i].kind, b[j].kind) PROVE i = j
    OBVIOUS
  <2>1. CASE i \in N /\ j \in N
    BY <1>0, <2>1 DEF Story
  <2>2. CASE i > Len(a) /\ j > Len(a)
    BY <1>0, <1>1, <1>2, <2>2 DEF Once
  <2> QED
    BY <1>0, <2>1, <2>2
<1>4. \A i, j \in M : b[i].who = b[j].who /\ b[i].kind \in Terminals /\ b[j].kind \notin Decisions => j <= i
  <2> SUFFICES ASSUME NEW i \in M, NEW j \in M, b[i].who = b[j].who, b[i].kind \in Terminals,
                      b[j].kind \notin Decisions
               PROVE j <= i
    OBVIOUS
  <2>1. CASE i \in N /\ j \in N
    BY <1>0, <2>1 DEF Story
  <2>2. i \in N
    BY <1>0, <1>1, <1>2
  <2> QED
    BY <1>0, <2>1, <2>2
<1>5. \A i \in N : \A k : Before(a, i, k) => Before(b, i, k)
  <2> SUFFICES ASSUME NEW i \in N, NEW k, Before(a, i, k) PROVE Before(b, i, k)
    OBVIOUS
  <2>1. PICK d \in 1..(i - 1) : a[d].who = a[i].who /\ a[d].kind = k
    BY DEF Before
  <2>2. d \in N
    BY <1>0
  <2> QED
    BY <1>0, <2>1, <2>2 DEF Before
<1>6. \A i \in M : b[i].kind \notin Decisions => Before(b, i, "EnvelopeApproved")
  <2> SUFFICES ASSUME NEW i \in M, b[i].kind \notin Decisions PROVE Before(b, i, "EnvelopeApproved")
    OBVIOUS
  <2>1. CASE i \in N
    BY <1>0, <1>5, <2>1 DEF Story
  <2>2. CASE i > Len(a)
    <3>1. i = Len(a) + 2
      BY <1>1, <2>2
    <3>2. Len(a) + 1 \in M /\ Len(a) + 1 > Len(a) /\ Len(a) + 1 \in 1..(i - 1)
      BY <1>0, <1>1, <3>1
    <3>3. b[Len(a) + 1].who = b[i].who /\ b[Len(a) + 1].kind = "EnvelopeApproved"
      BY <1>1, <2>2, <3>1, <3>2
    <3> QED
      BY <3>2, <3>3 DEF Before
  <2> QED
    BY <1>0, <2>1, <2>2
<1>7. \A i \in M : b[i].kind \in Terminals => Before(b, i, "Spawned")
  <2> SUFFICES ASSUME NEW i \in M, b[i].kind \in Terminals PROVE Before(b, i, "Spawned")
    OBVIOUS
  <2>1. i \in N
    BY <1>0, <1>1, <1>2
  <2> QED
    BY <1>0, <1>5, <2>1 DEF Story
<1> QED
  BY <1>3, <1>4, <1>6, <1>7 DEF Story

(***************************************************************************)
(* A crash keeps the beginning of the log.                                 *)
(***************************************************************************)
LEMMA StoryCut ==
  ASSUME NEW a, NEW b, Extends(b, a), Story(a)
  PROVE  Story(b)
<1>0. /\ Len(a) \in Nat /\ Len(b) \in Nat /\ 1..Len(b) \subseteq 1..Len(a)
      /\ \A i \in 1..Len(b) : b[i] = a[i]
  BY DEF Extends
<1>1. ASSUME NEW i \in 1..Len(b), NEW k, Before(a, i, k) PROVE Before(b, i, k)
  <2>1. PICK d \in 1..(i - 1) : a[d].who = a[i].who /\ a[d].kind = k
    BY <1>1 DEF Before
  <2>2. d \in 1..Len(b)
    BY <1>0
  <2> QED
    BY <1>0, <2>1, <2>2 DEF Before
<1>2. \A i \in 1..Len(b) : b[i].kind \notin Decisions => Before(b, i, "EnvelopeApproved")
  BY <1>0, <1>1 DEF Story
<1>3. \A i \in 1..Len(b) : b[i].kind \in Terminals => Before(b, i, "Spawned")
  BY <1>0, <1>1 DEF Story
<1>4. \A i, j \in 1..Len(b) : b[i].who = b[j].who /\ Once(b[i].kind, b[j].kind) => i = j
  BY <1>0 DEF Story
<1>5. \A i, j \in 1..Len(b) :
         b[i].who = b[j].who /\ b[i].kind \in Terminals /\ b[j].kind \notin Decisions => j <= i
  BY <1>0 DEF Story
<1> QED
  BY <1>2, <1>3, <1>4, <1>5 DEF Story

(***************************************************************************)
(* What Emit leaves of the log.                                            *)
(***************************************************************************)
RecordsOf(r, c, n) == r \in Seq(Record) /\ Len(r) = n /\ \A i \in 1..n : r[i].who = c

LEMMA RecordsOne ==
  ASSUME NEW c \in Children, NEW k \in Kinds, NEW r, r = Records(c, <<k>>)
  PROVE  RecordsOf(r, c, 1) /\ r[1].kind = k
<1>1. r = [i \in 1..1 |-> [who |-> c, kind |-> k]]
  BY DEF Records
<1>2. [who |-> c, kind |-> k] \in Record
  BY DEF Record
<1> QED
  BY <1>1, <1>2 DEF RecordsOf

LEMMA RecordsTwo ==
  ASSUME NEW c \in Children, NEW r, r = Records(c, Started)
  PROVE  RecordsOf(r, c, 2) /\ r[1].kind = "EnvelopeApproved" /\ r[2].kind = "Spawned"
<1>1. r = [i \in 1..2 |-> [who |-> c, kind |-> Started[i]]]
  BY DEF Records, Started
<1>2. \A i \in 1..2 : Started[i] \in Kinds
  BY DEF Started, Kinds
<1>3. \A i \in 1..2 : [who |-> c, kind |-> Started[i]] \in Record
  BY <1>2 DEF Record
<1>4. RecordsOf(r, c, 2) /\ \A i \in 1..2 : r[i].kind = Started[i]
  BY <1>1, <1>3 DEF RecordsOf
<1> QED
  BY <1>4 DEF Started

LEMMA Emitted ==
  ASSUME NEW c, NEW a \in Seq(Record), NEW n \in Nat, NEW r, RecordsOf(r, c, n), NEW b, Joins(a, r, b)
  PROVE  /\ Extends(a, b) /\ Len(b) = Len(a) + n
         /\ \A i \in 1..n : b[Len(a) + i] = r[i] /\ b[Len(a) + i].who = c
<1>1. r \in Seq(Record) /\ Len(r) = n /\ \A i \in 1..n : r[i].who = c
  BY DEF RecordsOf
<1>2. r \in Seq(Record)
  BY <1>1
<1>4. /\ b \in Seq(Record) /\ Len(b) = Len(a) + Len(r)
      /\ \A j \in 1..Len(a) : b[j] = a[j]
      /\ \A j \in 1..Len(r) : b[Len(a) + j] = r[j]
  BY <1>2, SeqConcat
<1>5. Extends(a, b) /\ Len(b) = Len(a) + n
  BY <1>1, <1>4 DEF Extends
<1>6. \A i \in 1..n : b[Len(a) + i] = r[i] /\ b[Len(a) + i].who = c
  BY <1>1, <1>4
<1> QED
  BY <1>5, <1>6

LEMMA EmittedNew ==
  ASSUME NEW c, NEW a, NEW b, NEW n \in Nat, Extends(a, b), Len(b) = Len(a) + n,
         \A i \in 1..n : b[Len(a) + i].who = c
  PROVE  /\ \A i \in 1..Len(b) : i > Len(a) => b[i].who = c
         /\ \A d : d # c => Alike(a, b, d)
<1>1. \A i \in 1..Len(b) : i > Len(a) => b[i].who = c
  <2> SUFFICES ASSUME NEW i \in 1..Len(b), i > Len(a) PROVE b[i].who = c
    OBVIOUS
  <2>1. i - Len(a) \in 1..n /\ Len(a) + (i - Len(a)) = i
    BY DEF Extends
  <2> QED
    BY <2>1
<1>2. \A d : d # c => Alike(a, b, d)
  BY <1>1, OthersAlike
<1> QED
  BY <1>1, <1>2

LEMMA EmitNothing ==
  ASSUME NEW c, NEW a \in Seq(Record)
  PROVE  a \o Records(c, << >>) = a
<1>1. Records(c, << >>) = << >>
  BY DEF Records
<1> QED
  BY <1>1

(***************************************************************************)
(* A record of an open child: it escalates, and stays open, or ends.       *)
(***************************************************************************)
LEMMA EmitOne ==
  ASSUME NEW c \in Children, NEW a \in Seq(Record), Story(a), Open(a, c),
         NEW k \in {"Escalated"} \cup Terminals, NEW r, r = Records(c, <<k>>), NEW b, Joins(a, r, b)
  PROVE  /\ b \in Seq(Record) /\ Story(b) /\ Len(b) = Len(a) + 1
         /\ \A d : d # c => Alike(a, b, d)
         /\ k = "Escalated" => Alike(a, b, c)
<1>1. RecordsOf(r, c, 1) /\ r[1].kind = k
  <2>1. k \in Kinds
    BY DEF Kinds
  <2> QED
    BY <2>1, RecordsOne
<1>2. /\ Extends(a, b) /\ Len(b) = Len(a) + 1
      /\ \A i \in 1..1 : b[Len(a) + i] = r[i] /\ b[Len(a) + i].who = c
  <2>1. 1 \in Nat
    OBVIOUS
  <2> QED
    BY <1>1, <2>1, Emitted
<1>3. /\ \A i \in 1..Len(b) : i > Len(a) => i = Len(a) + 1 /\ b[i].who = c /\ b[i].kind = k
      /\ Len(a) \in Nat
  BY <1>1, <1>2
<1>4. \A d : d # c => Alike(a, b, d)
  BY <1>2, <1>3, OthersAlike
<1>5. Story(b)
  <2>1. /\ \A i \in 1..Len(b) : i > Len(a) => b[i].kind \in {"Escalated"} \cup Terminals /\ Open(a, b[i].who)
        /\ \A i, j \in 1..Len(b) : i > Len(a) /\ j > Len(a) /\ b[i].who = b[j].who => i = j
    BY <1>3
  <2> QED
    BY <1>2, <2>1, StoryGoesOn
<1>6. ASSUME k = "Escalated" PROVE Alike(a, b, c)
  <2>1. \A l : l # k => (Has(a, c, l) <=> Has(b, c, l))
    <3> SUFFICES ASSUME NEW l, l # k PROVE Has(a, c, l) <=> Has(b, c, l)
      OBVIOUS
    <3>1. Has(a, c, l) => Has(b, c, l)
      BY <1>2 DEF Has, Extends
    <3>2. Has(b, c, l) => Has(a, c, l)
      BY <1>2, <1>3 DEF Has, Extends
    <3> QED
      BY <3>1, <3>2
  <2>2. "Spawned" # k /\ \A l \in Terminals : l # k
    BY <1>6 DEF Terminals
  <2>3. Open(b, c)
    BY <2>1, <2>2 DEF Open
  <2>4. ~Blank(a, c) /\ ~Blank(b, c)
    BY <2>3 DEF Open, Has, Blank
  <2> QED
    BY <2>3, <2>4 DEF Alike
<1>7. b \in Seq(Record)
  BY <1>2 DEF Extends
<1> QED
  BY <1>2, <1>4, <1>5, <1>6, <1>7

(***************************************************************************)
(* The records of a child that is denied, and of one that starts.          *)
(***************************************************************************)
LEMMA EmitDenied ==
  ASSUME NEW c \in Children, NEW a \in Seq(Record), Story(a), Blank(a, c),
         NEW r, r = Records(c, <<"EnvelopeDenied">>), NEW b, Joins(a, r, b)
  PROVE  /\ b \in Seq(Record) /\ Story(b) /\ Len(b) = Len(a) + 1
         /\ \A d : d # c => Alike(a, b, d)
<1>1. RecordsOf(r, c, 1) /\ r[1].kind \in Decisions
  <2>1. "EnvelopeDenied" \in Kinds /\ "EnvelopeDenied" \in Decisions
    BY DEF Kinds, Decisions
  <2> QED
    BY <2>1, RecordsOne
<1>2. /\ Extends(a, b) /\ Len(b) = Len(a) + 1
      /\ \A i \in 1..1 : b[Len(a) + i] = r[i] /\ b[Len(a) + i].who = c
  <2>1. 1 \in Nat
    OBVIOUS
  <2> QED
    BY <1>1, <2>1, Emitted
<1>3. /\ \A i \in 1..Len(b) : i > Len(a) => b[i].who = c
      /\ \A d : d # c => Alike(a, b, d)
  BY <1>2, EmittedNew
<1>4. b[Len(a) + 1].kind \in Decisions
  BY <1>1, <1>2
<1>5. Story(b)
  BY <1>2, <1>3, <1>4, StoryBegins
<1>6. b \in Seq(Record)
  BY <1>2 DEF Extends
<1> QED
  BY <1>2, <1>3, <1>5, <1>6

LEMMA EmitStarted ==
  ASSUME NEW c \in Children, NEW a \in Seq(Record), Story(a), Blank(a, c),
         NEW r, r = Records(c, Started), NEW b, Joins(a, r, b)
  PROVE  /\ b \in Seq(Record) /\ Story(b) /\ Len(b) = Len(a) + 2
         /\ \A d : d # c => Alike(a, b, d)
         /\ Open(b, c)
<1>1. RecordsOf(r, c, 2) /\ r[1].kind = "EnvelopeApproved" /\ r[2].kind = "Spawned"
  BY RecordsTwo
<1>2. /\ Extends(a, b) /\ Len(b) = Len(a) + 2
      /\ \A i \in 1..2 : b[Len(a) + i] = r[i] /\ b[Len(a) + i].who = c
  <2>1. 2 \in Nat
    OBVIOUS
  <2> QED
    BY <1>1, <2>1, Emitted
<1>3. /\ \A i \in 1..Len(b) : i > Len(a) => b[i].who = c
      /\ \A d : d # c => Alike(a, b, d)
  BY <1>2, EmittedNew
<1>4. b[Len(a) + 1].kind = "EnvelopeApproved" /\ b[Len(a) + 2].kind = "Spawned"
  BY <1>1, <1>2
<1>5. Story(b)
  BY <1>2, <1>3, <1>4, StoryBegins
<1>6. b \in Seq(Record) /\ Len(a) \in Nat
  BY <1>2 DEF Extends
<1>7. Open(b, c)
  <2>1. Len(a) + 2 \in 1..Len(b)
    BY <1>2, <1>6
  <2>2. Has(b, c, "Spawned")
    BY <1>3, <1>4, <1>6, <2>1 DEF Has
  <2>3. ASSUME NEW k \in Terminals, Has(b, c, k) PROVE FALSE
    <3>1. PICK i \in 1..Len(b) : b[i].who = c /\ b[i].kind = k
      BY <2>3 DEF Has
    <3>2. i > Len(a)
      BY <1>2, <1>6, <3>1 DEF Extends, Blank
    <3>3. i = Len(a) + 1 \/ i = Len(a) + 2
      BY <1>2, <1>6, <3>2
    <3>4. k = "EnvelopeApproved" \/ k = "Spawned"
      BY <1>4, <3>1, <3>3
    <3> QED
      BY <3>4 DEF Terminals
  <2> QED
    BY <2>2, <2>3 DEF Open
<1> QED
  BY <1>2, <1>3, <1>5, <1>6, <1>7

(***************************************************************************)
(* The resume scan closes what it finds open, once each.                   *)
(***************************************************************************)
AbortsOf(r, n, order) ==
  /\ r \in Seq(Record) /\ Len(r) = n
  /\ \A i \in 1..n : r[i].who = order[i] /\ r[i].kind \in Terminals

LEMMA RecordsAborted ==
  ASSUME NEW n \in Nat, NEW order, \A i \in 1..n : order[i] \in Children,
         NEW r, r = [i \in 1..n |-> [who |-> order[i], kind |-> "Aborted"]]
  PROVE  AbortsOf(r, n, order)
<1>1. "Aborted" \in Kinds /\ "Aborted" \in Terminals
  BY DEF Kinds, Terminals
<1>2. \A i \in 1..n : [who |-> order[i], kind |-> "Aborted"] \in Record
  BY <1>1 DEF Record
<1> QED
  BY <1>1, <1>2 DEF AbortsOf

LEMMA EmitAborts ==
  ASSUME NEW a \in Seq(Record), Story(a), NEW n \in Nat, NEW order,
         \A i \in 1..n : order[i] \in Children /\ Open(a, order[i]),
         \A i, j \in 1..n : order[i] = order[j] => i = j,
         NEW r, AbortsOf(r, n, order), NEW b, Joins(a, r, b)
  PROVE  b \in Seq(Record) /\ Story(b) /\ Len(a) <= Len(b)
<1>3. /\ r \in Seq(Record) /\ Len(r) = n
      /\ \A i \in 1..n : r[i].who = order[i] /\ r[i].kind \in Terminals
  BY DEF AbortsOf
<1>4. r \in Seq(Record)
  BY <1>3
<1>5. /\ b \in Seq(Record) /\ Len(b) = Len(a) + Len(r)
      /\ \A j \in 1..Len(a) : b[j] = a[j]
      /\ \A j \in 1..Len(r) : b[Len(a) + j] = r[j]
  BY <1>4, SeqConcat
<1>6. Extends(a, b)
  BY <1>3, <1>5 DEF Extends
<1>7. ASSUME NEW i \in 1..Len(b), i > Len(a)
      PROVE  /\ i - Len(a) \in 1..n /\ b[i].who = order[i - Len(a)] /\ b[i].kind \in Terminals
  <2>1. i - Len(a) \in 1..n /\ Len(a) + (i - Len(a)) = i
    BY <1>3, <1>5, <1>7
  <2>2. b[i] = r[i - Len(a)]
    BY <1>3, <1>5, <2>1
  <2> QED
    BY <1>3, <2>1, <2>2
<1>8. \A i \in 1..Len(b) : i > Len(a) => b[i].kind \in {"Escalated"} \cup Terminals /\ Open(a, b[i].who)
  BY <1>7
<1>9. \A i, j \in 1..Len(b) : i > Len(a) /\ j > Len(a) /\ b[i].who = b[j].who => i = j
  <2> SUFFICES ASSUME NEW i \in 1..Len(b), NEW j \in 1..Len(b), i > Len(a), j > Len(a), b[i].who = b[j].who
               PROVE  i = j
    OBVIOUS
  <2>1. i - Len(a) = j - Len(a)
    BY <1>7
  <2> QED
    BY <1>5, <2>1
<1>10. Story(b)
  BY <1>6, <1>8, <1>9, StoryGoesOn
<1> QED
  BY <1>5, <1>6, <1>10 DEF Extends

(***************************************************************************)
(* Recorded, OpenSpawn and FreshChildren in these terms.                   *)
(***************************************************************************)
LEMMA RecordedIsHas ==
  ASSUME audit \in Seq(Record), NEW c, NEW k
  PROVE  k \in Recorded(c) <=> Has(audit, c, k)
<1>1. Range(audit) = {audit[i] : i \in 1..Len(audit)}
  BY DEF Range
<1> QED
  BY <1>1 DEF Recorded, Has

LEMMA OpenSpawnIsOpen ==
  ASSUME audit \in Seq(Record), NEW c
  PROVE  OpenSpawn(c) <=> Open(audit, c)
BY RecordedIsHas DEF OpenSpawn, Open

LEMMA RecordedNone ==
  ASSUME audit \in Seq(Record), NEW c
  PROVE  Recorded(c) = {} <=> Blank(audit, c)
<1>1. ASSUME Recorded(c) = {} PROVE Blank(audit, c)
  BY <1>1, RecordedIsHas DEF Blank, Has
<1>2. ASSUME Blank(audit, c) PROVE Recorded(c) = {}
  BY <1>2, RecordedIsHas DEF Blank, Has
<1> QED
  BY <1>1, <1>2

-----------------------------------------------------------------------------
(***************************************************************************)
(* 3. The stack.                                                           *)
(***************************************************************************)
LEMMA EmptyStack ==
  ASSUME NEW g, NEW a, NEW t, NEW s, s = << >>
  PROVE  StackInv(s, g, a, t) /\ OnStackOf(s) = {}
<1>1. s \in Seq(FrameType) /\ Len(s) = 0
  OBVIOUS
<1> QED
  BY <1>1 DEF StackInv, OnStackOf

LEMMA TopFacts ==
  ASSUME NEW g, NEW a, NEW t, NEW s, StackInv(s, g, a, t), s # << >>
  PROVE  /\ s \in Seq(FrameType) /\ Len(s) \in Nat /\ Len(s) >= 1 /\ Last(s) = s[Len(s)]
         /\ Last(s) \in FrameType
         /\ Placed(Last(s), Len(s), Len(s)) /\ Agreed(Last(s), g, t) /\ Logged(Last(s), a)
         /\ MayDelegate(Last(s), s, a)
         /\ Last(s).who # Root => Len(s) >= 2 /\ Last(s).who \in OnStackOf(s) /\ Last(s).who \in Children
<1>1. s \in Seq(FrameType)
  BY DEF StackInv
<1>2. /\ Len(s) \in Nat /\ Len(s) >= 1 /\ Last(s) = s[Len(s)] /\ Last(s) \in FrameType
  BY <1>1, SeqFront
<1>3. Placed(Last(s), Len(s), Len(s)) /\ Agreed(Last(s), g, t) /\ Logged(Last(s), a) /\ MayDelegate(Last(s), s, a)
  BY <1>2 DEF StackInv
<1>4. ASSUME Last(s).who # Root
      PROVE  Len(s) >= 2 /\ Last(s).who \in OnStackOf(s) /\ Last(s).who \in Children
  <2>1. Len(s) # 1
    BY <1>3, <1>4 DEF Placed
  <2>2. Last(s).who \in Who
    BY <1>2 DEF FrameType
  <2>3. Last(s).who \in OnStackOf(s)
    BY <1>2, <1>4 DEF OnStackOf
  <2> QED
    <3>1. Last(s).who \in Children
      BY <1>4, <2>2 DEF Who
    <3>2. Len(s) >= 2
      BY <1>2, <2>1
    <3> QED
      BY <2>3, <3>1, <3>2
<1> QED
  BY <1>1, <1>2, <1>3, <1>4

(***************************************************************************)
(* A session that stays where it is on the stack keeps its part, when      *)
(* approvals were added and the log says the same of it.                   *)
(***************************************************************************)
LEMMA FrameStays ==
  ASSUME NEW f, NEW i, NEW n, NEW m, Placed(f, i, n), i < n <=> i < m,
         NEW g, NEW h, g \subseteq h, NEW t, Agreed(f, g, t),
         NEW a, NEW b, Logged(f, a), f.who # Root => Alike(a, b, f.who)
  PROVE  Placed(f, i, m) /\ Agreed(f, h, t) /\ Logged(f, b)
<1>1. Placed(f, i, m)
  BY DEF Placed
<1>2. Agreed(f, h, t)
  BY DEF Agreed
<1>3. Logged(f, b)
  BY DEF Logged, Alike
<1> QED
  BY <1>1, <1>2, <1>3

(***************************************************************************)
(* What becomes of a stack: its top is replaced, popped, or gets a child.  *)
(***************************************************************************)
Replaced(s, f, u) == u = Append(Front(s), f)
Popped(s, u) == u = Append(Front(Front(s)), Answered(Last(Front(s))))
Pushed(s, f, u) == u = Append(Append(Front(s), [Last(s) EXCEPT !.at = "child"]), f)

(***************************************************************************)
(* The session on top moves on.                                            *)
(***************************************************************************)
LEMMA TopChanges ==
  ASSUME NEW g, NEW a, NEW t, NEW s, StackInv(s, g, a, t), s # << >>,
         NEW f \in FrameType, f.who = Last(s).who, Placed(f, Len(s), Len(s)),
         NEW h, g \subseteq h, Agreed(f, h, t),
         NEW b, \A d : d # f.who => Alike(a, b, d), Logged(f, b), MayDelegate(f, s, b),
         NEW u, Replaced(s, f, u)
  PROVE  StackInv(u, h, b, t) /\ OnStackOf(u) = OnStackOf(s) /\ u # << >>
<1>1. /\ s \in Seq(FrameType) /\ Len(s) \in Nat /\ Len(s) >= 1 /\ Last(s) = s[Len(s)]
  BY TopFacts
<1>2. /\ u \in Seq(FrameType) /\ Len(u) = Len(s) /\ u[Len(s)] = f
      /\ \A i \in 1..(Len(s) - 1) : u[i] = s[i]
  BY <1>1, SeqReplace DEF Replaced
<1>3. \A i \in 1..Len(s) : i \in 1..(Len(s) - 1) \/ i = Len(s)
  BY <1>1
<1>4. \A i \in 1..Len(s) : u[i].who = s[i].who
  BY <1>1, <1>2, <1>3
<1>5. OnStackOf(u) = OnStackOf(s)
  BY <1>2, <1>4 DEF OnStackOf
<1>6. \A i, j \in 1..Len(u) : u[i].who = u[j].who => i = j
  BY <1>2, <1>4 DEF StackInv
<1>7. ASSUME NEW i \in 1..Len(u)
      PROVE  Placed(u[i], i, Len(u)) /\ Agreed(u[i], h, t) /\ Logged(u[i], b)
  <2>1. CASE i = Len(s)
    BY <1>2, <2>1
  <2>2. CASE i # Len(s)
    <3>1. i \in 1..(Len(s) - 1) /\ i \in 1..Len(s) /\ Len(s) \in 1..Len(s)
      BY <1>1, <1>2, <2>2
    <3>2. s[i].who # f.who
      BY <1>1, <2>2, <3>1 DEF StackInv
    <3>3. Placed(s[i], i, Len(s)) /\ Agreed(s[i], g, t) /\ Logged(s[i], a)
      BY <3>1 DEF StackInv
    <3>4. Alike(a, b, s[i].who)
      BY <3>2
    <3>5. Placed(s[i], i, Len(s)) /\ Agreed(s[i], h, t) /\ Logged(s[i], b)
      BY <3>3, <3>4, FrameStays
    <3> QED
      BY <1>2, <3>1, <3>5
  <2> QED
    BY <2>1, <2>2
<1>8. MayDelegate(u[Len(u)], u, b)
  BY <1>2, <1>5 DEF MayDelegate
<1>9. u # << >>
  BY <1>1, <1>2
<1> QED
  BY <1>2, <1>5, <1>6, <1>7, <1>8, <1>9 DEF StackInv

(***************************************************************************)
(* Frames that move on.                                                    *)
(***************************************************************************)
LEMMA FrameAt ==
  ASSUME NEW f \in FrameType, NEW p \in Places
  PROVE  LET e == [f EXCEPT !.at = p]
         IN  /\ e \in FrameType /\ e.at = p
             /\ e.who = f.who /\ e.depth = f.depth /\ e.env = f.env /\ e.round = f.round /\ e.todo = f.todo
BY DEF FrameType

LEMMA AnsweredFrame ==
  ASSUME NEW f \in FrameType, f.todo # << >>
  PROVE  /\ Answered(f) \in FrameType /\ Answered(f).at = "calls"
         /\ Answered(f).who = f.who /\ Answered(f).depth = f.depth /\ Answered(f).env = f.env
<1>1. Tail(f.todo) \in Seq(Calls)
  BY DEF FrameType
<1>2. "calls" \in Places
  BY DEF Places
<1> QED
  BY <1>1, <1>2 DEF FrameType, Answered

(***************************************************************************)
(* A child leaves: its parent's call is answered.                          *)
(***************************************************************************)
LEMMA ChildPops ==
  ASSUME NEW g, NEW a, NEW t, NEW s, StackInv(s, g, a, t), s # << >>, Last(s).who # Root,
         NEW b, \A d : d # Last(s).who => Alike(a, b, d),
         NEW u, Popped(s, u)
  PROVE  StackInv(u, g, b, t) /\ OnStackOf(u) = OnStackOf(s) \ {Last(s).who} /\ u # << >>
<1>1. /\ s \in Seq(FrameType) /\ Len(s) \in Nat /\ Len(s) >= 2 /\ Last(s) = s[Len(s)]
  BY TopFacts
<1> DEFINE p == Front(s)
           m == Len(s) - 1
<1>2. /\ p \in Seq(FrameType) /\ Len(p) = Len(s) - 1 /\ \A i \in 1..(Len(s) - 1) : p[i] = s[i]
  BY <1>1, SeqFront
<1>3. /\ m \in Nat /\ m >= 1 /\ Len(p) = m /\ p # << >> /\ p \in Seq(FrameType)
      /\ \A i \in 1..m : p[i] = s[i] /\ i \in 1..Len(s) /\ i < Len(s)
      /\ 1..m = 1..Len(s) \ {Len(s)} /\ m \in 1..m
  BY <1>1, <1>2
<1> HIDE DEF p, m
<1>4. Last(p) = s[m] /\ s[m] \in FrameType
  <2>1. p \in Seq(FrameType) /\ p # << >>
    BY <1>3
  <2>2. Last(p) = p[Len(p)] /\ Last(p) \in FrameType
    BY <2>1, SeqFront
  <2>3. p[Len(p)] = s[m]
    BY <1>3
  <2> QED
    BY <2>2, <2>3
<1>5. ASSUME NEW i \in 1..m
      PROVE  /\ s[i].at = "child" /\ s[i].todo # << >> /\ s[i].who # Last(s).who
             /\ Placed(s[i], i, Len(s)) /\ Agreed(s[i], g, t) /\ Logged(s[i], a)
  <2>1. Placed(s[i], i, Len(s)) /\ Agreed(s[i], g, t) /\ Logged(s[i], a)
    BY <1>3 DEF StackInv
  <2>2. s[i].at = "child" /\ s[i].todo # << >>
    BY <1>3, <2>1 DEF Placed
  <2>3. Len(s) \in 1..Len(s)
    BY <1>1
  <2>4. s[i].who # Last(s).who
    BY <1>1, <1>3, <2>3 DEF StackInv
  <2> QED
    BY <2>1, <2>2, <2>4
<1> DEFINE f == Answered(s[m])
<1>6. /\ f \in FrameType /\ f.at = "calls" /\ f.who = s[m].who /\ f.depth = s[m].depth /\ f.env = s[m].env
  BY <1>3, <1>4, <1>5, AnsweredFrame
<1>7. Placed(f, m, m) /\ Agreed(f, g, t)
  <2>1. /\ s[m].at = "child" /\ Placed(s[m], m, Len(s)) /\ Agreed(s[m], g, t)
        /\ m \in Nat
    BY <1>3, <1>5
  <2>2. Placed(f, m, m)
    BY <1>6, <2>1 DEF Placed
  <2>3. Agreed(f, g, t)
    BY <1>6, <2>1 DEF Agreed
  <2> QED
    BY <2>2, <2>3
<1>8. Logged(f, b)
  <2>1. Logged(s[m], a) /\ s[m].at = "child" /\ Alike(a, b, s[m].who)
    BY <1>3, <1>5
  <2> QED
    BY <1>6, <2>1 DEF Logged, Alike
<1>9. u = Append(Front(p), f)
  BY <1>4 DEF p, Popped
<1> HIDE DEF f
<1>10. /\ u \in Seq(FrameType) /\ Len(u) = m /\ u[m] = f
       /\ \A i \in 1..(m - 1) : u[i] = s[i]
  <2>1. /\ u \in Seq(FrameType) /\ Len(u) = Len(p) /\ u[Len(p)] = f
        /\ \A i \in 1..(Len(p) - 1) : u[i] = p[i]
    BY <1>3, <1>6, <1>9, SeqReplace
  <2> QED
    BY <1>3, <2>1
<1>11. \A i \in 1..m : i \in 1..(m - 1) \/ i = m
  BY <1>3
<1>12. \A i \in 1..m : u[i].who = s[i].who
  BY <1>6, <1>10, <1>11
<1>13. OnStackOf(u) = OnStackOf(s) \ {Last(s).who}
  <2>1. {u[i].who : i \in 1..Len(u)} = {s[i].who : i \in 1..m}
    BY <1>10, <1>12
  <2>2. {s[i].who : i \in 1..m} = {s[i].who : i \in 1..Len(s)} \ {Last(s).who}
    <3>1. ASSUME NEW i \in 1..Len(s) PROVE i \in 1..m \/ s[i].who = Last(s).who
      BY <1>1, <1>3
    <3> QED
      BY <1>3, <1>5, <3>1
  <2> QED
    BY <2>1, <2>2 DEF OnStackOf
<1>14. \A i, j \in 1..Len(u) : u[i].who = u[j].who => i = j
  BY <1>3, <1>10, <1>12 DEF StackInv
<1>15. ASSUME NEW i \in 1..Len(u)
       PROVE  Placed(u[i], i, Len(u)) /\ Agreed(u[i], g, t) /\ Logged(u[i], b)
  <2>1. CASE i = m
    BY <1>7, <1>8, <1>10, <2>1
  <2>2. CASE i # m
    <3>1. i \in 1..(m - 1) /\ i \in 1..m /\ i < m /\ i < Len(s)
      BY <1>3, <1>10, <1>11, <2>2
    <3>2. Placed(s[i], i, Len(s)) /\ Agreed(s[i], g, t) /\ Logged(s[i], a)
      BY <1>5, <3>1
    <3>3. Alike(a, b, s[i].who) /\ (i < Len(s) <=> i < m) /\ g \subseteq g
      BY <1>5, <3>1
    <3>4. Placed(s[i], i, m) /\ Agreed(s[i], g, t) /\ Logged(s[i], b)
      BY <3>2, <3>3, FrameStays
    <3> QED
      BY <1>10, <3>1, <3>4
  <2> QED
    BY <2>1, <2>2
<1>16. MayDelegate(u[Len(u)], u, b)
  BY <1>6, <1>10 DEF MayDelegate
<1>17. u # << >>
  BY <1>3, <1>10
<1> QED
  BY <1>10, <1>13, <1>14, <1>15, <1>16, <1>17 DEF StackInv

(***************************************************************************)
(* A child is opened below its parent.                                     *)
(***************************************************************************)
LEMMA ChildPushes ==
  ASSUME NEW g, NEW a, NEW t, NEW s, StackInv(s, g, a, t), s # << >>,
         Last(s).at = "exec", NEW c \in Children, c \notin OnStackOf(s),
         NEW f \in FrameType, f.who = c, f.depth = Last(s).depth + 1, f.at \in {"envelope", "provider"},
         Agreed(f, g, t), NEW b, \A d : d # c => Alike(a, b, d), Logged(f, b),
         NEW u, Pushed(s, f, u)
  PROVE  StackInv(u, g, b, t) /\ OnStackOf(u) = OnStackOf(s) \cup {c} /\ u # << >>
<1>1. /\ s \in Seq(FrameType) /\ Len(s) \in Nat /\ Len(s) >= 1 /\ Last(s) = s[Len(s)]
      /\ Last(s) \in FrameType
      /\ Placed(Last(s), Len(s), Len(s)) /\ Agreed(Last(s), g, t) /\ Logged(Last(s), a)
  BY TopFacts
<1> DEFINE n == Len(s)
           e == [Last(s) EXCEPT !.at = "child"]
           p == Append(Front(s), e)
<1>2. "child" \in Places
  BY DEF Places
<1>3. /\ e \in FrameType /\ e.at = "child"
      /\ e.who = Last(s).who /\ e.depth = Last(s).depth /\ e.env = Last(s).env /\ e.todo = Last(s).todo
  BY <1>1, <1>2, FrameAt
<1> HIDE DEF e
<1>4. /\ p \in Seq(FrameType) /\ Len(p) = n /\ p[n] = e /\ \A i \in 1..(n - 1) : p[i] = s[i]
  BY <1>1, <1>3, SeqReplace
<1>5. u = Append(p, f)
  BY DEF e, Pushed
<1> HIDE DEF p
<1>6. /\ u \in Seq(FrameType) /\ Len(u) = n + 1 /\ u[n + 1] = f /\ \A i \in 1..n : u[i] = p[i]
  <2>1. p \in Seq(FrameType)
    BY <1>4
  <2>2. /\ Append(p, f) \in Seq(FrameType) /\ Len(Append(p, f)) = Len(p) + 1 /\ Append(p, f)[Len(p) + 1] = f
        /\ \A i \in 1..Len(p) : Append(p, f)[i] = p[i]
    BY <2>1, SeqAppend
  <2> QED
    BY <1>4, <1>5, <2>2
<1>7. n \in Nat /\ n >= 1 /\ n \in 1..n /\ n = Len(s)
  BY <1>1
<1> HIDE DEF n
<1>8. \A i \in 1..n : i \in 1..(n - 1) \/ i = n
  BY <1>7
<1>9. \A i \in 1..n : u[i].who = s[i].who
  BY <1>1, <1>3, <1>4, <1>6, <1>7, <1>8
<1>10. \A i \in 1..(n + 1) : i \in 1..n \/ i = n + 1
  BY <1>7
<1>11. 1..n \subseteq 1..(n + 1) /\ n + 1 \in 1..(n + 1)
  BY <1>7
<1>12. OnStackOf(u) = OnStackOf(s) \cup {c}
  <2>1. c # Root
    BY DEF Children, Root
  <2>2. {u[i].who : i \in 1..Len(u)} = {s[i].who : i \in 1..n} \cup {c}
    BY <1>6, <1>9, <1>10, <1>11
  <2> QED
    BY <1>7, <2>1, <2>2 DEF OnStackOf
<1>13. \A i \in 1..n : u[i].who # c
  <2>1. c # Root
    BY DEF Children, Root
  <2> QED
    BY <1>7, <1>9, <2>1 DEF OnStackOf
<1>14. \A i, j \in 1..Len(u) : u[i].who = u[j].who => i = j
  <2> SUFFICES ASSUME NEW i \in 1..(n + 1), NEW j \in 1..(n + 1), u[i].who = u[j].who PROVE i = j
    BY <1>6
  <2>1. CASE i \in 1..n /\ j \in 1..n
    BY <1>7, <1>9, <2>1 DEF StackInv
  <2>2. CASE i = n + 1 \/ j = n + 1
    BY <1>6, <1>10, <1>13, <2>2
  <2> QED
    BY <1>10, <2>1, <2>2
<1>15. ASSUME NEW i \in 1..n
       PROVE  Placed(u[i], i, n + 1) /\ Agreed(u[i], g, t) /\ Logged(u[i], b)
  <2>0. Alike(a, b, s[i].who)
    BY <1>9, <1>13
  <2>1. CASE i = n
    <3>1. u[i] = e
      BY <1>4, <1>6, <2>1
    <3>2. Placed(e, n, n + 1)
      BY <1>1, <1>3, <1>7 DEF Placed
    <3>3. Agreed(e, g, t)
      BY <1>1, <1>3 DEF Agreed
    <3>4. Logged(e, b)
      BY <1>1, <1>3, <1>7, <2>0, <2>1 DEF Logged, Alike
    <3> QED
      BY <2>1, <3>1, <3>2, <3>3, <3>4
  <2>2. CASE i # n
    <3>1. i \in 1..(n - 1) /\ i < n /\ i < n + 1
      BY <1>7, <1>8, <2>2
    <3>2. Placed(s[i], i, n) /\ Agreed(s[i], g, t) /\ Logged(s[i], a)
      BY <1>7 DEF StackInv
    <3>3. (i < n <=> i < n + 1) /\ g \subseteq g
      BY <3>1
    <3>4. Placed(s[i], i, n + 1) /\ Agreed(s[i], g, t) /\ Logged(s[i], b)
      BY <2>0, <3>2, <3>3, FrameStays
    <3> QED
      BY <1>4, <1>6, <3>1, <3>4
  <2> QED
    BY <2>1, <2>2
<1>16. Placed(f, n + 1, n + 1)
  <2>1. c # Root /\ Last(s).depth = n - 1
    BY <1>1, <1>7 DEF Children, Root, Placed
  <2> QED
    BY <1>7, <2>1 DEF Placed
<1>17. MayDelegate(u[Len(u)], u, b)
  BY <1>6 DEF MayDelegate
<1>18. u # << >>
  BY <1>6, <1>7
<1>19. \A i \in 1..Len(u) : Placed(u[i], i, Len(u)) /\ Agreed(u[i], g, t) /\ Logged(u[i], b)
  BY <1>6, <1>10, <1>15, <1>16
<1> QED
  BY <1>6, <1>12, <1>14, <1>17, <1>18, <1>19 DEF StackInv

-----------------------------------------------------------------------------
(***************************************************************************)
(* 4. What the steps are made of.                                          *)
(***************************************************************************)
LogOn == audit' \in Seq(Record) /\ Story(audit') /\ Len(audit) <= Len(audit')

LEMMA Here ==
  ASSUME CoreInv, stack # << >>
  PROVE  /\ loop = "turn" /\ StackInv(stack, granted, audit, trust)
         /\ audit \in Seq(Record) /\ Story(audit)
         /\ stack \in Seq(FrameType) /\ Len(stack) \in Nat /\ Len(stack) >= 1 /\ Top = stack[Len(stack)]
         /\ Top = Last(stack) /\ Top \in FrameType /\ Placed(Top, Len(stack), Len(stack))
         /\ Agreed(Top, granted, trust) /\ Logged(Top, audit) /\ MayDelegate(Top, stack, audit)
         /\ InChild => Top.who \in Children
<1>1. StackInv(stack, granted, audit, trust) /\ audit \in Seq(Record) /\ Story(audit) /\ loop = "turn"
  BY DEF CoreInv, LogInv, AgreeInv
<1> QED
  BY <1>1, TopFacts DEF Top, InChild

LEMMA LogKept ==
  ASSUME LogInv, LogOn, written' = written
  PROVE  LogInv'
<1>1. Len(audit) \in Nat /\ Len(audit') \in Nat
  BY DEF LogInv, LogOn
<1> QED
  BY <1>1 DEF LogInv, LogOn

LEMMA LogUnmoved ==
  ASSUME CoreInv, audit' = audit
  PROVE  LogOn /\ \A d : Alike(audit, audit', d)
<1>1. Len(audit) \in Nat
  BY DEF CoreInv, LogInv
<1> QED
  BY <1>1 DEF CoreInv, LogInv, LogOn, Alike

LEMMA CacheKept ==
  ASSUME CacheInv, cache' = cache, trust' = trust, granted \subseteq granted'
  PROVE  CacheInv'
BY DEF CacheInv

(***************************************************************************)
(* The turn ends.                                                          *)
(***************************************************************************)
LEMMA TurnEnds ==
  ASSUME CoreInv, loop = "turn", ~InChild, turnEnds, UNCHANGED <<trust, written>>
  PROVE  CoreInv' /\ loop' = "next"
<1>1. stack # << >> /\ CacheInv /\ LogInv /\ registered = OnStackOf(stack) /\ known = OnStackOf(stack)
  BY DEF CoreInv, AgreeInv
<1>2. loop' = "next" /\ stack' = << >> /\ UNCHANGED <<cache, registered, known, audit, granted, trust, written>>
  BY DEF turnEnds, bookkeeping
<1>3. StackInv(stack', granted', audit', trust') /\ OnStackOf(stack') = {}
  BY <1>2, EmptyStack
<1>4. OnStackOf(stack) = {}
  <2>1. Len(stack) = 1 /\ Top = stack[1] /\ Top.who = Root
    BY <1>1, Here DEF Placed, InChild
  <2>2. \A i \in 1..Len(stack) : stack[i].who = Root
    BY <2>1
  <2> QED
    BY <2>2 DEF OnStackOf
<1>5. CacheInv'
  BY <1>1, <1>2, CacheKept
<1>6. LogInv'
  BY <1>1, <1>2 DEF LogInv
<1>7. AgreeInv'
  BY <1>1, <1>2, <1>3, <1>4 DEF AgreeInv
<1> QED
  BY <1>2, <1>3, <1>5, <1>6, <1>7 DEF CoreInv

(***************************************************************************)
(* A child leaves, whatever is recorded of it.                             *)
(***************************************************************************)
LEMMA ChildLeaves ==
  ASSUME CoreInv, loop = "turn", InChild, childLeaves, UNCHANGED <<trust, written>>,
         LogOn, \A d : d # Top.who => Alike(audit, audit', d)
  PROVE  CoreInv' /\ loop' = loop
<1>1. stack # << >> /\ CacheInv /\ LogInv /\ registered = OnStackOf(stack) /\ known = OnStackOf(stack)
  BY DEF CoreInv, AgreeInv
<1>2. /\ Popped(stack, stack')
      /\ registered' = registered \ {Top.who} /\ known' = known \ {Top.who}
      /\ UNCHANGED <<loop, cache, granted, trust, written>>
  BY DEF childLeaves, Below, Popped
<1>3. StackInv(stack, granted, audit, trust) /\ Last(stack).who # Root /\ Top = Last(stack)
  BY <1>1, Here DEF InChild
<1>4. \A d : d # Last(stack).who => Alike(audit, audit', d)
  BY <1>3
<1>5. StackInv(stack', granted, audit', trust) /\ OnStackOf(stack') = OnStackOf(stack) \ {Last(stack).who} /\ stack' # << >>
  <2>1. Popped(stack, stack') /\ stack # << >>
    BY <1>1, <1>2
  <2>2. StackInv(stack, granted, audit, trust) /\ Last(stack).who # Root
    BY <1>3
  <2> QED
    BY <1>4, <2>1, <2>2, ChildPops
<1>6. CacheInv'
  BY <1>1, <1>2, CacheKept
<1>7. LogInv'
  BY <1>1, <1>2, LogKept
<1>8. AgreeInv'
  BY <1>1, <1>2, <1>3, <1>5 DEF AgreeInv
<1>9. StackInv(stack', granted', audit', trust')
  BY <1>2, <1>5
<1> QED
  BY <1>2, <1>6, <1>7, <1>8, <1>9 DEF CoreInv

LEMMA Emits ==
  ASSUME NEW c, NEW ks, Emit(c, ks)
  PROVE  \E r : r = Records(c, ks) /\ Joins(audit, r, audit')
BY DEF Emit, Joins

LEMMA ChildEnds ==
  ASSUME CoreInv, loop = "turn", InChild, Top.at # "envelope", NEW k \in Terminals, childEnds(<<k>>),
         UNCHANGED <<trust, written>>
  PROVE  CoreInv' /\ loop' = loop
<1>1. stack # << >>
  BY DEF CoreInv, AgreeInv
<1>2. audit \in Seq(Record) /\ Story(audit) /\ Top.who \in Children /\ Open(audit, Top.who) /\ Len(audit) \in Nat
  BY <1>1, Here DEF Logged, InChild
<1>3. PICK r : r = Records(Top.who, <<k>>) /\ Joins(audit, r, audit')
  BY Emits DEF childEnds
<1>4. k \in {"Escalated"} \cup Terminals
  OBVIOUS
<1>5. /\ audit' \in Seq(Record) /\ Story(audit') /\ Len(audit') = Len(audit) + 1
      /\ \A d : d # Top.who => Alike(audit, audit', d)
  BY <1>2, <1>3, <1>4, EmitOne
<1>6. LogOn
  BY <1>2, <1>5 DEF LogOn
<1> QED
  BY <1>5, <1>6, ChildLeaves DEF childEnds

LEMMA ChildDenied ==
  ASSUME CoreInv, loop = "turn", InChild, Top.at = "envelope", childEnds(<<"EnvelopeDenied">>),
         UNCHANGED <<trust, written>>
  PROVE  CoreInv' /\ loop' = loop
<1>1. stack # << >>
  BY DEF CoreInv, AgreeInv
<1>2. audit \in Seq(Record) /\ Story(audit) /\ Top.who \in Children /\ Blank(audit, Top.who) /\ Len(audit) \in Nat
  BY <1>1, Here DEF Logged, InChild
<1>3. PICK r : r = Records(Top.who, <<"EnvelopeDenied">>) /\ Joins(audit, r, audit')
  BY Emits DEF childEnds
<1>5. /\ audit' \in Seq(Record) /\ Story(audit') /\ Len(audit') = Len(audit) + 1
      /\ \A d : d # Top.who => Alike(audit, audit', d)
  BY <1>2, <1>3, EmitDenied
<1>6. LogOn
  BY <1>2, <1>5 DEF LogOn
<1> QED
  BY <1>5, <1>6, ChildLeaves DEF childEnds

LEMMA ChildGone ==
  ASSUME CoreInv, loop = "turn", InChild, childEnds(<< >>), UNCHANGED <<trust, written>>
  PROVE  CoreInv' /\ loop' = loop
<1>1. audit \in Seq(Record)
  BY DEF CoreInv, LogInv
<1>2. audit' = audit
  BY <1>1, EmitNothing DEF childEnds, Emit
<1>3. LogOn /\ \A d : Alike(audit, audit', d)
  BY <1>2, LogUnmoved
<1> QED
  BY <1>3, ChildLeaves DEF childEnds

(***************************************************************************)
(* The session on top moves on, the log saying what it said.               *)
(***************************************************************************)
LEMMA TopMoves ==
  ASSUME CoreInv, loop = "turn", NEW f \in FrameType, stack' = SetTop(f),
         f.who = Top.who, f.depth = Top.depth, f.env = Top.env,
         f.at \notin {"child", "envelope"}, f.at \in {"approve", "exec"} => f.todo # << >>,
         UNCHANGED <<loop, registered, known, trust, written>>,
         LogOn, \A d : d # f.who => Alike(audit, audit', d), f.who # Root => Open(audit', f.who),
         CacheInv', granted \subseteq granted', Agreed(f, granted', trust), MayDelegate(f, stack, audit')
  PROVE  CoreInv' /\ loop' = loop
<1>1. stack # << >> /\ LogInv /\ registered = OnStackOf(stack) /\ known = OnStackOf(stack)
  BY DEF CoreInv, AgreeInv
<1>2. StackInv(stack, granted, audit, trust) /\ Top = Last(stack) /\ Placed(Top, Len(stack), Len(stack))
  BY <1>1, Here
<1>3. Replaced(stack, f, stack')
  BY DEF SetTop, Below, Replaced
<1>4. Placed(f, Len(stack), Len(stack))
  BY <1>2 DEF Placed
<1>5. Logged(f, audit')
  BY DEF Logged
<1>6. f.who = Last(stack).who
  BY <1>2
<1>7. StackInv(stack', granted', audit', trust) /\ OnStackOf(stack') = OnStackOf(stack) /\ stack' # << >>
  BY <1>1, <1>2, <1>3, <1>4, <1>5, <1>6, TopChanges
<1>8. LogInv'
  BY <1>1, LogKept
<1>9. AgreeInv'
  BY <1>1, <1>7 DEF AgreeInv
<1>10. StackInv(stack', granted', audit', trust')
  BY <1>7
<1> QED
  BY <1>8, <1>9, <1>10 DEF CoreInv

LEMMA AgreedOn ==
  ASSUME NEW f, NEW e, NEW g, NEW h, NEW t, Agreed(f, g, t), f.at # "envelope", e.who = f.who, e.env = f.env,
         e.at # "child", g \subseteq h,
         t = "ask" /\ e.at = "exec" /\ Head(e.todo).tool \in Gated \cup {Delegate} => <<e.who, Head(e.todo)>> \in h
  PROVE  Agreed(e, h, t)
BY DEF Agreed

LEMMA MayDelegateOn ==
  ASSUME NEW f, NEW s, NEW a, NEW b, MayDelegate(f, s, a), \A d : Alike(a, b, d)
  PROVE  MayDelegate(f, s, b)
BY DEF MayDelegate, Alike

LEMMA TopMovesOn ==
  ASSUME CoreInv, loop = "turn", Top.at # "envelope", NEW f \in FrameType, stack' = SetTop(f),
         f.who = Top.who, f.depth = Top.depth, f.env = Top.env,
         f.at \notin {"child", "envelope"}, f.at \in {"approve", "exec"} => f.todo # << >>,
         UNCHANGED <<loop, registered, known, trust, written>>,
         LogOn, \A d : Alike(audit, audit', d), CacheInv', granted \subseteq granted',
         trust = "ask" /\ f.at = "exec" /\ Head(f.todo).tool \in Gated \cup {Delegate}
           => <<f.who, Head(f.todo)>> \in granted',
         MayDelegate(f, stack, audit)
  PROVE  CoreInv' /\ loop' = loop
<1>1. stack # << >>
  BY DEF CoreInv, AgreeInv
<1>2. Agreed(Top, granted, trust) /\ Logged(Top, audit)
  BY <1>1, Here
<1>3. Agreed(f, granted', trust)
  <2>1. f.at # "child"
    OBVIOUS
  <2> QED
    BY <1>2, <2>1, AgreedOn
<1>4. f.who # Root => Open(audit', f.who)
  BY <1>2 DEF Logged, Alike
<1>5. MayDelegate(f, stack, audit')
  BY MayDelegateOn
<1> QED
  BY <1>3, <1>4, <1>5, TopMoves

(***************************************************************************)
(* A call is answered, refused or let through.                             *)
(***************************************************************************)
LEMMA Answers ==
  ASSUME CoreInv, loop = "turn", Top.at # "envelope", Top.todo # << >>, answer, UNCHANGED <<trust, written>>,
         LogOn, \A d : Alike(audit, audit', d), CacheInv', granted \subseteq granted'
  PROVE  CoreInv' /\ loop' = loop
<1> DEFINE f == Answered(Top)
<1>1. Top \in FrameType
  BY Here DEF CoreInv, AgreeInv
<1>2. f \in FrameType /\ f.at = "calls" /\ f.who = Top.who /\ f.depth = Top.depth /\ f.env = Top.env
  BY <1>1, AnsweredFrame
<1>3. stack' = SetTop(f) /\ UNCHANGED <<loop, registered, known, trust, written>>
  BY DEF answer
<1> HIDE DEF f
<1>4. f.at \notin {"child", "envelope"} /\ f.at \notin {"approve", "exec"} /\ f.at # "exec"
  BY <1>2
<1>5. MayDelegate(f, stack, audit)
  BY <1>4 DEF MayDelegate
<1> QED
  BY <1>2, <1>3, <1>4, <1>5, TopMovesOn

LEMMA Refuses ==
  ASSUME CoreInv, loop = "turn", Top.at # "envelope", Top.todo # << >>, refuse, UNCHANGED <<trust, written>>
  PROVE  CoreInv' /\ loop' = loop
<1>1. answer /\ UNCHANGED <<cache, audit, granted>>
  BY DEF refuse
<1>2. LogOn /\ \A d : Alike(audit, audit', d)
  BY <1>1, LogUnmoved
<1>3. CacheInv' /\ granted \subseteq granted'
  BY <1>1, CacheKept DEF CoreInv
<1> QED
  BY <1>1, <1>2, <1>3, Answers

MayOpen == Top.depth < MaxDepth /\ \E c \in Children : c \notin OnStackOf(stack) /\ Blank(audit, c)

LEMMA GoesTo ==
  ASSUME CoreInv, loop = "turn", Top.at # "envelope", NEW p \in {"approve", "exec"}, Top.todo # << >>,
         stack' = SetTop([Top EXCEPT !.at = p]), UNCHANGED <<loop, registered, known, trust, written>>,
         LogOn, \A d : Alike(audit, audit', d), CacheInv', granted \subseteq granted',
         p = "exec" /\ trust = "ask" /\ Call.tool \in Gated \cup {Delegate} => <<Top.who, Call>> \in granted',
         Call.tool = Delegate => MayOpen
  PROVE  CoreInv' /\ loop' = loop
<1> DEFINE f == [Top EXCEPT !.at = p]
<1>1. Top \in FrameType /\ p \in Places
  BY Here DEF CoreInv, AgreeInv, Places
<1>2. /\ f \in FrameType /\ f.at = p /\ f.who = Top.who /\ f.depth = Top.depth /\ f.env = Top.env
      /\ f.todo = Top.todo
  BY <1>1, FrameAt
<1>3. stack' = SetTop(f)
  OBVIOUS
<1> HIDE DEF f
<1>4. f.at \notin {"child", "envelope"} /\ f.todo # << >> /\ Head(f.todo) = Call
  BY <1>2 DEF Call
<1>5. MayDelegate(f, stack, audit)
  BY <1>2, <1>4 DEF MayDelegate, MayOpen
<1>6. trust = "ask" /\ f.at = "exec" /\ Head(f.todo).tool \in Gated \cup {Delegate}
        => <<f.who, Head(f.todo)>> \in granted'
  BY <1>2, <1>4
<1> QED
  BY <1>2, <1>3, <1>4, <1>5, <1>6, TopMovesOn

LEMMA Executes ==
  ASSUME CoreInv, loop = "turn", Top.at # "envelope", Top.todo # << >>,
         execute(<< >>), UNCHANGED <<trust, written>>, CacheInv', granted \subseteq granted',
         trust = "ask" /\ Call.tool \in Gated \cup {Delegate} => <<Top.who, Call>> \in granted',
         Call.tool = Delegate => MayOpen
  PROVE  CoreInv' /\ loop' = loop
<1>1. audit' = audit
  BY EmitNothing DEF execute, Emit, CoreInv, LogInv
<1>2. LogOn /\ \A d : Alike(audit, audit', d)
  BY <1>1, LogUnmoved
<1>3. stack' = SetTop([Top EXCEPT !.at = "exec"]) /\ UNCHANGED <<loop, registered, known, trust, written>>
  BY DEF execute
<1>4. "exec" \in {"approve", "exec"}
  OBVIOUS
<1> QED
  BY <1>2, <1>3, <1>4, GoesTo

LEMMA Escalates ==
  ASSUME CoreInv, loop = "turn", Top.at # "envelope", Top.todo # << >>, InChild,
         execute(<<"Escalated">>), UNCHANGED <<trust, written>>, CacheInv', granted \subseteq granted',
         trust = "ask" /\ Call.tool \in Gated \cup {Delegate} => <<Top.who, Call>> \in granted',
         Call.tool = Delegate => MayOpen
  PROVE  CoreInv' /\ loop' = loop
<1>0. stack # << >>
  BY DEF CoreInv, AgreeInv
<1>1. audit \in Seq(Record) /\ Story(audit) /\ Top.who \in Children /\ Open(audit, Top.who) /\ Len(audit) \in Nat
  BY <1>0, Here DEF Logged, InChild
<1>2. PICK r : r = Records(Top.who, <<"Escalated">>) /\ Joins(audit, r, audit')
  BY Emits DEF execute
<1>3. "Escalated" \in {"Escalated"} \cup Terminals
  OBVIOUS
<1>4. /\ audit' \in Seq(Record) /\ Story(audit') /\ Len(audit') = Len(audit) + 1
      /\ \A d : d # Top.who => Alike(audit, audit', d)
      /\ Alike(audit, audit', Top.who)
  BY <1>1, <1>2, <1>3, EmitOne
<1>5. LogOn
  BY <1>1, <1>4 DEF LogOn
<1>6. \A d : Alike(audit, audit', d)
  BY <1>4
<1>7. CASE stack' = SetTop([Top EXCEPT !.at = "exec"]) /\ UNCHANGED <<loop, registered, known>>
  <2>1. "exec" \in {"approve", "exec"} /\ UNCHANGED <<loop, registered, known, trust, written>>
    BY <1>7
  <2> QED
    BY <1>5, <1>6, <1>7, <2>1, GoesTo
<1>8. CASE answer
  BY <1>5, <1>6, <1>8, Answers
<1> QED
  BY <1>7, <1>8 DEF execute

-----------------------------------------------------------------------------
(***************************************************************************)
(* 5. The steps of a turn.                                                 *)
(***************************************************************************)
LEMMA Quiet ==
  ASSUME CountsInv, quiet, loop' = loop \/ loop' = "next"
  PROVE  CountsInv'
BY DEF CountsInv, quiet, launch

LEMMA QuietKeeps ==
  ASSUME quiet
  PROVE  UNCHANGED <<trust, written>>
BY DEF quiet, launch

LEMMA ProviderEnds ==
  ASSUME CoreInv, quiet, AtPlace("provider"), NEW k \in Terminals, IF InChild THEN childEnds(<<k>>) ELSE turnEnds
  PROVE  CoreInv' /\ (loop' = loop \/ loop' = "next")
<1>1. loop = "turn" /\ Top.at # "envelope" /\ UNCHANGED <<trust, written>>
  BY QuietKeeps DEF AtPlace
<1>2. CASE InChild
  <2>1. childEnds(<<k>>)
    BY <1>2
  <2> QED
    BY <1>1, <1>2, <2>1, ChildEnds
<1>3. CASE ~InChild
  BY <1>1, <1>3, TurnEnds
<1> QED
  BY <1>2, <1>3

LEMMA ProviderStep ==
  ASSUME CoreInv, providerFails \/ providerStops \/ providerCalls
  PROVE  CoreInv' /\ (loop' = loop \/ loop' = "next")
<1>0. "Aborted" \in Terminals /\ "Completed" \in Terminals
  BY DEF Terminals
<1>1. CASE providerFails
  BY <1>0, <1>1, ProviderEnds DEF providerFails
<1>2. CASE providerStops
  BY <1>0, <1>2, ProviderEnds DEF providerStops
<1>3. CASE providerCalls
  <2>1. /\ loop = "turn" /\ Top.at = "provider" /\ UNCHANGED <<trust, written>>
        /\ UNCHANGED <<loop, cache, registered, known, audit, granted>>
    BY <1>3, QuietKeeps DEF providerCalls, AtPlace, bookkeeping
  <2>2. PICK batch \in Batches : stack' = SetTop([Top EXCEPT !.at = "calls", !.todo = batch])
    BY <1>3 DEF providerCalls
  <2>3. batch \in Seq(Calls)
    BY DEF Batches
  <2>4. Top \in FrameType
    BY <2>1, Here DEF CoreInv, AgreeInv
  <2> DEFINE f == [Top EXCEPT !.at = "calls", !.todo = batch]
  <2>5. f \in FrameType /\ f.at = "calls" /\ f.who = Top.who /\ f.depth = Top.depth /\ f.env = Top.env
    BY <2>3, <2>4 DEF FrameType, Places
  <2>6. stack' = SetTop(f)
    BY <2>2
  <2> HIDE DEF f
  <2>7. LogOn /\ \A d : Alike(audit, audit', d)
    BY <2>1, LogUnmoved
  <2>8. CacheInv' /\ granted \subseteq granted'
    BY <2>1, CacheKept DEF CoreInv
  <2>9. f.at \notin {"child", "envelope"} /\ f.at \notin {"approve", "exec"} /\ f.at # "exec"
    BY <2>5
  <2>10. MayDelegate(f, stack, audit)
    BY <2>9 DEF MayDelegate
  <2> QED
    BY <2>1, <2>5, <2>6, <2>7, <2>8, <2>9, <2>10, TopMovesOn
<1> QED
  BY <1>1, <1>2, <1>3

LEMMA NextRound ==
  ASSUME CoreInv, nextRound
  PROVE  CoreInv' /\ (loop' = loop \/ loop' = "next")
<1>1. loop = "turn" /\ Top.at = "calls" /\ UNCHANGED <<trust, written>>
  BY QuietKeeps DEF nextRound, AtPlace
<1>2. CASE Top.round + 1 < MaxRounds /\ ~(InChild /\ aborted)
  <2>1. stack' = SetTop([Top EXCEPT !.at = "provider", !.round = @ + 1]) /\ UNCHANGED <<loop, cache, registered, known, audit, granted>>
    BY <1>2 DEF nextRound, bookkeeping
  <2>2. Top \in FrameType
    BY <1>1, Here DEF CoreInv, AgreeInv
  <2> DEFINE f == [Top EXCEPT !.at = "provider", !.round = @ + 1]
  <2>3. Top.round \in 0..MaxRounds - 1 /\ MaxRounds \in Nat
    BY <2>2, SessionAssumption DEF FrameType
  <2>4. Top.round + 1 \in 0..MaxRounds - 1
    BY <1>2, <2>3
  <2>5. f \in FrameType /\ f.at = "provider" /\ f.who = Top.who /\ f.depth = Top.depth /\ f.env = Top.env
    BY <2>2, <2>4 DEF FrameType, Places
  <2>6. stack' = SetTop(f)
    BY <2>1
  <2> HIDE DEF f
  <2>7. LogOn /\ \A d : Alike(audit, audit', d)
    BY <2>1, LogUnmoved
  <2>8. CacheInv' /\ granted \subseteq granted'
    BY <1>1, <2>1, CacheKept DEF CoreInv
  <2>9. f.at \notin {"child", "envelope"} /\ f.at \notin {"approve", "exec"} /\ f.at # "exec"
    BY <2>5
  <2>10. MayDelegate(f, stack, audit)
    BY <2>9 DEF MayDelegate
  <2> QED
    BY <1>1, <2>1, <2>5, <2>6, <2>7, <2>8, <2>9, <2>10, TopMovesOn
<1>3. CASE ~(Top.round + 1 < MaxRounds /\ ~(InChild /\ aborted))
  <2>1. CASE InChild
    <3>1. childEnds(<<"Aborted">>) /\ "Aborted" \in Terminals
      BY <1>3, <2>1 DEF nextRound, Terminals
    <3> QED
      BY <1>1, <2>1, <3>1, ChildEnds
  <2>2. CASE ~InChild
    <3>1. turnEnds
      BY <1>3, <2>2 DEF nextRound
    <3> QED
      BY <1>1, <2>2, <3>1, TurnEnds
  <2> QED
    BY <2>1, <2>2
<1> QED
  BY <1>2, <1>3

LEMMA CancelBatch ==
  ASSUME CoreInv, cancelBatch
  PROVE  CoreInv' /\ loop' = loop
<1>1. loop = "turn" /\ Top.at # "envelope" /\ InChild /\ childEnds(<<"Aborted">>) /\ UNCHANGED <<trust, written>>
  BY QuietKeeps DEF cancelBatch, AtCall, AtPlace
<1>2. "Aborted" \in Terminals
  BY DEF Terminals
<1> QED
  BY <1>1, <1>2, ChildEnds

(***************************************************************************)
(* A gated call that is not asked about was approved: by itself, for this  *)
(* session, or with its envelope.                                          *)
(***************************************************************************)
LEMMA CallFacts ==
  ASSUME CoreInv, loop = "turn", Top.todo # << >>
  PROVE  Call \in Calls /\ Call = Head(Top.todo) /\ Top.who \in Who
<1>1. Top.todo \in Seq(Calls) /\ Top.who \in Who
  BY Here DEF CoreInv, AgreeInv, FrameType
<1> QED
  BY <1>1 DEF Call

LEMMA NotAsked ==
  ASSUME CoreInv, loop = "turn", Top.at # "envelope", Top.todo # << >>, ~Asks
  PROVE  trust = "ask" /\ Call.tool \in Gated \cup {Delegate} => <<Top.who, Call>> \in granted
<1> SUFFICES ASSUME trust = "ask", Call.tool \in Gated \cup {Delegate} PROVE <<Top.who, Call>> \in granted
  OBVIOUS
<1>1. Call \in Calls /\ Top.who \in Who
  BY CallFacts
<1>2. CASE Call \in cache[Top.who]
  BY <1>1, <1>2 DEF CoreInv, CacheInv
<1>3. CASE InEnvelope
  <2>1. Agreed(Top, granted, trust)
    BY Here DEF CoreInv, AgreeInv
  <2>2. Call.tool \in Top.env
    BY <1>3 DEF InEnvelope
  <2> QED
    BY <1>1, <2>1, <2>2 DEF Agreed
<1> QED
  BY <1>2, <1>3 DEF Asks

LEMMA FreshIsFresh ==
  ASSUME CoreInv, NEW c
  PROVE  c \in FreshChildren <=> c \in Children /\ c \notin OnStackOf(stack) /\ Blank(audit, c)
BY RecordedNone DEF FreshChildren, CoreInv, LogInv, AgreeInv

LEMMA PreflightOpens ==
  ASSUME CoreInv, Preflight
  PROVE  Call.tool = Delegate => MayOpen
BY FreshIsFresh DEF Preflight, MayOpen

LEMMA Unchanged ==
  ASSUME CoreInv, UNCHANGED <<cache, granted, trust>>
  PROVE  CacheInv' /\ granted \subseteq granted' /\ granted' = granted
BY CacheKept DEF CoreInv

LEMMA LiveFacts ==
  ASSUME Live
  PROVE  loop = "turn" /\ Top.at = "calls" /\ Top.at # "envelope" /\ Top.todo # << >>
BY DEF Live, AtCall, AtPlace

LEMMA CallStep ==
  ASSUME CoreInv, rejectCall \/ admitCall \/ escalateCall \/ delegateThrows \/ toolEnds
  PROVE  CoreInv' /\ loop' = loop
<1>1. CASE rejectCall
  <2>1. Live /\ refuse /\ UNCHANGED <<trust, written>>
    BY <1>1, QuietKeeps DEF rejectCall
  <2> QED
    BY <2>1, LiveFacts, Refuses
<1>2. CASE admitCall
  <2>1. Live /\ ~Asks /\ Preflight /\ execute(<< >>) /\ UNCHANGED <<cache, granted, trust, written>>
    BY <1>2, QuietKeeps DEF admitCall
  <2>2. loop = "turn" /\ Top.at # "envelope" /\ Top.todo # << >>
    BY <2>1, LiveFacts
  <2>3. trust = "ask" /\ Call.tool \in Gated \cup {Delegate} => <<Top.who, Call>> \in granted
    BY <2>1, <2>2, NotAsked
  <2>4. Call.tool = Delegate => MayOpen
    BY <2>1, PreflightOpens
  <2>5. CacheInv' /\ granted \subseteq granted' /\ granted' = granted
    BY <2>1, Unchanged
  <2> QED
    BY <2>1, <2>2, <2>3, <2>4, <2>5, Executes
<1>3. CASE escalateCall
  <2>1. /\ Live /\ InChild /\ ~Asks /\ Call.tool # Delegate /\ execute(<<"Escalated">>)
        /\ UNCHANGED <<cache, granted, trust, written>>
    BY <1>3, QuietKeeps DEF escalateCall
  <2>2. loop = "turn" /\ Top.at # "envelope" /\ Top.todo # << >>
    BY <2>1, LiveFacts
  <2>3. trust = "ask" /\ Call.tool \in Gated \cup {Delegate} => <<Top.who, Call>> \in granted
    BY <2>1, <2>2, NotAsked
  <2>5. CacheInv' /\ granted \subseteq granted' /\ granted' = granted
    BY <2>1, Unchanged
  <2> QED
    BY <2>1, <2>2, <2>3, <2>5, Escalates
<1>4. CASE delegateThrows
  <2>1. Live /\ InChild /\ childEnds(<< >>) /\ UNCHANGED <<trust, written>>
    BY <1>4, QuietKeeps DEF delegateThrows, childThrows
  <2> QED
    BY <2>1, LiveFacts, ChildGone
<1>5. CASE toolEnds
  <2>1. loop = "turn" /\ Top.at = "exec" /\ refuse /\ UNCHANGED <<trust, written>>
    BY <1>5, QuietKeeps DEF toolEnds, AtPlace
  <2>2. Placed(Top, Len(stack), Len(stack))
    BY <2>1, Here DEF CoreInv, AgreeInv
  <2>3. Top.todo # << >> /\ Top.at # "envelope"
    BY <2>1, <2>2 DEF Placed
  <2> QED
    BY <2>1, <2>3, Refuses
<1> QED
  BY <1>1, <1>2, <1>3, <1>4, <1>5

LEMMA AskApproval ==
  ASSUME CoreInv, askApproval
  PROVE  CoreInv' /\ (loop' = loop \/ loop' = "next")
<1>1. Live /\ Preflight /\ UNCHANGED <<trust, written>>
  BY QuietKeeps DEF askApproval
<1>2. loop = "turn" /\ Top.at # "envelope" /\ Top.todo # << >>
  BY <1>1, LiveFacts
<1>3. CASE stack' = SetTop([Top EXCEPT !.at = "approve"]) /\ UNCHANGED <<loop, bookkeeping>>
  <2>1. UNCHANGED <<loop, cache, registered, known, audit, granted, trust, written>>
    BY <1>1, <1>3 DEF bookkeeping
  <2>2. LogOn /\ \A d : Alike(audit, audit', d)
    BY <2>1, LogUnmoved
  <2>3. CacheInv' /\ granted \subseteq granted'
    BY <2>1, Unchanged
  <2>4. Call.tool = Delegate => MayOpen
    BY <1>1, PreflightOpens
  <2>5. "approve" \in {"approve", "exec"} /\ "approve" # "exec"
    OBVIOUS
  <2> QED
    BY <1>2, <1>3, <2>1, <2>2, <2>3, <2>4, <2>5, GoesTo
<1>4. CASE refuse
  BY <1>1, <1>2, <1>4, Refuses
<1>5. CASE IF InChild THEN childEnds(<<"Halted">>) ELSE turnEnds
  <2>1. CASE InChild
    <3>1. childEnds(<<"Halted">>) /\ "Halted" \in Terminals
      BY <1>5, <2>1 DEF Terminals
    <3> QED
      BY <1>1, <1>2, <2>1, <3>1, ChildEnds
  <2>2. CASE ~InChild
    <3>1. turnEnds
      BY <1>5, <2>2
    <3> QED
      BY <1>1, <1>2, <2>2, <3>1, TurnEnds
  <2> QED
    BY <2>1, <2>2
<1> QED
  BY <1>3, <1>4, <1>5 DEF askApproval

(***************************************************************************)
(* Sets of natural numbers have a least element: a child is there to be    *)
(* opened when a number is free.                                           *)
(***************************************************************************)
Ordered(R) == \A x, y \in Nat : x < y => <<x, y>> \in R

LEMMA NatOrder == \E R : IsWellFoundedOn(R, Nat) /\ Ordered(R)
<1>1. IsWellFoundedOn(OpToRel(<, Nat), Nat)
  BY NatLessThanWellFounded, Zenon
<1>2. Ordered(OpToRel(<, Nat))
  BY DEF OpToRel, Ordered
<1> QED
  BY <1>1, <1>2, Zenon

LEMMA OrderedLeast ==
  ASSUME NEW S, S \subseteq Nat, NEW R, Ordered(R), NEW x \in S, \A y \in S : ~(<<y, x>> \in R)
  PROVE  \A y \in S : x <= y
<1> SUFFICES ASSUME NEW y \in S PROVE x <= y
  OBVIOUS
<1>1. ~(y < x)
  BY DEF Ordered
<1> QED
  BY <1>1

LEMMA Least ==
  ASSUME NEW S, S \subseteq Nat, S # {}
  PROVE  \E x \in S : \A y \in S : x <= y
<1>1. PICK R : IsWellFoundedOn(R, Nat) /\ Ordered(R)
  BY NatOrder
<1>2. IsWellFoundedOn(R, Nat)
  BY <1>1
<1>3. \E x \in S : \A y \in S : ~(<<y, x>> \in R)
  BY <1>2, WFMin
<1> QED
  BY <1>1, <1>3, OrderedLeast

LEMMA OpenChild ==
  ASSUME CoreInv, openChild
  PROVE  CoreInv' /\ loop' = loop
<1>1. loop = "turn" /\ Top.at = "exec" /\ Call.tool = Delegate /\ UNCHANGED <<trust, written>>
  BY QuietKeeps DEF openChild, AtPlace
<1>2. stack # << >> /\ CacheInv /\ LogInv
  BY <1>1 DEF CoreInv, AgreeInv
<1>3. /\ StackInv(stack, granted, audit, trust) /\ audit \in Seq(Record) /\ Story(audit)
      /\ Top = Last(stack) /\ Top \in FrameType /\ Placed(Top, Len(stack), Len(stack))
      /\ MayDelegate(Top, stack, audit) /\ Len(audit) \in Nat
  BY <1>2, Here DEF LogInv
<1>4. Top.todo # << >> /\ Top.at # "envelope"
  BY <1>1, <1>3 DEF Placed
<1>5. CASE aborted \/ (headless /\ trust # "yolo")
  <2>1. refuse
    BY <1>5 DEF openChild
  <2> QED
    BY <1>1, <1>4, <2>1, Refuses
<1>6. CASE ~(aborted \/ (headless /\ trust # "yolo"))
  <2> DEFINE c == CHOOSE x \in FreshChildren : \A y \in FreshChildren : x <= y
             f == ChildFrame(c)
  <2>1. /\ registered' = registered \cup {c} /\ known' = known \cup {c}
        /\ stack' = Append(SetTop([Top EXCEPT !.at = "child"]), f)
        /\ Emit(c, IF trust = "yolo" THEN Started ELSE << >>)
        /\ UNCHANGED <<loop, cache, granted>>
    BY <1>6 DEF openChild
  <2>2. c \in FreshChildren
    <3>1. FreshChildren \subseteq Nat
      BY SessionAssumption DEF FreshChildren, Children
    <3>2. FreshChildren # {}
      BY <1>1, <1>3, FreshIsFresh DEF MayDelegate, Call
    <3>3. \E x \in FreshChildren : \A y \in FreshChildren : x <= y
      BY <3>1, <3>2, Least
    <3> QED
      BY <3>3
  <2>3. f = [Frame(c, Top.depth + 1, Call.env) EXCEPT !.at = IF trust = "yolo" THEN @ ELSE "envelope"]
    BY DEF ChildFrame
  <2> HIDE DEF c, f
  <2>4. c \in Children /\ c \notin OnStackOf(stack) /\ Blank(audit, c)
    BY <2>2, FreshIsFresh
  <2>5. Call.env \in Envelopes
    <3>1. Call \in Calls
      BY <1>1, <1>4, CallFacts
    <3> QED
      BY <1>1, <3>1, SessionAssumption DEF Calls
  <2>6. Top.depth + 1 \in 0..MaxDepth
    BY <1>1, <1>3, SessionAssumption DEF MayDelegate, Call, FrameType
  <2>7. /\ f = [who |-> c, depth |-> Top.depth + 1, env |-> Call.env,
                at |-> IF trust = "yolo" THEN "provider" ELSE "envelope", round |-> 0, todo |-> << >>]
    BY <2>3 DEF Frame
  <2>8. f \in FrameType
    <3>1. c \in Who /\ 0 \in 0..MaxRounds - 1 /\ << >> \in Seq(Calls)
      BY <2>4, SessionAssumption DEF Who
    <3>2. (IF trust = "yolo" THEN "provider" ELSE "envelope") \in Places
      BY DEF Places
    <3> QED
      BY <2>5, <2>6, <2>7, <3>1, <3>2 DEF FrameType
  <2>9. /\ f.who = c /\ f.depth = Top.depth + 1 /\ f.at \in {"envelope", "provider"}
        /\ f.at = IF trust = "yolo" THEN "provider" ELSE "envelope"
    BY <2>7
  <2>10. /\ LogOn /\ \A d : d # c => Alike(audit, audit', d)
         /\ IF trust = "yolo" THEN Open(audit', c) ELSE Blank(audit', c)
    <3>1. CASE trust = "yolo"
      <4>1. PICK r : r = Records(c, Started) /\ Joins(audit, r, audit')
        BY <2>1, <3>1, Emits
      <4>2. /\ audit' \in Seq(Record) /\ Story(audit') /\ Len(audit') = Len(audit) + 2
            /\ \A d : d # c => Alike(audit, audit', d)
            /\ Open(audit', c)
        BY <1>3, <2>4, <4>1, EmitStarted
      <4> QED
        BY <1>3, <3>1, <4>2 DEF LogOn
    <3>2. CASE trust # "yolo"
      <4>1. audit' = audit
        BY <1>3, <2>1, <3>2, EmitNothing DEF Emit
      <4>2. LogOn /\ \A d : Alike(audit, audit', d)
        BY <4>1, LogUnmoved
      <4> QED
        BY <2>4, <3>2, <4>1, <4>2
    <3> QED
      BY <3>1, <3>2
  <2>11. Agreed(f, granted, trust)
    BY <2>9 DEF Agreed
  <2>12. Logged(f, audit')
    BY <2>9, <2>10 DEF Logged
  <2>13. Pushed(stack, f, stack')
    BY <1>3, <2>1 DEF Pushed, SetTop, Below
  <2>14. Last(stack).at = "exec" /\ f.depth = Last(stack).depth + 1
    BY <1>1, <1>3, <2>9
  <2>15. StackInv(stack', granted, audit', trust) /\ OnStackOf(stack') = OnStackOf(stack) \cup {c} /\ stack' # << >>
    <3>1. f.who = c /\ f.at \in {"envelope", "provider"} /\ \A d : d # c => Alike(audit, audit', d)
      BY <2>9, <2>10
    <3>2. StackInv(stack, granted, audit, trust) /\ stack # << >>
      BY <1>2, <1>3
    <3> QED
      BY <2>4, <2>8, <2>11, <2>12, <2>13, <2>14, <3>1, <3>2, ChildPushes
  <2>16. LogInv'
    BY <1>1, <1>2, <2>10, LogKept
  <2>17. CacheInv'
    BY <1>1, <1>2, <2>1, CacheKept
  <2>18. AgreeInv'
    BY <1>1, <2>1, <2>15 DEF AgreeInv, CoreInv
  <2>19. StackInv(stack', granted', audit', trust')
    BY <1>1, <2>1, <2>15
  <2> QED
    BY <2>1, <2>16, <2>17, <2>18, <2>19 DEF CoreInv
<1> QED
  BY <1>5, <1>6

(***************************************************************************)
(* The dialogs.                                                            *)
(***************************************************************************)
LEMMA ApproveEnvelope ==
  ASSUME CoreInv, loop = "turn", Top.at = "envelope", approveEnvelope, UNCHANGED <<trust, written>>
  PROVE  CoreInv' /\ loop' = loop
<1>1. stack # << >> /\ CacheInv
  BY DEF CoreInv, AgreeInv
<1>2. /\ audit \in Seq(Record) /\ Story(audit) /\ Len(audit) \in Nat
      /\ Top \in FrameType /\ Top.who # Root /\ Top.who \in Children /\ Blank(audit, Top.who)
  <2>1. Placed(Top, Len(stack), Len(stack)) /\ Logged(Top, audit)
    BY <1>1, Here
  <2>2. Top.who # Root
    BY <2>1 DEF Placed
  <2> QED
    BY <1>1, <2>1, <2>2, Here DEF Logged, InChild
<1>3. /\ stack' = SetTop([Top EXCEPT !.at = "provider"])
      /\ granted' = granted \cup {<<Top.who, k>> : k \in {x \in Calls : x.tool \in Top.env}}
      /\ UNCHANGED <<loop, cache, registered, known, trust, written>>
  BY DEF approveEnvelope
<1>4. PICK r : r = Records(Top.who, Started) /\ Joins(audit, r, audit')
  BY Emits DEF approveEnvelope
<1>5. /\ audit' \in Seq(Record) /\ Story(audit') /\ Len(audit') = Len(audit) + 2
      /\ \A d : d # Top.who => Alike(audit, audit', d)
      /\ Open(audit', Top.who)
  BY <1>2, <1>4, EmitStarted
<1>6. LogOn
  BY <1>2, <1>5 DEF LogOn
<1> DEFINE f == [Top EXCEPT !.at = "provider"]
<1>7. /\ f \in FrameType /\ f.at = "provider" /\ f.who = Top.who /\ f.depth = Top.depth /\ f.env = Top.env
  <2>1. "provider" \in Places
    BY DEF Places
  <2> QED
    BY <1>2, <2>1, FrameAt
<1>8. stack' = SetTop(f)
  BY <1>3
<1> HIDE DEF f
<1>9. granted \subseteq granted' /\ CacheInv'
  BY <1>1, <1>3, CacheKept
<1>10. Agreed(f, granted', trust)
  <2>1. \A k \in Calls : k.tool \in f.env => <<f.who, k>> \in granted'
    BY <1>3, <1>7
  <2>2. f.at \notin {"exec", "child"}
    BY <1>7
  <2> QED
    BY <2>1, <2>2 DEF Agreed
<1>11. MayDelegate(f, stack, audit')
  BY <1>7 DEF MayDelegate
<1>12. /\ f.at \notin {"child", "envelope"} /\ f.at \notin {"approve", "exec"}
       /\ \A d : d # f.who => Alike(audit, audit', d)
       /\ Open(audit', f.who)
  BY <1>5, <1>7
<1> QED
  BY <1>3, <1>6, <1>7, <1>8, <1>9, <1>10, <1>11, <1>12, TopMoves

LEMMA ApproveCall ==
  ASSUME CoreInv, loop = "turn", Top.at = "approve", remember,
         execute(IF InChild THEN <<"Escalated">> ELSE << >>), UNCHANGED <<trust, written>>
  PROVE  CoreInv' /\ loop' = loop
<1>1. Placed(Top, Len(stack), Len(stack)) /\ MayDelegate(Top, stack, audit) /\ CacheInv
  BY Here DEF CoreInv, AgreeInv
<1>2. Top.todo # << >> /\ Top.at # "envelope"
  BY <1>1 DEF Placed
<1>3. Call \in Calls /\ Top.who \in Who
  BY <1>2, CallFacts
<1>4. granted \subseteq granted' /\ <<Top.who, Call>> \in granted'
  BY DEF remember
<1>5. CacheInv'
  <2>1. cache' \in [Who -> SUBSET Calls]
    BY <1>1, <1>3 DEF CacheInv, remember
  <2>2. ASSUME trust = "ask", NEW w \in Who, NEW k \in cache'[w] PROVE <<w, k>> \in granted'
    <3>1. k \in cache[w] \/ (w = Top.who /\ k = Call)
      BY <1>1, <2>2 DEF CacheInv, remember
    <3> QED
      BY <1>1, <1>4, <2>2, <3>1 DEF CacheInv
  <2> QED
    BY <2>1, <2>2 DEF CacheInv
<1>6. Call.tool = Delegate => MayOpen
  BY <1>1 DEF MayDelegate, MayOpen, Call
<1>7. CASE InChild
  <2>1. execute(<<"Escalated">>)
    BY <1>7
  <2> QED
    BY <1>2, <1>4, <1>5, <1>6, <1>7, <2>1, Escalates
<1>8. CASE ~InChild
  <2>1. execute(<< >>)
    BY <1>8
  <2> QED
    BY <1>2, <1>4, <1>5, <1>6, <2>1, Executes
<1> QED
  BY <1>7, <1>8

LEMMA Settles ==
  ASSUME CoreInv, Asking, NEW reply, settle(reply), UNCHANGED <<trust, written>>
  PROVE  CoreInv' /\ loop' = loop
<1>1. stack # << >> /\ loop = "turn"
  BY DEF Asking, CoreInv, AgreeInv
<1>2. CASE Top.at = "envelope"
  <2>1. Placed(Top, Len(stack), Len(stack))
    BY <1>1, Here
  <2>2. InChild
    BY <1>2, <2>1 DEF Placed, InChild
  <2>3. answerEnvelope(reply)
    BY <1>2 DEF settle
  <2>4. CASE approveEnvelope
    BY <1>1, <1>2, <2>4, ApproveEnvelope
  <2>5. CASE childEnds(<<"EnvelopeDenied">>)
    BY <1>1, <1>2, <2>2, <2>5, ChildDenied
  <2>6. CASE childEnds(<< >>)
    BY <1>1, <2>2, <2>6, ChildGone
  <2> QED
    BY <2>3, <2>4, <2>5, <2>6 DEF answerEnvelope
<1>3. CASE Top.at # "envelope"
  <2>1. Top.at = "approve" /\ answerApproval(reply)
    BY <1>3 DEF settle, Asking
  <2>2. Placed(Top, Len(stack), Len(stack))
    BY <1>1, Here
  <2>3. Top.todo # << >>
    BY <2>1, <2>2 DEF Placed
  <2>4. CASE remember /\ execute(IF InChild THEN <<"Escalated">> ELSE << >>)
    BY <1>1, <2>1, <2>4, ApproveCall
  <2>5. CASE refuse
    BY <1>1, <1>3, <2>3, <2>5, Refuses
  <2>6. CASE InChild /\ childEnds(<< >>)
    BY <1>1, <2>6, ChildGone
  <2> QED
    BY <2>1, <2>4, <2>5, <2>6 DEF answerApproval, childThrows
<1> QED
  BY <1>2, <1>3

-----------------------------------------------------------------------------
(***************************************************************************)
(* 6. The input loop, signals, crashes and resumption.                     *)
(***************************************************************************)
LEMMA BeginTurn ==
  ASSUME CoreInv, loop # "turn", beginTurn, UNCHANGED <<bookkeeping, trust, written>>
  PROVE  CoreInv' /\ loop' = "turn"
<1>1. /\ LogInv /\ CacheInv /\ stack = << >> /\ registered = OnStackOf(stack) /\ known = OnStackOf(stack)
      /\ audit \in Seq(Record) /\ loop' = "turn" /\ stack' = <<Frame(Root, 0, {})>>
      /\ UNCHANGED <<cache, registered, known, audit, granted, trust, written>>
  BY DEF CoreInv, AgreeInv, LogInv, beginTurn, bookkeeping
<1>2. OnStackOf(stack) = {}
  BY <1>1, EmptyStack
<1> DEFINE f == Frame(Root, 0, {})
<1>3. /\ f = [who |-> Root, depth |-> 0, env |-> {}, at |-> "provider", round |-> 0, todo |-> << >>]
  BY DEF Frame
<1>4. f \in FrameType
  <2>1. Root \in Who /\ 0 \in 0..MaxDepth /\ 0 \in 0..MaxRounds - 1 /\ << >> \in Seq(Calls) /\ "provider" \in Places
    BY SessionAssumption DEF Who, Places
  <2>2. {} \in Envelopes \cup {{}}
    OBVIOUS
  <2>3. \A e \in Envelopes \cup {{}} :
          [who |-> Root, depth |-> 0, env |-> e, at |-> "provider", round |-> 0, todo |-> << >>] \in FrameType
    BY <2>1 DEF FrameType
  <2> QED
    BY <1>3, <2>2, <2>3
<1>5. f.who = Root /\ f.depth = 0 /\ f.env = {} /\ f.at = "provider"
  BY <1>3
<1>6. stack' = <<f>>
  BY <1>1
<1> HIDE DEF f
<1>7. stack' \in Seq(FrameType) /\ Len(stack') = 1 /\ stack'[1] = f /\ stack' # << >>
  BY <1>4, <1>6
<1>8. Placed(f, 1, 1) /\ Agreed(f, granted', trust') /\ Logged(f, audit')
  BY <1>5 DEF Placed, Agreed, Logged
<1>9. MayDelegate(f, stack', audit')
  BY <1>5 DEF MayDelegate
<1>10. OnStackOf(stack') = {}
  BY <1>5, <1>7 DEF OnStackOf
<1>11. \A i \in 1..Len(stack') : i = 1
  BY <1>7
<1>12. StackInv(stack', granted', audit', trust')
  BY <1>7, <1>8, <1>9, <1>11 DEF StackInv
<1>13. CacheInv'
  BY <1>1, CacheKept
<1>14. LogInv'
  BY <1>1 DEF LogInv
<1>15. AgreeInv'
  BY <1>1, <1>2, <1>7, <1>10 DEF AgreeInv
<1> QED
  BY <1>1, <1>12, <1>13, <1>14, <1>15 DEF CoreInv

LEMMA Idle ==
  ASSUME CoreInv, loop # "turn", loop' # "turn", UNCHANGED <<stack, bookkeeping, trust>>, written' \in 0..Len(audit)
  PROVE  CoreInv'
<1>1. UNCHANGED <<stack, cache, registered, known, audit, granted, trust>>
  BY DEF bookkeeping
<1>2. CacheInv'
  BY <1>1, CacheKept DEF CoreInv
<1>3. LogInv'
  BY <1>1 DEF CoreInv, LogInv
<1>4. AgreeInv'
  BY <1>1 DEF CoreInv, AgreeInv
<1>5. StackInv(stack', granted', audit', trust')
  BY <1>1 DEF CoreInv
<1> QED
  BY <1>2, <1>3, <1>4, <1>5 DEF CoreInv

LEMMA TypeLine ==
  ASSUME SessionInv, typeLine
  PROVE  SessionInv'
<1>1. /\ CountsInv /\ CoreInv /\ lines < MaxLines /\ lines' = lines + 1
      /\ UNCHANGED <<headless, trust, aborted, resumes, bookkeeping, written>>
  BY DEF SessionInv, typeLine, launch
<1>2. CASE loop = "waiting" /\ beginTurn /\ UNCHANGED typed
  <2>1. CoreInv' /\ loop' = "turn"
    BY <1>1, <1>2, BeginTurn
  <2>2. CountsInv'
    BY <1>1, <1>2, <2>1, SessionAssumption DEF CountsInv
  <2> QED
    BY <2>1, <2>2 DEF SessionInv
<1>3. CASE loop = "turn" /\ typed' = typed + 1 /\ UNCHANGED <<loop, stack>>
  <2>1. UNCHANGED <<loop, stack, cache, registered, known, audit, granted, trust, written>>
    BY <1>1, <1>3 DEF bookkeeping
  <2>2. CoreInv'
    BY <1>1, <2>1 DEF CoreInv, LogInv, CacheInv, AgreeInv
  <2>3. CountsInv'
    BY <1>1, <1>3, <2>1, SessionAssumption DEF CountsInv
  <2> QED
    BY <2>2, <2>3 DEF SessionInv
<1> QED
  BY <1>2, <1>3 DEF typeLine

LEMMA InputStep ==
  ASSUME SessionInv, typeExit \/ teardownSession
  PROVE  SessionInv'
<1>1. CASE typeExit
  <2>1. /\ CountsInv /\ CoreInv /\ loop = "waiting" /\ loop' = "teardown"
        /\ UNCHANGED <<headless, trust, typed, aborted, lines, resumes, stack, bookkeeping, written>>
    BY <1>1 DEF SessionInv, typeExit, launch
  <2>2. written' \in 0..Len(audit)
    BY <2>1 DEF CoreInv, LogInv
  <2>3. CoreInv'
    BY <2>1, <2>2, Idle
  <2>4. CountsInv'
    BY <2>1 DEF CountsInv
  <2> QED
    BY <2>3, <2>4 DEF SessionInv
<1>2. CASE teardownSession
  <2>1. /\ CountsInv /\ CoreInv /\ loop = "teardown" /\ loop' = "closed" /\ written' = Len(audit)
        /\ UNCHANGED <<headless, trust, typed, aborted, lines, resumes, stack, bookkeeping>>
    BY <1>2 DEF SessionInv, teardownSession, launch
  <2>2. written' \in 0..Len(audit)
    BY <2>1 DEF CoreInv, LogInv
  <2>3. CoreInv'
    BY <2>1, <2>2, Idle
  <2>4. CountsInv'
    BY <2>1 DEF CountsInv
  <2> QED
    BY <2>3, <2>4 DEF SessionInv
<1> QED
  BY <1>1, <1>2

LEMMA WaitForInput ==
  ASSUME SessionInv, waitForInput
  PROVE  SessionInv'
<1>1. /\ CountsInv /\ CoreInv /\ loop = "next"
      /\ UNCHANGED <<headless, trust, aborted, resumes, bookkeeping, written>>
      /\ written' \in 0..Len(audit)
  BY DEF SessionInv, waitForInput, launch, CoreInv, LogInv
<1>2. CASE typed > 0 /\ typed' = typed - 1 /\ beginTurn /\ UNCHANGED lines
  <2>1. CoreInv' /\ loop' = "turn"
    BY <1>1, <1>2, BeginTurn
  <2>2. CountsInv'
    BY <1>1, <1>2, <2>1, SessionAssumption DEF CountsInv
  <2> QED
    BY <2>1, <2>2 DEF SessionInv
<1>3. CASE lines = 0 /\ lines' = 1 /\ beginTurn /\ UNCHANGED typed
  <2>1. CoreInv' /\ loop' = "turn"
    BY <1>1, <1>3, BeginTurn
  <2>2. CountsInv'
    BY <1>1, <1>3, <2>1, SessionAssumption DEF CountsInv
  <2> QED
    BY <2>1, <2>2 DEF SessionInv
<1>4. CASE loop' \in {"waiting", "teardown"} /\ UNCHANGED <<typed, stack, lines>>
  <2>1. CoreInv'
    BY <1>1, <1>4, Idle
  <2>2. CountsInv'
    BY <1>1, <1>4 DEF CountsInv
  <2> QED
    BY <2>1, <2>2 DEF SessionInv
<1> QED
  BY <1>2, <1>3, <1>4 DEF waitForInput

LEMMA Sigint ==
  ASSUME SessionInv, sigint
  PROVE  SessionInv'
<1>1. /\ CountsInv /\ CoreInv /\ loop \in {"waiting", "turn"} /\ aborted' = TRUE /\ typed' = 0
      /\ UNCHANGED <<headless, trust, written, lines, resumes>>
  BY DEF SessionInv, sigint, launch
<1>2. CoreInv' /\ loop' \in {loop, "teardown"}
  <2>1. CASE dismissed
    <3>1. Asking /\ settle("escape")
      BY <2>1 DEF dismissed
    <3> QED
      BY <1>1, <3>1, Settles
  <2>2. CASE ~Asking /\ loop' = (IF loop = "waiting" THEN "teardown" ELSE loop) /\ UNCHANGED <<stack, bookkeeping>>
    <3>1. written' \in 0..Len(audit)
      BY <1>1 DEF CoreInv, LogInv
    <3>2. CASE loop = "waiting"
      <4>1. loop' = "teardown"
        BY <2>2, <3>2
      <4> QED
        BY <1>1, <2>2, <3>1, <3>2, <4>1, Idle
    <3>3. CASE loop = "turn"
      <4>1. UNCHANGED <<loop, stack, cache, registered, known, audit, granted, trust, written>>
        BY <1>1, <2>2, <3>3 DEF bookkeeping
      <4> QED
        BY <1>1, <4>1 DEF CoreInv, LogInv, CacheInv, AgreeInv
    <3> QED
      BY <1>1, <3>2, <3>3
  <2> QED
    BY <2>1, <2>2 DEF sigint
<1>3. CountsInv'
  BY <1>1, <1>2, SessionAssumption DEF CountsInv
<1> QED
  BY <1>2, <1>3 DEF SessionInv

LEMMA Crash ==
  ASSUME SessionInv, crash
  PROVE  SessionInv'
<1>1. /\ CountsInv /\ CoreInv /\ loop' = "down" /\ stack' = << >> /\ registered' = {} /\ known' = {} /\ typed' = 0
      /\ UNCHANGED <<headless, trust, aborted, cache, granted, lines, resumes>>
  BY DEF SessionInv, crash, launch
<1>2. PICK n \in written..Len(audit) : written' = n /\ audit' = SubSeq(audit, 1, n)
  BY DEF crash
<1>3. audit \in Seq(Record) /\ Story(audit) /\ n \in 0..Len(audit)
  BY <1>1 DEF CoreInv, LogInv
<1>4. SubSeq(audit, 1, n) \in Seq(Record) /\ Len(SubSeq(audit, 1, n)) = n /\ \A i \in 1..n : SubSeq(audit, 1, n)[i] = audit[i]
  BY <1>3
<1>5. Extends(audit', audit) /\ Len(audit') = n
  BY <1>2, <1>3, <1>4 DEF Extends
<1>6. LogInv'
  <2>1. Story(audit')
    BY <1>3, <1>5, StoryCut
  <2>2. audit' \in Seq(Record) /\ written' \in 0..Len(audit')
    BY <1>2, <1>3, <1>5 DEF Extends
  <2> QED
    BY <2>1, <2>2 DEF LogInv
<1>7. CacheInv'
  BY <1>1, CacheKept DEF CoreInv
<1>8. StackInv(stack', granted', audit', trust') /\ OnStackOf(stack') = {}
  BY <1>1, EmptyStack
<1>9. AgreeInv'
  BY <1>1, <1>8 DEF AgreeInv
<1>10. CountsInv'
  BY <1>1, SessionAssumption DEF CountsInv
<1> QED
  BY <1>6, <1>7, <1>8, <1>9, <1>10 DEF SessionInv, CoreInv

LEMMA ResumeCounts ==
  ASSUME CountsInv, resume
  PROVE  CountsInv'
<1>1. /\ resumes \in 0..MaxResumes /\ resumes < MaxResumes /\ resumes' = resumes + 1
      /\ loop' = "next" /\ aborted' = FALSE /\ typed' = 0 /\ lines' = 0
      /\ UNCHANGED <<headless, trust>>
  BY DEF CountsInv, resume, launch
<1>2. resumes' \in 0..MaxResumes /\ 0 \in 0..MaxLines
  BY <1>1, SessionAssumption
<1> QED
  <2>1. headless' \in BOOLEAN /\ trust' \in {"ask", "mode-yolo", "yolo"} /\ aborted' \in BOOLEAN
    BY <1>1 DEF CountsInv
  <2>2. loop' \in {"next", "waiting", "turn", "teardown", "closed", "down"}
    BY <1>1
  <2>3. lines' \in 0..MaxLines /\ typed' \in 0..lines'
    BY <1>1, <1>2
  <2> QED
    BY <1>2, <2>1, <2>2, <2>3 DEF CountsInv

LEMMA Resume ==
  ASSUME SessionInv, resume
  PROVE  SessionInv'
<1>1. /\ CountsInv /\ CoreInv /\ ~Running /\ resumes < MaxResumes /\ resumes' = resumes + 1
      /\ loop' = "next" /\ aborted' = FALSE /\ typed' = 0 /\ lines' = 0
      /\ cache' = [w \in Who |-> {}] /\ granted' = {}
      /\ UNCHANGED <<headless, trust, stack, registered, known, written>>
  BY DEF SessionInv, resume, launch
<1>2. PICK order \in Bijection(1..Cardinality(Dangling), Dangling) :
         audit' = audit \o [i \in DOMAIN order |-> [who |-> order[i], kind |-> "Aborted"]]
  BY DEF resume
<1> DEFINE n == Cardinality(Dangling)
<1>3. audit \in Seq(Record) /\ Story(audit) /\ Len(audit) \in Nat /\ written \in 0..Len(audit)
  BY <1>1 DEF CoreInv, LogInv
<1>4. n \in Nat
  <2>1. IsFiniteSet(Children)
    BY SessionAssumption, FS_Interval DEF Children
  <2>2. Dangling \subseteq Children
    BY DEF Dangling
  <2>3. IsFiniteSet(Dangling)
    BY <2>1, <2>2, FS_Subset
  <2> QED
    BY <2>3, FS_CardinalityType
<1>5. order \in [1..n -> Dangling] /\ \A i, j \in 1..n : order[i] = order[j] => i = j
  BY <1>2 DEF Bijection, Injection, IsInjective
<1> HIDE DEF n
<1>6. \A i \in 1..n : order[i] \in Children /\ Open(audit, order[i])
  BY <1>3, <1>5, OpenSpawnIsOpen DEF Dangling
<1>7. PICK r : r = [i \in 1..n |-> [who |-> order[i], kind |-> "Aborted"]] /\ Joins(audit, r, audit')
  BY <1>2, <1>5 DEF Joins
<1>8. AbortsOf(r, n, order)
  BY <1>4, <1>6, <1>7, RecordsAborted
<1>9. Joins(audit, r, audit')
  BY <1>7
<1>10. audit' \in Seq(Record) /\ Story(audit') /\ Len(audit) <= Len(audit')
  BY <1>3, <1>4, <1>5, <1>6, <1>8, <1>9, EmitAborts
<1>11. LogInv'
  BY <1>1, <1>10, LogKept DEF LogOn, CoreInv
<1>12. CacheInv'
  BY <1>1 DEF CacheInv
<1>13. loop # "turn" /\ stack = << >> /\ registered = {} /\ known = {}
  <2>1. loop # "turn"
    BY <1>1 DEF Running
  <2>2. stack = << >>
    BY <1>1, <2>1 DEF CoreInv, AgreeInv
  <2> QED
    BY <1>1, <2>1, <2>2, EmptyStack DEF CoreInv, AgreeInv
<1>14. stack' = << >> /\ registered' = {} /\ known' = {}
  BY <1>1, <1>13
<1>15. StackInv(stack', granted', audit', trust') /\ OnStackOf(stack') = {}
  BY <1>14, EmptyStack
<1>16. AgreeInv'
  BY <1>1, <1>14, <1>15 DEF AgreeInv
<1>17. CountsInv'
  BY ResumeCounts DEF SessionInv
<1> QED
  BY <1>11, <1>12, <1>15, <1>16, <1>17 DEF SessionInv, CoreInv

-----------------------------------------------------------------------------
(***************************************************************************)
(* 7. The specification.                                                   *)
(***************************************************************************)
LEMMA SessionStart == Init => SessionInv
<1> SUFFICES ASSUME Init PROVE SessionInv
  OBVIOUS
<1>1. CountsInv
  <2>1. 0 \in 0..MaxLines /\ 0 \in 0..MaxResumes /\ 0 \in 0..0
    BY SessionAssumption
  <2> QED
    BY <2>1 DEF Init, CountsInv
<1>2. LogInv
  <2>1. audit = << >> /\ audit \in Seq(Record) /\ Len(audit) = 0 /\ written = 0
    BY DEF Init
  <2> QED
    BY <2>1 DEF LogInv, Story
<1>3. CacheInv
  BY DEF Init, CacheInv
<1>4. stack = << >> /\ registered = {} /\ known = {} /\ loop # "turn"
  BY DEF Init
<1>5. StackInv(stack, granted, audit, trust) /\ OnStackOf(stack) = {}
  BY <1>4, EmptyStack
<1>6. AgreeInv
  BY <1>4, <1>5 DEF AgreeInv
<1> QED
  BY <1>1, <1>2, <1>3, <1>5, <1>6 DEF SessionInv, CoreInv

LEMMA TurnStep ==
  ASSUME SessionInv, providerFails \/ providerStops \/ providerCalls \/ nextRound \/ cancelBatch \/ rejectCall
                     \/ admitCall \/ escalateCall \/ delegateThrows \/ askApproval \/ toolEnds \/ openChild
                     \/ userAnswers
  PROVE  SessionInv'
<1>1. CountsInv /\ CoreInv
  BY DEF SessionInv
<1>2. quiet
  BY DEF providerFails, providerStops, providerCalls, nextRound, cancelBatch, rejectCall, admitCall, escalateCall,
         delegateThrows, askApproval, toolEnds, openChild, userAnswers
<1>3. CASE providerFails \/ providerStops \/ providerCalls
  BY <1>1, <1>2, <1>3, ProviderStep, Quiet DEF SessionInv
<1>4. CASE nextRound
  BY <1>1, <1>2, <1>4, NextRound, Quiet DEF SessionInv
<1>5. CASE cancelBatch
  BY <1>1, <1>2, <1>5, CancelBatch, Quiet DEF SessionInv
<1>6. CASE rejectCall \/ admitCall \/ escalateCall \/ delegateThrows \/ toolEnds
  BY <1>1, <1>2, <1>6, CallStep, Quiet DEF SessionInv
<1>7. CASE askApproval
  BY <1>1, <1>2, <1>7, AskApproval, Quiet DEF SessionInv
<1>8. CASE openChild
  BY <1>1, <1>2, <1>8, OpenChild, Quiet DEF SessionInv
<1>9. CASE userAnswers
  <2>1. Asking /\ \E reply \in Replies : settle(reply)
    BY <1>9 DEF userAnswers
  <2> QED
    BY <1>1, <1>2, <2>1, Settles, QuietKeeps, Quiet DEF SessionInv
<1> QED
  BY <1>3, <1>4, <1>5, <1>6, <1>7, <1>8, <1>9

LEMMA SessionStutter ==
  ASSUME SessionInv, UNCHANGED vars
  PROVE  SessionInv'
<1>1. UNCHANGED <<headless, trust, loop, typed, aborted, stack, cache, registered, known, audit, granted, written,
                  lines, resumes>>
  BY DEF vars, launch, bookkeeping
<1> QED
  BY <1>1 DEF SessionInv, CountsInv, CoreInv, LogInv, CacheInv, AgreeInv

LEMMA SessionStep == SessionInv /\ [Next]_vars => SessionInv'
<1> SUFFICES ASSUME SessionInv, [Next]_vars PROVE SessionInv'
  OBVIOUS
<1>1. CASE waitForInput
  BY <1>1, WaitForInput
<1>2. CASE typeExit \/ teardownSession
  BY <1>2, InputStep
<1>3. CASE typeLine
  BY <1>3, TypeLine
<1>4. CASE sigint
  BY <1>4, Sigint
<1>5. CASE crash
  BY <1>5, Crash
<1>6. CASE resume
  BY <1>6, Resume
<1>7. CASE UNCHANGED vars
  BY <1>7, SessionStutter
<1>8. CASE providerFails \/ providerStops \/ providerCalls \/ nextRound \/ cancelBatch \/ rejectCall
           \/ admitCall \/ escalateCall \/ delegateThrows \/ askApproval \/ toolEnds \/ openChild \/ userAnswers
  BY <1>8, TurnStep
<1> QED
  BY <1>1, <1>2, <1>3, <1>4, <1>5, <1>6, <1>7, <1>8 DEF Next, Progress

LEMMA SessionAlways == Spec => []SessionInv
BY SessionStart, SessionStep, PTL DEF Spec

-----------------------------------------------------------------------------
(***************************************************************************)
(* 8. What the invariant says.                                             *)
(***************************************************************************)
LEMMA FrameFacts ==
  ASSUME SessionInv, NEW i \in DOMAIN stack
  PROVE  /\ i \in 1..Len(stack) /\ stack[i] \in FrameType /\ Placed(stack[i], i, Len(stack))
         /\ Agreed(stack[i], granted, trust) /\ Logged(stack[i], audit)
BY DEF SessionInv, CoreInv, StackInv

LEMMA InvImpliesTypeOK == SessionInv => TypeOK
<1> SUFFICES ASSUME SessionInv PROVE TypeOK
  OBVIOUS
<1>1. /\ headless \in BOOLEAN /\ trust \in {"ask", "mode-yolo", "yolo"}
      /\ loop \in {"next", "waiting", "turn", "teardown", "closed", "down"} /\ aborted \in BOOLEAN
  BY DEF SessionInv, CountsInv
<1>2. lines \in 0..MaxLines /\ typed \in 0..MaxLines /\ resumes \in 0..MaxResumes
  BY SessionAssumption DEF SessionInv, CountsInv
<1>3. ASSUME NEW i \in DOMAIN stack
      PROVE  /\ stack[i].who = Root <=> i = 1
             /\ stack[i].who \in Who /\ stack[i].depth = i - 1 /\ stack[i].depth <= MaxDepth
             /\ stack[i].at \in Places /\ (stack[i].at = "child" <=> i < Len(stack))
             /\ stack[i].round \in 0..MaxRounds - 1
  <2>1. stack[i] \in FrameType /\ Placed(stack[i], i, Len(stack))
    BY FrameFacts
  <2>2. /\ stack[i].who \in Who /\ stack[i].depth \in 0..MaxDepth /\ stack[i].at \in Places
        /\ stack[i].round \in 0..MaxRounds - 1
    BY <2>1 DEF FrameType
  <2>3. stack[i].depth <= MaxDepth
    BY <2>2, SessionAssumption
  <2> QED
    BY <2>1, <2>2, <2>3 DEF Placed
<1>4. (loop = "turn" <=> stack # << >>) /\ registered = OnStackOf(stack) /\ known = OnStackOf(stack)
  BY DEF SessionInv, CoreInv, AgreeInv
<1>5. cache \in [Who -> SUBSET Calls]
  BY DEF SessionInv, CoreInv, CacheInv
<1>6. OnStackOf(stack) \subseteq Children
  BY FrameFacts DEF OnStackOf, FrameType, Who, SessionInv, CoreInv, StackInv
<1>7. (\A i \in DOMAIN audit : audit[i].who \in Children) /\ written \in 0..Len(audit)
  <2>1. audit \in Seq(Record) /\ written \in 0..Len(audit)
    BY DEF SessionInv, CoreInv, LogInv
  <2>2. ASSUME NEW i \in DOMAIN audit PROVE audit[i] \in Record
    BY <2>1
  <2>3. \A r \in Record : r.who \in Children
    BY DEF Record
  <2> QED
    BY <2>1, <2>2, <2>3
<1> QED
  BY <1>1, <1>2, <1>3, <1>4, <1>5, <1>6, <1>7 DEF TypeOK

LEMMA AtMostOne ==
  ASSUME NEW S, \A x, y \in S : x = y
  PROVE  Cardinality(S) <= 1
<1>1. CASE S = {}
  BY <1>1, FS_EmptySet
<1>2. CASE S # {}
  <2>1. PICK x : S = {x}
    BY <1>2
  <2> QED
    BY <2>1, FS_Singleton
<1> QED
  BY <1>1, <1>2

LEMMA InvImpliesOneStory == SessionInv => OneStory
<1> SUFFICES ASSUME SessionInv, NEW c \in Children
             PROVE  LET decided == Position(c, {"EnvelopeApproved", "EnvelopeDenied"})
                        spawned == Position(c, {"Spawned"})
                        ended   == Position(c, Terminals)
                        others  == Position(c, {"Spawned", "Escalated"} \cup Terminals)
                    IN  /\ Cardinality(decided) <= 1 /\ Cardinality(spawned) <= 1 /\ Cardinality(ended) <= 1
                        /\ \A o \in others : \E d \in decided : d < o /\ audit[d].kind = "EnvelopeApproved"
                        /\ \A e \in ended : \A o \in others : o <= e
                        /\ \A e \in ended : \E b \in spawned : b < e
  BY DEF OneStory
<1> DEFINE decided == Position(c, {"EnvelopeApproved", "EnvelopeDenied"})
           spawned == Position(c, {"Spawned"})
           ended   == Position(c, Terminals)
           others  == Position(c, {"Spawned", "Escalated"} \cup Terminals)
<1>1. audit \in Seq(Record) /\ Story(audit) /\ DOMAIN audit = 1..Len(audit) /\ Len(audit) \in Nat
  BY DEF SessionInv, CoreInv, LogInv
<1>2. \A i, j \in 1..Len(audit) : audit[i].who = audit[j].who /\ Once(audit[i].kind, audit[j].kind) => i = j
  BY <1>1 DEF Story
<1>3. Cardinality(decided) <= 1
  <2>1. \A x, y \in decided : x = y
    BY <1>1, <1>2 DEF Position, Once, Decisions
  <2> QED
    BY <2>1, AtMostOne
<1>4. Cardinality(spawned) <= 1
  <2>1. \A x, y \in spawned : x = y
    BY <1>1, <1>2 DEF Position, Once
  <2> QED
    BY <2>1, AtMostOne
<1>5. Cardinality(ended) <= 1
  <2>1. \A x, y \in ended : x = y
    BY <1>1, <1>2 DEF Position, Once
  <2> QED
    BY <2>1, AtMostOne
<1>6. \A o \in others : o \in 1..Len(audit) /\ audit[o].who = c /\ audit[o].kind \notin Decisions
  BY <1>1 DEF Position, Decisions, Terminals
<1>7. ASSUME NEW o \in others PROVE \E d \in decided : d < o /\ audit[d].kind = "EnvelopeApproved"
  <2>1. o \in 1..Len(audit) /\ audit[o].who = c /\ Before(audit, o, "EnvelopeApproved")
    BY <1>1, <1>6 DEF Story
  <2>2. PICK d \in 1..(o - 1) : audit[d].who = c /\ audit[d].kind = "EnvelopeApproved"
    BY <2>1 DEF Before
  <2>3. d \in 1..Len(audit) /\ d < o
    BY <1>1, <2>1
  <2> QED
    BY <1>1, <2>2, <2>3 DEF Position
<1>8. ASSUME NEW e \in ended
      PROVE  e \in 1..Len(audit) /\ audit[e].who = c /\ audit[e].kind \in Terminals
  BY <1>1 DEF Position
<1>9. ASSUME NEW e \in ended, NEW o \in others PROVE o <= e
  BY <1>1, <1>6, <1>8 DEF Story
<1>10. ASSUME NEW e \in ended PROVE \E b \in spawned : b < e
  <2>1. e \in 1..Len(audit) /\ audit[e].who = c /\ Before(audit, e, "Spawned")
    BY <1>1, <1>8 DEF Story
  <2>2. PICK d \in 1..(e - 1) : audit[d].who = c /\ audit[d].kind = "Spawned"
    BY <2>1 DEF Before
  <2>3. d \in 1..Len(audit) /\ d < e
    BY <1>1, <2>1
  <2> QED
    BY <1>1, <2>2, <2>3 DEF Position
<1> QED
  BY <1>3, <1>4, <1>5, <1>7, <1>9, <1>10

LEMMA InvImpliesAgree == SessionInv => RegistriesAgree /\ LiveChildIsOpen
<1> SUFFICES ASSUME SessionInv PROVE RegistriesAgree /\ LiveChildIsOpen
  OBVIOUS
<1>1. stack \in Seq(FrameType) /\ audit \in Seq(Record) /\ registered = OnStackOf(stack) /\ known = OnStackOf(stack)
  BY DEF SessionInv, CoreInv, LogInv, StackInv, AgreeInv
<1>2. DOMAIN stack = 1..Len(stack)
  BY <1>1
<1>3. RegistriesAgree
  BY <1>1, <1>2 DEF RegistriesAgree, OnStack, OnStackOf
<1>4. LiveChildIsOpen
  BY <1>1, FrameFacts, OpenSpawnIsOpen DEF LiveChildIsOpen, Logged
<1> QED
  BY <1>3, <1>4

LEMMA InvImpliesApproved == SessionInv => ToolsRunOnlyIfApproved
<1> SUFFICES ASSUME SessionInv, NEW i \in DOMAIN stack, stack[i].at \in {"exec", "child"},
                    Head(stack[i].todo).tool \in Gated \cup {Delegate}, trust = "ask"
             PROVE  <<stack[i].who, Head(stack[i].todo)>> \in granted
  BY DEF ToolsRunOnlyIfApproved
<1> QED
  BY FrameFacts DEF Agreed

(***************************************************************************)
(* A session keeps its types: no deeper, no longer and with no more rounds *)
(* than its limits, for any tools, envelopes, limits and number of         *)
(* children, lines, crashes and resumptions.                               *)
(***************************************************************************)
THEOREM SessionTypes == Spec => []TypeOK
BY SessionAlways, InvImpliesTypeOK, PTL

(***************************************************************************)
(* The records of a child tell one story through crashes and resumptions;  *)
(* session registry, authority and running sessions name the same          *)
(* children, and one that runs is open in the log.                         *)
(***************************************************************************)
THEOREM ChildrenAddUp == Spec => []ChildRecordsAddUp
<1>1. SessionInv => ChildRecordsAddUp
  BY InvImpliesOneStory, InvImpliesAgree DEF ChildRecordsAddUp
<1> QED
  BY <1>1, SessionAlways, PTL

(***************************************************************************)
(* A gated tool runs for a session only when the user approved it for that *)
(* session, alone or with its envelope, or a yolo trust stands for them.   *)
(***************************************************************************)
THEOREM ApprovalsStayHome == Spec => []ToolsRunOnlyIfApproved
BY SessionAlways, InvImpliesApproved, PTL
=============================================================================
