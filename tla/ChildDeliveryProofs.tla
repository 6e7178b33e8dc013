------------------------ MODULE ChildDeliveryProofs ------------------------
(***************************************************************************)
(* Machine-checked proofs about ChildDelivery, for every value of its      *)
(* constants: the two tables of reports agree, a registered delivery run   *)
(* has exactly one turn that will remove it, reports are executed in the   *)
(* order of arrival and once, and retries are bounded.                     *)
(***************************************************************************)
EXTENDS ChildDelivery, FiniteSetTheorems, SequenceTheorems, TLAPS

-----------------------------------------------------------------------------
(* The inductive invariant.                                                *)

Active == {"popped", "enter", "run", "turned", "retire"}
Resting == {"step", "post", "empty", "drained", "leaving", "asleep", "exit"}
Publishing == {"settle", "publish"}
Fates == {"none", "pending", "executed", "discarded", "rejected"}
ChildStates == {"run", "retired", "published", "drained", "notified"}

Types ==
    /\ order \in Seq(Reports) /\ fate \in [Reports -> Fates]
    /\ retried \subseteq Reports /\ fresh \subseteq Reports /\ suspended \in BOOLEAN
    /\ runs \subseteq SUBSET Reports /\ barren \in Nat
    /\ open \in BOOLEAN /\ guard \in BOOLEAN /\ token \in BOOLEAN /\ wake \in BOOLEAN
    /\ ops \in Seq(Work) /\ queue \in Seq(Work) /\ pubs \in Nat
    /\ rpc \in Active \cup Resting \cup Publishing /\ cur \in Work
    /\ cut \in BOOLEAN /\ inbox \in BOOLEAN /\ busy \in BOOLEAN
    /\ cpc \in {"none", "retire"} \cup Publishing /\ cwork \in Seq(Work)
    /\ cphase \in {"cut", "failed", "deferred", "queue"}
    /\ child \in [Reports -> ChildStates]
    /\ wpc \in {"off", "check", "poll", "wait", "again", "done"}
    /\ unchecked \subseteq Actors /\ heard \subseteq Actors

\* x is in the sequence at most once.
Once(s, x) == \A i, j \in DOMAIN s : s[i] = x /\ s[j] = x => i = j

\* delivery_order lists the pending reports, each once; a closed parent has
\* none, and what a child has not published has no fate yet.
OrderInv ==
    /\ SeqSet(order) = Pending
    /\ \A r \in Reports : Once(order, r)
    /\ ~open => order = <<>>
    /\ \A r \in Reports : child[r] \in {"run", "retired"} => fate[r] = "none"

\* The four that can hold the delivery turn.
InOps == Delivery \in SeqSet(ops)
InQueue == Delivery \in SeqSet(queue)
WithRunner == cur = Delivery /\ rpc \in Active \cup {"settle"}
WithCutter == Delivery \in SeqSet(cwork) /\ ~(cpc = "publish" /\ Head(cwork) = Delivery)

\* A run is registered exactly while one of them, and no second one, holds its
\* turn; a thread that cuts has work to finalize.
HolderInv ==
    /\ Once(ops, Delivery) /\ Once(queue, Delivery) /\ Once(cwork, Delivery)
    /\ InOps => ~InQueue /\ ~WithRunner /\ ~WithCutter
    /\ InQueue => ~WithRunner /\ ~WithCutter
    /\ WithRunner => ~WithCutter
    /\ runs # {} <=> InOps \/ InQueue \/ WithRunner \/ WithCutter
    /\ \A a, b \in runs : a = b
CutterInv ==
    /\ cpc = "none" => cwork = <<>> /\ cphase = "cut"
    /\ cpc \in Publishing => cwork # <<>>

\* pending_publications counts the runner, the cutter and a failed preparation.
One(b) == IF b THEN 1 ELSE 0
PubInv == pubs = One(rpc \in Publishing) + One(cpc \in Publishing) + One(cphase = "failed")

\* What a run may still add to the count of barren ones is paid for: nothing
\* while deliveries are suspended, one run otherwise, and a second one only
\* when reports arrived during the first, which started the count again.
RetryInv ==
    /\ IsFiniteSet(retried) /\ \A b \in runs : IsFiniteSet(b)
    /\ suspended => runs = {}
    /\ barren <= 2 + Cardinality(retried)
    /\ ~suspended => barren <= 1 + Cardinality(retried)
    /\ runs # {} /\ fresh # {} => barren <= Cardinality(retried)

DeliveryInv == Types /\ OrderInv /\ HolderInv /\ CutterInv /\ PubInv /\ RetryInv

-----------------------------------------------------------------------------
(* Sequences.                                                              *)

LEMMA MembersAre ==
    ASSUME NEW S, NEW s \in Seq(S)
    PROVE  /\ SeqSet(s) \subseteq S
           /\ \A i \in DOMAIN s : s[i] \in SeqSet(s)
           /\ DOMAIN s = 1..Len(s) /\ Len(s) \in Nat
           /\ s = <<>> <=> SeqSet(s) = {}
  <1>1. s # <<>> => 1 \in DOMAIN s
    OBVIOUS
  <1>2. s = <<>> => SeqSet(s) = {}
    BY DEF SeqSet
  <1>3. s # <<>> => SeqSet(s) # {}
    BY <1>1 DEF SeqSet
  <1>4. QED
    BY <1>2, <1>3 DEF SeqSet

LEMMA EmptyHas == SeqSet(<<>>) = {} /\ \A x : Once(<<>>, x)
  BY DEF SeqSet, Once

LEMMA SingleHas ==
    ASSUME NEW S, NEW x \in S
    PROVE  /\ <<x>> \in Seq(S) /\ SeqSet(<<x>>) = {x} /\ \A y : Once(<<x>>, y)
           /\ Head(<<x>>) = x /\ <<x>> # <<>>
  BY DEF SeqSet, Once

LEMMA AppendHas ==
    ASSUME NEW S, NEW s \in Seq(S), NEW a \in S
    PROVE  /\ Append(s, a) \in Seq(S) /\ SeqSet(Append(s, a)) = SeqSet(s) \cup {a}
           /\ \A x : Once(s, x) /\ (x = a => a \notin SeqSet(s)) => Once(Append(s, a), x)
  <1> DEFINE b == Append(s, a)
  <1>1. /\ b \in Seq(S) /\ Len(s) \in Nat
        /\ DOMAIN b = 1..Len(s) + 1 /\ DOMAIN s = 1..Len(s)
        /\ \A i \in DOMAIN s : b[i] = s[i]
        /\ b[Len(s) + 1] = a
    OBVIOUS
  <1> HIDE DEF b
  <1>2. SeqSet(b) = SeqSet(s) \cup {a}
    BY <1>1 DEF SeqSet
  <1>3. ASSUME NEW x, Once(s, x), x = a => a \notin SeqSet(s) PROVE Once(b, x)
    <2>1. \A i \in DOMAIN b : i \in DOMAIN s \/ (i = Len(s) + 1 /\ b[i] = a)
      BY <1>1
    <2>2. \A i \in DOMAIN s : b[i] = s[i] /\ s[i] \in SeqSet(s)
      BY <1>1 DEF SeqSet
    <2>3. QED
      BY <1>3, <2>1, <2>2 DEF Once
  <1>4. QED
    BY <1>1, <1>2, <1>3 DEF b

LEMMA TailHas ==
    ASSUME NEW S, NEW s \in Seq(S), s # <<>>
    PROVE  /\ Tail(s) \in Seq(S) /\ Head(s) \in S
           /\ SeqSet(s) = SeqSet(Tail(s)) \cup {Head(s)}
           /\ \A x : Once(s, x) => Once(Tail(s), x)
           /\ Once(s, Head(s)) => Head(s) \notin SeqSet(Tail(s))
  <1> DEFINE a == Tail(s)
             h == Head(s)
  <1>1. /\ a \in Seq(S) /\ h \in S
        /\ Len(s) \in Nat /\ Len(s) > 0
        /\ DOMAIN a = 1..Len(s) - 1 /\ DOMAIN s = 1..Len(s)
        /\ \A i \in DOMAIN a : a[i] = s[i + 1]
        /\ h = s[1]
    OBVIOUS
  <1> HIDE DEF a, h
  <1>2. \A i \in DOMAIN a : i \in Nat /\ i + 1 \in DOMAIN s /\ i + 1 # 1
    BY <1>1
  <1>3. 1 \in DOMAIN s /\ \A i \in DOMAIN s : i = 1 \/ (i - 1 \in DOMAIN a /\ a[i - 1] = s[i])
    BY <1>1
  <1>4. SeqSet(s) = SeqSet(a) \cup {h}
    BY <1>1, <1>2, <1>3 DEF SeqSet
  <1>5. ASSUME NEW x, Once(s, x), NEW i \in DOMAIN a, NEW j \in DOMAIN a, a[i] = x, a[j] = x PROVE i = j
    <2>1. i + 1 = j + 1
      BY <1>1, <1>2, <1>5 DEF Once
    <2>2. QED
      BY <1>2, <2>1
  <1>6. ASSUME Once(s, h), NEW i \in DOMAIN a, a[i] = h PROVE FALSE
    BY <1>1, <1>2, <1>3, <1>6 DEF Once
  <1>7. QED
    BY <1>1, <1>4, <1>5, <1>6 DEF a, h, Once, SeqSet

LEMMA ConcatHas ==
    ASSUME NEW S, NEW s \in Seq(S), NEW r \in Seq(S)
    PROVE  /\ s \o r \in Seq(S)
           /\ SeqSet(s \o r) = SeqSet(s) \cup SeqSet(r)
           /\ \A x : Once(s, x) /\ Once(r, x) /\ ~(x \in SeqSet(s) /\ x \in SeqSet(r)) => Once(s \o r, x)
  <1> DEFINE c == s \o r
  <1>1. /\ c \in Seq(S)
        /\ Len(s) \in Nat /\ Len(r) \in Nat
        /\ DOMAIN c = 1..Len(s) + Len(r) /\ DOMAIN s = 1..Len(s) /\ DOMAIN r = 1..Len(r)
        /\ \A i \in DOMAIN c : c[i] = IF i <= Len(s) THEN s[i] ELSE r[i - Len(s)]
    OBVIOUS
  <1> HIDE DEF c
  <1>2. \A i \in DOMAIN s : i \in DOMAIN c /\ c[i] = s[i]
    BY <1>1
  <1>3. \A i \in DOMAIN r : i + Len(s) \in DOMAIN c /\ c[i + Len(s)] = r[i]
    BY <1>1
  <1>4. \A i \in DOMAIN c : \/ i \in DOMAIN s /\ c[i] = s[i]
                            \/ i > Len(s) /\ i - Len(s) \in DOMAIN r /\ c[i] = r[i - Len(s)]
    BY <1>1
  <1>5. SeqSet(c) = SeqSet(s) \cup SeqSet(r)
    BY <1>2, <1>3, <1>4 DEF SeqSet
  <1>6. ASSUME NEW x, Once(s, x), Once(r, x), ~(x \in SeqSet(s) /\ x \in SeqSet(r)),
               NEW i \in DOMAIN c, NEW j \in DOMAIN c, c[i] = x, c[j] = x
        PROVE  i = j
    <2>1. CASE i \in DOMAIN s /\ j \in DOMAIN s
      BY <1>2, <1>6, <2>1 DEF Once
    <2>2. CASE i - Len(s) \in DOMAIN r /\ c[i] = r[i - Len(s)] /\ j - Len(s) \in DOMAIN r /\ c[j] = r[j - Len(s)]
      <3>1. i - Len(s) = j - Len(s)
        BY <1>6, <2>2 DEF Once
      <3>2. QED
        BY <1>1, <3>1
    <2>3. CASE i \in DOMAIN s /\ c[i] = s[i] /\ j - Len(s) \in DOMAIN r /\ c[j] = r[j - Len(s)]
      BY <1>6, <2>3 DEF SeqSet
    <2>4. CASE j \in DOMAIN s /\ c[j] = s[j] /\ i - Len(s) \in DOMAIN r /\ c[i] = r[i - Len(s)]
      BY <1>6, <2>4 DEF SeqSet
    <2>5. QED
      BY <1>4, <2>1, <2>2, <2>3, <2>4
  <1>7. QED
    BY <1>1, <1>5, <1>6 DEF c, Once

LEMMA WithoutHas ==
    ASSUME NEW S, NEW s \in Seq(S), NEW a \in SeqSet(s)
    PROVE  /\ Without(s, a) \in Seq(S)
           /\ \A x : x # a => (x \in SeqSet(Without(s, a)) <=> x \in SeqSet(s))
           /\ SeqSet(Without(s, a)) \subseteq SeqSet(s)
           /\ Once(s, a) => a \notin SeqSet(Without(s, a))
           /\ \A x : Once(s, x) => Once(Without(s, a), x)
  <1> DEFINE k == CHOOSE i \in DOMAIN s : s[i] = a
             n == Len(s)
             w == [i \in 1..n - 1 |-> IF i < k THEN s[i] ELSE s[i + 1]]
  <1>0. w = Without(s, a)
    BY DEF Without
  <1>1. k \in DOMAIN s /\ s[k] = a
    BY DEF SeqSet
  <1>2. n \in Nat /\ DOMAIN s = 1..n /\ k \in 1..n /\ \A i \in 1..n : s[i] \in S
    BY <1>1
  <1> HIDE DEF k, n
  <1>3. DOMAIN w = 1..n - 1 /\ \A i \in 1..n - 1 : w[i] = IF i < k THEN s[i] ELSE s[i + 1]
    OBVIOUS
  <1>4. w \in [1..n - 1 -> S]
    BY <1>2
  <1> HIDE DEF w
  <1>5. w \in Seq(S)
    <2> DEFINE m == n - 1
    <2>1. m \in Nat /\ w \in [1..m -> S]
      BY <1>2, <1>4
    <2> HIDE DEF m
    <2>2. QED
      BY <2>1
  <1>6. \A i \in DOMAIN w : \E j \in DOMAIN s : j # k /\ w[i] = s[j] /\ j = IF i < k THEN i ELSE i + 1
    BY <1>2, <1>3
  <1>7. ASSUME NEW j \in DOMAIN s, j # k PROVE \E i \in DOMAIN w : w[i] = s[j]
    <2>1. CASE j < k
      <3>1. j \in DOMAIN w /\ w[j] = s[j]
        BY <1>2, <1>3, <2>1
      <3>2. QED
        BY <3>1
    <2>2. CASE j > k
      <3>1. j - 1 \in DOMAIN w /\ w[j - 1] = s[j]
        BY <1>2, <1>3, <2>2
      <3>2. QED
        BY <3>1
    <2>3. QED
      BY <1>2, <1>7, <2>1, <2>2
  <1>8. SeqSet(w) \subseteq SeqSet(s) /\ \A x \in SeqSet(s) : x # a => x \in SeqSet(w)
    <2>1. SeqSet(w) \subseteq SeqSet(s)
      BY <1>6 DEF SeqSet
    <2>2. \A x \in SeqSet(s) : x # a => x \in SeqSet(w)
      BY <1>1, <1>7 DEF SeqSet
    <2>3. QED
      BY <2>1, <2>2
  <1>9. ASSUME Once(s, a) PROVE a \notin SeqSet(w)
    BY <1>1, <1>6, <1>9 DEF Once, SeqSet
  <1>10. ASSUME NEW x, Once(s, x), NEW i \in DOMAIN w, NEW j \in DOMAIN w, w[i] = x, w[j] = x PROVE i = j
    <2>1. PICK b \in DOMAIN s : w[i] = s[b] /\ b = IF i < k THEN i ELSE i + 1
      BY <1>6
    <2>2. PICK c \in DOMAIN s : w[j] = s[c] /\ c = IF j < k THEN j ELSE j + 1
      BY <1>6
    <2>3. b = c
      BY <1>10, <2>1, <2>2 DEF Once
    <2>4. QED
      BY <1>2, <1>3, <2>1, <2>2, <2>3
  <1>11. QED
    BY <1>0, <1>5, <1>8, <1>9, <1>10 DEF Once

\* What is left of a sequence after its first n members.
Rest(s, n) == SubSeq(s, n + 1, Len(s))

LEMMA DropHas ==
    ASSUME NEW S, NEW s \in Seq(S), NEW n \in 1..Len(s), \A x \in S : Once(s, x),
           NEW d, d = Rest(s, n)
    PROVE  /\ d \in Seq(S) /\ \A x \in S : Once(d, x)
           /\ \A x : x \in SeqSet(d) <=> x \in SeqSet(s) /\ \A i \in 1..n : s[i] # x
  <1> DEFINE m == Len(s) - n
  <1>1. /\ d \in Seq(S) /\ m \in Nat /\ n \in Nat /\ Len(s) \in Nat
        /\ DOMAIN d = 1..m /\ DOMAIN s = 1..Len(s)
        /\ \A i \in 1..m : d[i] = s[i + n]
    <2>1. n + 1 \in 1..Len(s) + 1 /\ Len(s) \in Nat /\ m \in Nat /\ n \in Nat
      OBVIOUS
    <2>2. /\ d \in Seq(S)
          /\ Len(d) = IF n + 1 <= Len(s) THEN Len(s) - (n + 1) + 1 ELSE 0
          /\ \A i \in 1..Len(s) - (n + 1) + 1 : d[i] = s[n + 1 + i - 1]
      BY <2>1, SubSeqProperties DEF Rest
    <2>3. Len(d) = m /\ Len(s) - (n + 1) + 1 = m /\ \A i \in 1..m : n + 1 + i - 1 = i + n
      BY <2>1, <2>2
    <2> HIDE DEF m
    <2>4. DOMAIN d = 1..m /\ DOMAIN s = 1..Len(s)
      BY <2>2, <2>3
    <2>5. \A i \in 1..m : d[i] = s[i + n]
      BY <2>2, <2>3
    <2>6. QED
      BY <2>1, <2>2, <2>4, <2>5
  <1>2. \A i \in DOMAIN d : i \in Nat /\ i + n \in DOMAIN s /\ d[i] = s[i + n]
    BY <1>1
  <1>3. \A i \in DOMAIN s : i \in 1..n \/ (i - n \in DOMAIN d /\ d[i - n] = s[i])
    <2>1. \A i \in 1..Len(s) : i \in 1..n \/ (i - n \in 1..m /\ i - n + n = i)
      BY <1>1
    <2> HIDE DEF m
    <2>2. \A i \in 1..m : d[i] = s[i + n]
      BY <1>1
    <2>3. QED
      BY <1>1, <2>1, <2>2
  <1>4. \A i \in 1..n : i \in DOMAIN s
    BY <1>1
  <1>5. \A i \in DOMAIN d : i + n \notin 1..n
    BY <1>1
  <1>6. \A i \in DOMAIN s : s[i] \in S
    BY <1>1
  <1>7. ASSUME NEW x \in SeqSet(d) PROVE x \in SeqSet(s) /\ \A i \in 1..n : s[i] # x
    <2>1. PICK i \in DOMAIN d : d[i] = x
      BY DEF SeqSet
    <2>2. i + n \in DOMAIN s /\ s[i + n] = x /\ x \in S
      BY <1>2, <1>6, <2>1
    <2>3. \A j \in 1..n : s[j] # x
      BY <1>4, <1>5, <2>1, <2>2 DEF Once
    <2>4. QED
      BY <2>2, <2>3 DEF SeqSet
  <1>8. ASSUME NEW x \in SeqSet(s), \A i \in 1..n : s[i] # x PROVE x \in SeqSet(d)
    BY <1>3, <1>8 DEF SeqSet
  <1>9. ASSUME NEW x \in S, NEW i \in DOMAIN d, NEW j \in DOMAIN d, d[i] = x, d[j] = x PROVE i = j
    <2>1. i + n = j + n
      BY <1>2, <1>9 DEF Once
    <2>2. QED
      BY <1>1, <1>2, <2>1
  <1>10. QED
    BY <1>1, <1>7, <1>8, <1>9 DEF Once

LEMMA OnlyHas ==
    ASSUME NEW S, NEW s \in Seq(S), NEW w \in S
    PROVE  /\ Only(s, w) \in Seq(S) /\ \A x : Once(Only(s, w), x)
           /\ \A x : x \in SeqSet(Only(s, w)) <=> x = w /\ w \in SeqSet(s)
  <1>1. CASE w \in SeqSet(s)
    BY <1>1, SingleHas DEF Only
  <1>2. CASE w \notin SeqSet(s)
    BY <1>2, EmptyHas DEF Only
  <1>3. QED
    BY <1>1, <1>2

LEMMA OthersHas ==
    ASSUME NEW S, NEW s \in Seq(S), NEW w \in S
    PROVE  /\ Others(s, w) \in Seq(S)
           /\ \A x : Once(s, x) => Once(Others(s, w), x)
           /\ \A x : x # w => (x \in SeqSet(Others(s, w)) <=> x \in SeqSet(s))
           /\ Once(s, w) => w \notin SeqSet(Others(s, w))
  <1>1. CASE w \in SeqSet(s)
    BY <1>1, WithoutHas DEF Others
  <1>2. CASE w \notin SeqSet(s)
    BY <1>2 DEF Others
  <1>3. QED
    BY <1>1, <1>2

-----------------------------------------------------------------------------
(* Steps that leave the reports and the work alone.                        *)

LEMMA ProcessingIs == Types => (Processing <=> rpc \in Active)
  BY DEF Processing, Active

LEMMA OrderKept ==
    ASSUME Types, OrderInv, UNCHANGED <<order, fate>>, open' = open,
           \A r \in Reports : child'[r] \in {"run", "retired"} => child[r] \in {"run", "retired"}
    PROVE  OrderInv'
  BY DEF OrderInv, Pending

LEMMA RetryKept ==
    ASSUME RetryInv, UNCHANGED <<retried, fresh, suspended, runs, barren>>
    PROVE  RetryInv'
  BY DEF RetryInv

\* The parts about holders and publications, when the runner moves within its
\* phase.
LEMMA HolderKept ==
    ASSUME Types, HolderInv, CutterInv, PubInv, UNCHANGED <<runs, ops, queue, pubs, cpc, cwork, cphase>>,
           \/ rpc' = rpc /\ cur' = cur
           \/ rpc \in Active /\ rpc' \in Active /\ cur' = cur
           \/ rpc \in Resting /\ rpc' \in Resting
    PROVE  HolderInv' /\ CutterInv' /\ PubInv'
  <1>1. (rpc' \in Publishing <=> rpc \in Publishing) /\ (WithRunner' <=> WithRunner)
    BY DEF WithRunner, Active, Resting, Publishing
  <1>2. (InOps' <=> InOps) /\ (InQueue' <=> InQueue) /\ (WithCutter' <=> WithCutter)
    BY DEF InOps, InQueue, WithCutter
  <1>3. HolderInv'
    BY <1>1, <1>2 DEF HolderInv
  <1>4. CutterInv' /\ PubInv'
    BY <1>1 DEF CutterInv, PubInv, One
  <1>5. QED
    BY <1>3, <1>4

LEMMA QuietStep ==
    ASSUME DeliveryInv, Types',
           UNCHANGED <<order, fate, retried, fresh, suspended, runs, barren,
                       open, ops, queue, pubs, cpc, cwork, cphase>>,
           \A r \in Reports : child'[r] \in {"run", "retired"} => child[r] \in {"run", "retired"},
           \/ rpc' = rpc /\ cur' = cur
           \/ rpc \in Active /\ rpc' \in Active /\ cur' = cur
           \/ rpc \in Resting /\ rpc' \in Resting
    PROVE  DeliveryInv'
  <1>0. Types /\ OrderInv /\ HolderInv /\ CutterInv /\ PubInv /\ RetryInv
    BY DEF DeliveryInv
  <1>1. OrderInv' /\ RetryInv'
    BY <1>0, OrderKept, RetryKept
  <1>2. HolderInv' /\ CutterInv' /\ PubInv'
    BY <1>0, HolderKept
  <1>3. QED
    BY <1>1, <1>2 DEF DeliveryInv

LEMMA ChildStepsKeep ==
    ASSUME DeliveryInv, NEW r \in Reports,
           ChildRetires(r) \/ ChildStaysSilent(r) \/ ChildDrains(r) \/ ChildNotifies(r)
    PROVE  DeliveryInv'
  <1>0. Types
    BY DEF DeliveryInv
  <1>1. PICK c \in ChildStates :
           /\ child' = [child EXCEPT ![r] = c]
           /\ c \in {"run", "retired"} => child[r] \in {"run", "retired"}
    BY DEF ChildRetires, ChildStaysSilent, ChildDrains, ChildNotifies, ChildStates
  <1>2. /\ UNCHANGED <<order, fate, retried, fresh, suspended, runs, barren,
                       open, ops, queue, pubs, guard, token, wake, rpc, cur, cut, inbox, busy,
                       cpc, cwork, cphase, wpc, unchecked>>
        /\ heard' = heard \/ heard' = heard \cup {r}
    BY DEF ChildRetires, ChildStaysSilent, ChildDrains, ChildNotifies, Hear,
           reportVars, workVars, runnerVars, cutterVars, waiterVars
  <1>3. child' \in [Reports -> ChildStates] /\ heard' \subseteq Actors
    BY <1>0, <1>1, <1>2 DEF Types, Actors
  <1>4. Types'
    BY <1>0, <1>2, <1>3 DEF Types
  <1>5. \A x \in Reports : child'[x] \in {"run", "retired"} => child[x] \in {"run", "retired"}
    BY <1>0, <1>1 DEF Types
  <1>6. QED
    BY <1>2, <1>4, <1>5, QuietStep

LEMMA WaiterKeeps == ASSUME DeliveryInv, WaiterMoves PROVE DeliveryInv'
  <1>0. Types
    BY DEF DeliveryInv
  <1>1. UNCHANGED <<order, fate, retried, fresh, suspended, runs, barren,
                    open, ops, queue, pubs, guard, token, wake, rpc, cur, cut, inbox, busy,
                    cpc, cwork, cphase, child>>
    BY DEF WaiterMoves, Listen, CheckActor, Poll, Hears,
           reportVars, workVars, runnerVars, cutterVars
  <1>2. /\ wpc' \in {"off", "check", "poll", "wait", "again", "done"}
        /\ unchecked' \subseteq Actors /\ heard' \subseteq Actors
    <2>1. unchecked \subseteq Actors /\ heard \subseteq Actors
      BY <1>0 DEF Types
    <2>2. CASE Listen
      BY <2>2 DEF Listen
    <2>3. CASE \E a \in Actors : CheckActor(a)
      BY <2>1, <2>3 DEF CheckActor
    <2>4. CASE Poll \/ Hears
      BY <2>1, <2>4 DEF Poll, Hears
    <2>5. QED
      BY <2>2, <2>3, <2>4 DEF WaiterMoves
  <1>3. Types'
    BY <1>0, <1>1, <1>2 DEF Types
  <1>4. QED
    BY <1>1, <1>3, QuietStep

LEMMA RunnerQuietKeeps ==
    ASSUME DeliveryInv,
           \/ StepFindsNothing \/ RunnerDrains \/ RunnerSleeps \/ RunnerWakes \/ SetupCancelled
           \/ Enter \/ BackendFinishes \/ BackendFails \/ RunnerNext \/ PrepareIdle \/ ReleaseIdle
    PROVE  DeliveryInv'
  <1>0. Types
    BY DEF DeliveryInv
  <1>1. UNCHANGED <<order, fate, retried, fresh, suspended, runs, barren,
                    open, ops, queue, pubs, cpc, cwork, cphase, child, wpc, unchecked>>
    BY DEF StepFindsNothing, RunnerDrains, RunnerSleeps, RunnerWakes, SetupCancelled,
           Enter, BackendFinishes, BackendFails, RunnerNext, PrepareIdle, ReleaseIdle,
           reportVars, workVars, runnerVars, cutterVars, waiterVars
  <1>2. \/ rpc' = rpc /\ cur' = cur
        \/ rpc \in Active /\ rpc' \in Active /\ cur' = cur
        \/ rpc \in Resting /\ rpc' \in Resting /\ cur' \in {cur, Delivery}
    BY DEF StepFindsNothing, RunnerDrains, RunnerSleeps, RunnerWakes, SetupCancelled,
           Enter, BackendFinishes, BackendFails, RunnerNext, PrepareIdle, ReleaseIdle,
           runnerVars, Active, Resting
  <1>3. /\ rpc' \in Active \cup Resting \cup Publishing /\ cur' \in Work
    BY <1>0, <1>2 DEF Types, Work
  <1>4. token' \in BOOLEAN /\ wake' \in BOOLEAN /\ guard' \in BOOLEAN
    BY <1>0 DEF Types, StepFindsNothing, RunnerDrains, RunnerSleeps, RunnerWakes, SetupCancelled,
           Enter, BackendFinishes, BackendFails, RunnerNext, PrepareIdle, ReleaseIdle, workVars
  <1>5. cut' \in BOOLEAN /\ inbox' \in BOOLEAN /\ busy' \in BOOLEAN
    BY <1>0 DEF Types, StepFindsNothing, RunnerDrains, RunnerSleeps, RunnerWakes, SetupCancelled,
           Enter, BackendFinishes, BackendFails, RunnerNext, PrepareIdle, ReleaseIdle, runnerVars
  <1>6. heard' \subseteq Actors
    <2>1. heard' = heard \/ heard' = heard \cup {Parent}
      BY DEF StepFindsNothing, RunnerDrains, RunnerSleeps, RunnerWakes, SetupCancelled,
           Enter, BackendFinishes, BackendFails, RunnerNext, PrepareIdle, ReleaseIdle, waiterVars, Hear
    <2>2. QED
      BY <1>0, <2>1 DEF Types, Actors
  <1>7. Types'
    BY <1>0, <1>1, <1>3, <1>4, <1>5, <1>6 DEF Types
  <1>8. QED
    BY <1>1, <1>2, <1>7, QuietStep

-----------------------------------------------------------------------------
(* Reports arrive, are scheduled, executed, withdrawn.                     *)

LEMMA ChildPublishesKeeps ==
    ASSUME DeliveryInv, NEW r \in Reports, ChildPublishes(r)
    PROVE  DeliveryInv'
  <1>0. Types /\ OrderInv /\ HolderInv /\ CutterInv /\ PubInv /\ RetryInv
    BY DEF DeliveryInv
  <1>1. /\ child[r] = "retired" /\ child' = [child EXCEPT ![r] = "published"]
        /\ UNCHANGED <<retried, runs, open, ops, queue, pubs, guard, wake, rpc, cur, cut, inbox, busy,
                       cpc, cwork, cphase, wpc, unchecked, heard>>
        /\ \/ open /\ Accept(r)
           \/ Reject(r)
    BY DEF ChildPublishes, AdmitDelivery, Accept, Reject, runnerVars, cutterVars, waiterVars
  <1>2. fate[r] = "none" /\ r \notin SeqSet(order)
    BY <1>0, <1>1 DEF OrderInv, Pending
  <1>3. /\ child' \in [Reports -> ChildStates]
        /\ \A x \in Reports : child'[x] \in {"run", "retired"} => x # r /\ child[x] \in {"run", "retired"}
    BY <1>0, <1>1 DEF Types, ChildStates
  <1>4. HolderInv' /\ CutterInv' /\ PubInv'
    BY <1>0, <1>1, HolderKept
  <1>5. CASE open /\ Accept(r)
    <2>1. /\ order' = Append(order, r) /\ fate' = [fate EXCEPT ![r] = "pending"]
          /\ fresh' = fresh \cup {r} /\ suspended' = FALSE /\ barren' = 0 /\ token' = TRUE
      BY <1>5 DEF Accept
    <2>2. /\ order' \in Seq(Reports) /\ SeqSet(order') = SeqSet(order) \cup {r}
          /\ \A x \in Reports : Once(order', x)
      <3>1. order \in Seq(Reports) /\ \A x \in Reports : Once(order, x)
        BY <1>0 DEF Types, OrderInv
      <3>2. QED
        BY <1>2, <2>1, <3>1, AppendHas
    <2>3. /\ fate' \in [Reports -> Fates]
          /\ \A x \in Reports : fate'[x] = IF x = r THEN "pending" ELSE fate[x]
      BY <1>0, <2>1 DEF Types, Fates
    <2>9. fresh' \subseteq Reports /\ suspended' \in BOOLEAN /\ barren' \in Nat /\ token' \in BOOLEAN
      BY <1>0, <2>1 DEF Types
    <2>4. Types'
      BY <1>0, <1>1, <1>3, <2>2, <2>3, <2>9 DEF Types
    <2>5. SeqSet(order') = Pending'
      BY <1>0, <2>2, <2>3 DEF OrderInv, Pending
    <2>6. OrderInv'
      <3>1. open'
        BY <1>1, <1>5
      <3>2. \A x \in Reports : child'[x] \in {"run", "retired"} => fate'[x] = "none"
        BY <1>0, <1>3, <2>3 DEF OrderInv
      <3>3. QED
        BY <2>2, <2>5, <3>1, <3>2 DEF OrderInv
    <2>7. RetryInv'
      <3>1. Cardinality(retried) \in Nat
        BY <1>0, FS_CardinalityType DEF RetryInv
      <3>2. QED
        BY <1>0, <1>1, <2>1, <3>1 DEF RetryInv
    <2>8. QED
      BY <1>4, <2>4, <2>6, <2>7 DEF DeliveryInv
  <1>6. CASE Reject(r)
    <2>1. /\ fate' = [fate EXCEPT ![r] = "rejected"]
          /\ UNCHANGED <<order, fresh, suspended, barren, token>>
      BY <1>6 DEF Reject
    <2>2. /\ fate' \in [Reports -> Fates]
          /\ \A x \in Reports : fate'[x] = IF x = r THEN "rejected" ELSE fate[x]
      BY <1>0, <2>1 DEF Types, Fates
    <2>3. Types'
      BY <1>0, <1>1, <1>3, <2>1, <2>2 DEF Types
    <2>4. Pending' = Pending
      BY <1>2, <2>2 DEF Pending
    <2>5. \A x \in Reports : child'[x] \in {"run", "retired"} => fate'[x] = "none"
      BY <1>0, <1>3, <2>2 DEF OrderInv
    <2>6. OrderInv'
      BY <1>0, <1>1, <2>1, <2>4, <2>5 DEF OrderInv
    <2>7. RetryInv'
      BY <1>0, <1>1, <2>1, RetryKept
    <2>8. QED
      BY <1>4, <2>3, <2>6, <2>7 DEF DeliveryInv
  <1>7. QED
    BY <1>1, <1>5, <1>6

LEMMA BatchIs ==
    ASSUME NEW S, NEW s \in Seq(S), NEW n \in 1..Len(s)
    PROVE  {s[i] : i \in 1..n} \in SUBSET S /\ IsFiniteSet({s[i] : i \in 1..n})
  <1>1. \A i \in 1..n : s[i] \in S
    OBVIOUS
  <1>2. IsFiniteSet(1..n)
    BY FS_Interval
  <1>3. IsFiniteSet({s[i] : i \in 1..n})
    <2> DEFINE T == {s[i] : i \in 1..n}
               f == [i \in 1..n |-> s[i]]
    <2>1. f \in [1..n -> T] /\ \A t \in T : \E i \in 1..n : f[i] = t
      OBVIOUS
    <2> HIDE DEF T, f
    <2>2. f \in Surjection(1..n, T)
      BY <2>1 DEF Surjection
    <2>3. IsFiniteSet(T)
      BY <1>2, <2>2, FS_Surjection
    <2>4. QED
      BY <2>3 DEF T
  <1>4. QED
    BY <1>1, <1>3

LEMMA StepSchedulesKeeps == ASSUME DeliveryInv, StepSchedules PROVE DeliveryInv'
  <1>0. Types /\ OrderInv /\ HolderInv /\ CutterInv /\ PubInv /\ RetryInv
    BY DEF DeliveryInv
  <1>1. /\ rpc = "step" /\ ~suspended /\ runs = {} /\ ops = <<>> /\ queue = <<>>
        /\ fresh' = {}
        /\ UNCHANGED <<order, fate, retried, suspended, barren, open, queue, pubs, guard, wake,
                       cpc, cwork, cphase, child, wpc, unchecked, heard>>
    BY DEF StepSchedules, CanSchedule, HasPendingWork, Schedule, cutterVars, waiterVars
  <1>2. PICK n \in 1..Len(order) : runs' = {{order[i] : i \in 1..n}}
    BY DEF StepSchedules, Schedule
  <1>3. order \in Seq(Reports)
    BY <1>0 DEF Types
  <1> DEFINE batch == {order[i] : i \in 1..n}
  <1>4. batch \in SUBSET Reports /\ IsFiniteSet(batch)
    BY <1>2, <1>3, BatchIs
  <1>5. runs' = {batch}
    BY <1>2
  <1> HIDE DEF batch
  <1>6. OrderInv'
    BY <1>0, <1>1, OrderKept
  <1>7. RetryInv'
    BY <1>0, <1>1, <1>4, <1>5 DEF RetryInv
  <1>8. ~InOps /\ ~InQueue /\ ~WithCutter
    BY <1>0, <1>1 DEF HolderInv
  <1>9. ~InQueue' /\ ~WithCutter'
    BY <1>1, <1>8 DEF InQueue, WithCutter
  <1>10. Delivery \in Work
    BY DEF Work
  <1>11. CASE Preparation
    <2>1. ops' = <<Delivery>> /\ rpc' = "empty" /\ UNCHANGED <<token, cur, cut, busy, inbox>>
      BY <1>11 DEF StepSchedules
    <2>2. ops' \in Seq(Work) /\ SeqSet(ops') = {Delivery} /\ Once(ops', Delivery)
      BY <1>10, <2>1, SingleHas
    <2>3. InOps' /\ ~WithRunner'
      BY <2>1, <2>2 DEF InOps, WithRunner, Active
    <2>4. Types'
      BY <1>0, <1>1, <1>4, <1>5, <2>1, <2>2 DEF Types, Resting
    <2>5. HolderInv'
      BY <1>0, <1>1, <1>5, <1>9, <2>2, <2>3 DEF HolderInv
    <2>6. CutterInv' /\ PubInv'
      BY <1>0, <1>1, <2>1 DEF CutterInv, PubInv, Publishing
    <2>7. QED
      BY <1>6, <1>7, <2>4, <2>5, <2>6 DEF DeliveryInv
  <1>12. CASE ~Preparation
    <2>1. ops' = ops /\ rpc' = "popped" /\ token' = TRUE /\ cur' = Delivery /\ cut' = FALSE
          /\ busy' = TRUE /\ inbox' \in BOOLEAN
      BY <1>12 DEF StepSchedules, Popped
    <2>2. ~InOps' /\ WithRunner'
      BY <1>8, <2>1 DEF InOps, WithRunner, Active
    <2>3. Types'
      BY <1>0, <1>1, <1>4, <1>5, <1>10, <2>1 DEF Types, Active
    <2>4. HolderInv'
      BY <1>0, <1>1, <1>5, <1>9, <2>1, <2>2 DEF HolderInv
    <2>5. CutterInv' /\ PubInv'
      BY <1>0, <1>1, <2>1 DEF CutterInv, PubInv, Publishing
    <2>6. QED
      BY <1>6, <1>7, <2>3, <2>4, <2>5 DEF DeliveryInv
  <1>13. QED
    BY <1>11, <1>12

LEMMA StepPopsKeeps == ASSUME DeliveryInv, StepPops PROVE DeliveryInv'
  <1>0. Types /\ OrderInv /\ HolderInv /\ CutterInv /\ PubInv /\ RetryInv
    BY DEF DeliveryInv
  <1>1. /\ rpc = "step" /\ queue # <<>> /\ queue' = Tail(queue)
        /\ rpc' = "popped" /\ cur' = Head(queue) /\ cut' = FALSE /\ busy' = TRUE /\ inbox' \in BOOLEAN
        /\ UNCHANGED <<order, fate, retried, fresh, suspended, runs, barren, open, ops, pubs, guard,
                       token, wake, cpc, cwork, cphase, child, wpc, unchecked, heard>>
    BY DEF StepPops, Popped, reportVars, cutterVars, waiterVars
  <1>2. queue \in Seq(Work) /\ Once(queue, Delivery)
    BY <1>0 DEF Types, HolderInv
  <1>3. /\ queue' \in Seq(Work) /\ cur' \in Work /\ Once(queue', Delivery)
        /\ SeqSet(queue) = SeqSet(queue') \cup {cur'}
        /\ cur' = Delivery => Delivery \notin SeqSet(queue')
    BY <1>1, <1>2, TailHas
  <1>4. Types'
    <2>1. rpc' \in Active /\ cut' \in BOOLEAN /\ busy' \in BOOLEAN /\ inbox' \in BOOLEAN
      BY <1>1 DEF Active
    <2>2. QED
      BY <1>0, <1>1, <1>3, <2>1 DEF Types
  <1>5. OrderInv' /\ RetryInv'
    BY <1>0, <1>1, OrderKept, RetryKept
  <1>6. ~WithRunner /\ (WithRunner' <=> cur' = Delivery)
    BY <1>1 DEF WithRunner, Active
  <1>7. (InOps' <=> InOps) /\ (WithCutter' <=> WithCutter)
    BY <1>1 DEF InOps, WithCutter
  <1>8. (InQueue <=> InQueue' \/ WithRunner') /\ ~(InQueue' /\ WithRunner')
    BY <1>3, <1>6 DEF InQueue
  <1>9. HolderInv'
    BY <1>0, <1>1, <1>3, <1>6, <1>7, <1>8 DEF HolderInv
  <1>10. CutterInv' /\ PubInv'
    BY <1>0, <1>1 DEF CutterInv, PubInv, Publishing
  <1>11. QED
    BY <1>4, <1>5, <1>9, <1>10 DEF DeliveryInv

LEMMA WithdrawnKeeps == ASSUME DeliveryInv, Withdrawn PROVE DeliveryInv'
  <1>0. Types /\ OrderInv /\ HolderInv /\ CutterInv /\ PubInv /\ RetryInv
    BY DEF DeliveryInv
  <1>1. /\ rpc \in {"popped", "enter"} /\ cur = Delivery /\ runs' = {} /\ rpc' = "post"
        /\ UNCHANGED <<order, fate, retried, fresh, suspended, barren, open, ops, queue, pubs, guard,
                       token, wake, cur, cut, inbox, busy, cpc, cwork, cphase, child,
                       wpc, unchecked, heard>>
    BY DEF Withdrawn, AllWithdrawn, workVars, cutterVars, waiterVars
  <1>2. Types'
    BY <1>0, <1>1 DEF Types, Resting
  <1>3. OrderInv'
    BY <1>0, <1>1, OrderKept
  <1>4. RetryInv'
    BY <1>0, <1>1 DEF RetryInv
  <1>5. WithRunner /\ ~WithRunner'
    BY <1>1 DEF WithRunner, Active
  <1>6. (InOps' <=> InOps) /\ (InQueue' <=> InQueue) /\ (WithCutter' <=> WithCutter)
    BY <1>1 DEF InOps, InQueue, WithCutter
  <1>7. HolderInv'
    BY <1>0, <1>1, <1>5, <1>6 DEF HolderInv
  <1>8. CutterInv' /\ PubInv'
    BY <1>0, <1>1 DEF CutterInv, PubInv, Publishing
  <1>9. QED
    BY <1>2, <1>3, <1>4, <1>7, <1>8 DEF DeliveryInv

LEMMA CommitReportsKeeps == ASSUME DeliveryInv, CommitReports PROVE DeliveryInv'
  <1>0. Types /\ OrderInv /\ HolderInv /\ CutterInv /\ PubInv /\ RetryInv
    BY DEF DeliveryInv
  <1>1. /\ rpc \in {"run", "turned"} /\ rpc' = "turned"
        /\ UNCHANGED <<retried, fresh, suspended, runs, barren, open, ops, queue, pubs, guard,
                       token, wake, cur, cut, inbox, busy, cpc, cwork, cphase, child,
                       wpc, unchecked, heard>>
        /\ \/ UNCHANGED <<order, fate>>
           \/ \E n \in Eligible :
                /\ order' = SubSeq(order, n + 1, Len(order))
                /\ fate' = [r \in Reports |->
                              IF r \in {order[i] : i \in 1..n} THEN "executed" ELSE fate[r]]
    BY DEF CommitReports, workVars, cutterVars, waiterVars
  <1>2. rpc \in Active /\ rpc' \in Active
    BY <1>1 DEF Active
  <1>3. HolderInv' /\ CutterInv' /\ PubInv'
    BY <1>0, <1>1, <1>2, HolderKept
  <1>4. RetryInv'
    BY <1>0, <1>1, RetryKept
  <1>5. CASE UNCHANGED <<order, fate>>
    <2>1. OrderInv'
      BY <1>0, <1>1, <1>5, OrderKept
    <2>2. Types'
      BY <1>0, <1>1, <1>2, <1>5 DEF Types
    <2>3. QED
      BY <1>3, <1>4, <2>1, <2>2 DEF DeliveryInv
  <1>6. CASE \E n \in Eligible :
                /\ order' = SubSeq(order, n + 1, Len(order))
                /\ fate' = [r \in Reports |->
                              IF r \in {order[i] : i \in 1..n} THEN "executed" ELSE fate[r]]
    <2>1. PICK n \in 1..Len(order) :
                /\ order' = SubSeq(order, n + 1, Len(order))
                /\ fate' = [r \in Reports |->
                              IF r \in {order[i] : i \in 1..n} THEN "executed" ELSE fate[r]]
      BY <1>6 DEF Eligible
    <2>2. order \in Seq(Reports) /\ \A r \in Reports : Once(order, r)
      BY <1>0 DEF Types, OrderInv
    <2>3. /\ order' \in Seq(Reports) /\ \A r \in Reports : Once(order', r)
          /\ \A x : x \in SeqSet(order') <=> x \in SeqSet(order) /\ \A i \in 1..n : order[i] # x
      <3>1. n \in 1..Len(order) /\ order' = Rest(order, n)
        BY <2>1 DEF Rest
      <3>2. QED
        BY ONLY <2>2, <3>1, DropHas
    <2> DEFINE done == {order[i] : i \in 1..n}
    <2>4. /\ fate' = [r \in Reports |-> IF r \in done THEN "executed" ELSE fate[r]]
          /\ SeqSet(order') = SeqSet(order) \ done
      BY <2>1, <2>3
    <2>5. done \subseteq SeqSet(order)
      BY <2>1, <2>2 DEF SeqSet
    <2> HIDE DEF done
    <2>6. /\ fate' \in [Reports -> Fates]
          /\ \A r \in Reports : fate'[r] = IF r \in done THEN "executed" ELSE fate[r]
      BY <1>0, <2>4 DEF Types, Fates
    <2>7. Types'
      BY <1>0, <1>1, <1>2, <2>3, <2>6 DEF Types
    <2>8. SeqSet(order') = Pending'
      BY <1>0, <2>4, <2>6 DEF OrderInv, Pending
    <2>9. open'
      <3>1. order # <<>>
        BY <2>1, <2>2
      <3>2. QED
        BY <1>0, <1>1, <3>1 DEF OrderInv
    <2>10. \A r \in Reports : child'[r] \in {"run", "retired"} => fate'[r] = "none"
      <3>1. \A r \in Reports : r \in done => fate[r] = "pending"
        BY <1>0, <2>5 DEF OrderInv, Pending
      <3>2. QED
        BY <1>0, <1>1, <2>6, <3>1 DEF OrderInv
    <2>11. OrderInv'
      BY <2>3, <2>8, <2>9, <2>10 DEF OrderInv
    <2>12. QED
      BY <1>3, <1>4, <2>7, <2>11 DEF DeliveryInv
  <1>7. QED
    BY <1>1, <1>5, <1>6

LEMMA WithdrawKeeps == ASSUME DeliveryInv, NEW r \in Reports, Withdraw(r) PROVE DeliveryInv'
  <1>0. Types /\ OrderInv /\ HolderInv /\ CutterInv /\ PubInv /\ RetryInv
    BY DEF DeliveryInv
  <1>1. /\ fate[r] = "pending" /\ fate' = [fate EXCEPT ![r] = "discarded"]
        /\ order' = Without(order, r)
        /\ UNCHANGED <<retried, fresh, suspended, runs, barren, open, ops, queue, pubs, guard,
                       token, wake, rpc, cur, cut, inbox, busy, cpc, cwork, cphase, child,
                       wpc, unchecked, heard>>
    BY DEF Withdraw, workVars, runnerVars, cutterVars, waiterVars
  <1>2. order \in Seq(Reports) /\ r \in SeqSet(order) /\ \A x \in Reports : Once(order, x)
    BY <1>0, <1>1 DEF Types, OrderInv, Pending
  <1>3. /\ order' \in Seq(Reports) /\ \A x \in Reports : Once(order', x)
        /\ r \notin SeqSet(order')
        /\ \A x : x # r => (x \in SeqSet(order') <=> x \in SeqSet(order))
    BY <1>1, <1>2, WithoutHas
  <1>4. /\ fate' \in [Reports -> Fates]
        /\ \A x \in Reports : fate'[x] = IF x = r THEN "discarded" ELSE fate[x]
    BY <1>0, <1>1 DEF Types, Fates
  <1>5. Types'
    BY <1>0, <1>1, <1>3, <1>4 DEF Types
  <1>6. OrderInv'
    <2>1. SeqSet(order') = Pending'
      <3>1. \A x : x \in SeqSet(order') => x \in Reports
        BY <1>3, MembersAre
      <3>2. QED
        BY <1>0, <1>3, <1>4, <3>1 DEF OrderInv, Pending
    <2>2. open'
      <3>1. order # <<>>
        BY <1>2, EmptyHas
      <3>2. QED
        BY <1>0, <1>1, <3>1 DEF OrderInv
    <2>3. \A x \in Reports : child'[x] \in {"run", "retired"} => fate'[x] = "none"
      BY <1>0, <1>1, <1>4 DEF OrderInv
    <2>4. QED
      BY <1>3, <2>1, <2>2, <2>3 DEF OrderInv
  <1>7. HolderInv' /\ CutterInv' /\ PubInv'
    BY <1>0, <1>1, HolderKept
  <1>8. RetryInv'
    BY <1>0, <1>1, RetryKept
  <1>9. QED
    BY <1>5, <1>6, <1>7, <1>8 DEF DeliveryInv

-----------------------------------------------------------------------------
(* A turn ends: its publication is counted, its run settled.               *)

LEMMA RunnerRetiresKeeps == ASSUME DeliveryInv, RunnerRetires PROVE DeliveryInv'
  <1>0. Types /\ OrderInv /\ HolderInv /\ CutterInv /\ PubInv /\ RetryInv
    BY DEF DeliveryInv
  <1>1. /\ rpc = "retire" /\ pubs' = pubs + 1 /\ inbox' = FALSE /\ rpc' = "settle"
        /\ UNCHANGED <<order, fate, retried, fresh, suspended, runs, barren, open, ops, queue, guard,
                       token, wake, cur, cut, busy, cpc, cwork, cphase, child, wpc, unchecked, heard>>
    BY DEF RunnerRetires, reportVars, cutterVars, waiterVars
  <1>2. Types'
    <2>1. pubs' \in Nat
      <3>1. pubs \in Nat
        BY <1>0 DEF Types
      <3>2. QED
        BY <1>1, <3>1
    <2>2. inbox' \in BOOLEAN /\ rpc' \in Publishing
      BY <1>1 DEF Publishing
    <2>3. QED
      BY <1>0, <1>1, <2>1, <2>2 DEF Types
  <1>3. OrderInv' /\ RetryInv'
    BY <1>0, <1>1, OrderKept, RetryKept
  <1>4. /\ WithRunner' <=> WithRunner
        /\ (InOps' <=> InOps) /\ (InQueue' <=> InQueue) /\ (WithCutter' <=> WithCutter)
    BY <1>1 DEF InOps, InQueue, WithCutter, WithRunner, Active
  <1>5. HolderInv'
    BY <1>0, <1>1, <1>4 DEF HolderInv
  <1>6. CutterInv' /\ PubInv'
    BY <1>0, <1>1 DEF CutterInv, PubInv, Publishing, One
  <1>7. QED
    BY <1>2, <1>3, <1>5, <1>6 DEF DeliveryInv

LEMMA GrowsBy ==
    ASSUME NEW S, NEW T, IsFiniteSet(S), IsFiniteSet(T), T \ S # {}
    PROVE  IsFiniteSet(S \cup T) /\ Cardinality(S) + 1 <= Cardinality(S \cup T)
  <1>1. PICK x \in T : x \notin S
    OBVIOUS
  <1>2. IsFiniteSet(S \cup {x}) /\ Cardinality(S \cup {x}) = Cardinality(S) + 1
    BY <1>1, FS_AddElement
  <1>3. IsFiniteSet(S \cup T)
    BY FS_Union
  <1>4. S \cup {x} \in SUBSET (S \cup T)
    BY <1>1
  <1>5. Cardinality(S \cup {x}) <= Cardinality(S \cup T)
    BY <1>3, <1>4, FS_Subset
  <1>6. QED
    BY <1>2, <1>3, <1>5

LEMMA SettleKeeps ==
    ASSUME Types, HolderInv, RetryInv, runs # {}, NEW c \in BOOLEAN, Settle(c)
    PROVE  /\ runs' = {} /\ RetryInv' /\ UNCHANGED <<order, fate, fresh>>
           /\ retried' \subseteq Reports /\ suspended' \in BOOLEAN /\ barren' \in Nat
  <1> DEFINE left == (UNION runs) \cap Pending
  <1>1. left \subseteq Reports /\ IsFiniteSet(left)
    <2>1. PICK b \in runs : TRUE
      OBVIOUS
    <2>2. UNION runs = b
      BY <2>1 DEF HolderInv
    <2>3. IsFiniteSet(b) /\ left \in SUBSET b
      BY <2>1, <2>2 DEF RetryInv
    <2>4. IsFiniteSet(left)
      BY <2>3, FS_Subset
    <2>5. Pending \subseteq Reports
      BY DEF Pending
    <2>6. left \subseteq Reports
      BY <2>5
    <2> HIDE DEF left
    <2>7. QED
      BY <2>4, <2>6
  <1>2. /\ IsFiniteSet(retried) /\ Cardinality(retried) \in Nat /\ ~suspended /\ barren \in Nat
        /\ barren <= 1 + Cardinality(retried)
        /\ fresh # {} => barren <= Cardinality(retried)
    BY FS_CardinalityType DEF RetryInv, Types
  <1> DEFINE retry == c /\ left \ retried # {}
  <1>3. /\ runs' = {} /\ UNCHANGED <<order, fate, fresh>>
        /\ IF left # {}
           THEN /\ retried' = IF retry THEN retried \cup left ELSE retried
                /\ suspended' = (fresh \cap Pending = {} /\ ~retry)
                /\ barren' = barren + 1
           ELSE UNCHANGED <<retried, suspended, barren>>
    BY DEF Settle
  <1>4. left \ retried # {} =>
           /\ IsFiniteSet(retried \cup left)
           /\ Cardinality(retried) + 1 <= Cardinality(retried \cup left)
    BY <1>1, <1>2, GrowsBy
  <1> HIDE DEF left
  <1>5. CASE left = {}
    BY <1>2, <1>3, <1>5 DEF RetryInv, Types
  <1>6. CASE left # {} /\ retry
    <2>1. /\ retried' = retried \cup left /\ suspended' = FALSE /\ barren' = barren + 1
      BY <1>3, <1>6
    <2>2. /\ IsFiniteSet(retried') /\ Cardinality(retried') \in Nat
          /\ Cardinality(retried) + 1 <= Cardinality(retried')
      BY <1>4, <1>6, <2>1, FS_CardinalityType
    <2>3. barren' <= 1 + Cardinality(retried') /\ barren' \in Nat
      BY <1>2, <2>1, <2>2
    <2>4. RetryInv'
      BY <1>3, <2>1, <2>2, <2>3 DEF RetryInv
    <2>5. retried' \subseteq Reports /\ suspended' \in BOOLEAN
      BY <1>1, <2>1 DEF Types
    <2>6. QED
      BY <1>3, <2>3, <2>4, <2>5
  <1>7. CASE left # {} /\ ~retry /\ fresh \cap Pending = {}
    <2>1. retried' = retried /\ suspended' = TRUE /\ barren' = barren + 1
      BY <1>3, <1>7
    <2>2. RetryInv' /\ barren' \in Nat
      BY <1>2, <1>3, <2>1 DEF RetryInv
    <2>3. retried' \subseteq Reports /\ suspended' \in BOOLEAN
      BY <2>1 DEF Types
    <2>4. QED
      BY <1>3, <2>2, <2>3
  <1>8. CASE left # {} /\ ~retry /\ fresh \cap Pending # {}
    <2>1. retried' = retried /\ suspended' = FALSE /\ barren' = barren + 1
      BY <1>3, <1>8
    <2>2. RetryInv' /\ barren' \in Nat
      BY <1>2, <1>3, <1>8, <2>1 DEF RetryInv
    <2>3. retried' \subseteq Reports /\ suspended' \in BOOLEAN
      BY <2>1 DEF Types
    <2>4. QED
      BY <1>3, <2>2, <2>3
  <1>9. QED
    BY <1>5, <1>6, <1>7, <1>8

LEMMA RunnerSettlesKeeps == ASSUME DeliveryInv, RunnerSettles PROVE DeliveryInv'
  <1>0. Types /\ OrderInv /\ HolderInv /\ CutterInv /\ PubInv /\ RetryInv
    BY DEF DeliveryInv
  <1>1. /\ rpc = "settle" /\ rpc' = "publish"
        /\ UNCHANGED <<open, ops, queue, pubs, guard, token, wake, cur, cut, inbox, busy,
                       cpc, cwork, cphase, child, wpc, unchecked, heard>>
    BY DEF RunnerSettles, workVars, cutterVars, waiterVars
  <1>2. /\ WithRunner <=> cur = Delivery
        /\ ~WithRunner'
        /\ (InOps' <=> InOps) /\ (InQueue' <=> InQueue) /\ (WithCutter' <=> WithCutter)
    BY <1>1 DEF InOps, InQueue, WithCutter, WithRunner, Active
  <1>3. CutterInv' /\ PubInv'
    BY <1>0, <1>1 DEF CutterInv, PubInv, Publishing, One
  <1>4. CASE cur = Delivery
    <2>1. Settle(cut) /\ runs # {} /\ cut \in BOOLEAN
      BY <1>0, <1>2, <1>4 DEF RunnerSettles, HolderInv, Types
    <2>2. /\ runs' = {} /\ RetryInv' /\ UNCHANGED <<order, fate, fresh>>
          /\ retried' \subseteq Reports /\ suspended' \in BOOLEAN /\ barren' \in Nat
      BY <1>0, <2>1, SettleKeeps
    <2>3. Types'
      BY <1>0, <1>1, <2>2 DEF Types, Publishing
    <2>4. OrderInv'
      BY <1>0, <1>1, <2>2, OrderKept
    <2>5. HolderInv'
      BY <1>0, <1>1, <1>2, <1>4, <2>2 DEF HolderInv
    <2>6. QED
      BY <1>3, <2>2, <2>3, <2>4, <2>5 DEF DeliveryInv
  <1>5. CASE cur # Delivery
    <2>1. UNCHANGED <<order, fate, retried, fresh, suspended, runs, barren>>
      BY <1>5 DEF RunnerSettles, reportVars
    <2>2. Types'
      BY <1>0, <1>1, <2>1 DEF Types, Publishing
    <2>3. OrderInv' /\ RetryInv'
      BY <1>0, <1>1, <2>1, OrderKept, RetryKept
    <2>4. HolderInv'
      BY <1>0, <1>1, <1>2, <1>5, <2>1 DEF HolderInv
    <2>5. QED
      BY <1>3, <2>2, <2>3, <2>4 DEF DeliveryInv
  <1>6. QED
    BY <1>4, <1>5

LEMMA RunnerPublishesKeeps == ASSUME DeliveryInv, RunnerPublishes PROVE DeliveryInv'
  <1>0. Types /\ OrderInv /\ HolderInv /\ CutterInv /\ PubInv /\ RetryInv
    BY DEF DeliveryInv
  <1>1. /\ rpc = "publish" /\ pubs' = pubs - 1 /\ wake' = TRUE /\ rpc' = "post"
        /\ UNCHANGED <<order, fate, retried, fresh, suspended, runs, barren, open, ops, queue, guard,
                       token, cur, cut, inbox, busy, cpc, cwork, cphase, child, wpc, unchecked, heard>>
    BY DEF RunnerPublishes, reportVars, cutterVars, waiterVars
  <1>2. PubInv' /\ pubs' \in Nat
    BY <1>0, <1>1 DEF PubInv, Publishing, One
  <1>3. Types'
    BY <1>0, <1>1, <1>2 DEF Types, Resting
  <1>4. OrderInv' /\ RetryInv'
    BY <1>0, <1>1, OrderKept, RetryKept
  <1>5. /\ ~WithRunner /\ ~WithRunner'
        /\ (InOps' <=> InOps) /\ (InQueue' <=> InQueue) /\ (WithCutter' <=> WithCutter)
    BY <1>1 DEF InOps, InQueue, WithCutter, WithRunner, Active
  <1>6. HolderInv' /\ CutterInv'
    BY <1>0, <1>1, <1>5 DEF HolderInv, CutterInv
  <1>7. QED
    BY <1>2, <1>3, <1>4, <1>6 DEF DeliveryInv

-----------------------------------------------------------------------------
(* Turns are submitted and prepared.                                       *)

LEMMA FreshStart ==
    ASSUME RetryInv, suspended' = FALSE, barren' = 0, UNCHANGED <<retried, runs>>
    PROVE  RetryInv'
  <1>1. Cardinality(retried) \in Nat
    BY FS_CardinalityType DEF RetryInv
  <1>2. QED
    BY <1>1 DEF RetryInv

LEMMA SubmitTurnKeeps == ASSUME DeliveryInv, NEW u \in UserTurns, SubmitTurn(u) PROVE DeliveryInv'
  <1>0. Types /\ OrderInv /\ HolderInv /\ CutterInv /\ PubInv /\ RetryInv
    BY DEF DeliveryInv
  <1>1. /\ suspended' = FALSE /\ barren' = 0
        /\ UNCHANGED <<order, fate, retried, fresh, runs, open, pubs, guard, wake,
                       rpc, cur, cut, inbox, busy, cpc, cwork, cphase, child, wpc, unchecked, heard>>
        /\ \/ ops' = Append(ops, u) /\ queue' = queue /\ token' = token
           \/ queue' = Append(queue, u) /\ ops' = ops /\ token' = TRUE
    BY DEF SubmitTurn, Admitted, runnerVars, cutterVars, waiterVars
  <1>2. u \in Work /\ u # Delivery
    BY SizeAssumption DEF Work
  <1>3. ops \in Seq(Work) /\ queue \in Seq(Work) /\ Once(ops, Delivery) /\ Once(queue, Delivery)
    BY <1>0 DEF Types, HolderInv
  <1>4. /\ ops' \in Seq(Work) /\ queue' \in Seq(Work) /\ Once(ops', Delivery) /\ Once(queue', Delivery)
        /\ (InOps' <=> InOps) /\ (InQueue' <=> InQueue)
    <2>1. CASE ops' = Append(ops, u) /\ queue' = queue
      BY <1>2, <1>3, <2>1, AppendHas DEF InOps, InQueue
    <2>2. CASE queue' = Append(queue, u) /\ ops' = ops
      BY <1>2, <1>3, <2>2, AppendHas DEF InOps, InQueue
    <2>3. QED
      BY <1>1, <2>1, <2>2
  <1>5. suspended' \in BOOLEAN /\ barren' \in Nat /\ token' \in BOOLEAN
    BY <1>0, <1>1 DEF Types
  <1>6. Types'
    BY <1>0, <1>1, <1>4, <1>5 DEF Types
  <1>7. OrderInv' /\ RetryInv'
    BY <1>0, <1>1, OrderKept, FreshStart
  <1>8. (WithRunner' <=> WithRunner) /\ (WithCutter' <=> WithCutter)
    BY <1>1 DEF WithCutter, WithRunner
  <1>9. HolderInv' /\ CutterInv' /\ PubInv'
    <2>1. HolderInv'
      BY <1>0, <1>1, <1>4, <1>8 DEF HolderInv
    <2>2. CutterInv' /\ PubInv'
      BY <1>0, <1>1 DEF CutterInv, PubInv, One
    <2>3. QED
      BY <2>1, <2>2
  <1>10. QED
    BY <1>6, <1>7, <1>9 DEF DeliveryInv

LEMMA PrepareKeeps == ASSUME DeliveryInv, Prepare PROVE DeliveryInv'
  <1>0. Types /\ OrderInv /\ HolderInv /\ CutterInv /\ PubInv /\ RetryInv
    BY DEF DeliveryInv
  <1>1. /\ ops # <<>> /\ queue' = Append(queue, Head(ops)) /\ ops' = Tail(ops) /\ token' = TRUE
        /\ UNCHANGED <<order, fate, retried, fresh, suspended, runs, barren, open, pubs, guard, wake,
                       rpc, cur, cut, inbox, busy, cpc, cwork, cphase, child, wpc, unchecked, heard>>
    BY DEF Prepare, reportVars, runnerVars, cutterVars, waiterVars
  <1>2. ops \in Seq(Work) /\ queue \in Seq(Work) /\ Once(ops, Delivery) /\ Once(queue, Delivery)
    BY <1>0 DEF Types, HolderInv
  <1> DEFINE h == Head(ops)
  <1>3. /\ ops' \in Seq(Work) /\ h \in Work /\ Once(ops', Delivery)
        /\ SeqSet(ops) = SeqSet(ops') \cup {h}
        /\ h = Delivery => Delivery \notin SeqSet(ops')
    BY <1>1, <1>2, TailHas
  <1>4. queue' = Append(queue, h)
    BY <1>1
  <1> HIDE DEF h
  <1>5. h = Delivery => Delivery \notin SeqSet(queue)
    BY <1>0, <1>3 DEF HolderInv, InOps, InQueue
  <1>6. /\ queue' \in Seq(Work) /\ Once(queue', Delivery)
        /\ SeqSet(queue') = SeqSet(queue) \cup {h}
    BY <1>2, <1>3, <1>4, <1>5, AppendHas
  <1>7. /\ InOps' <=> InOps /\ h # Delivery
        /\ InQueue' <=> InQueue \/ h = Delivery
        /\ h = Delivery => InOps
    BY <1>3, <1>6 DEF InOps, InQueue
  <1>8. Types'
    BY <1>0, <1>1, <1>3, <1>6 DEF Types
  <1>9. OrderInv' /\ RetryInv'
    BY <1>0, <1>1, OrderKept, RetryKept
  <1>10. (WithRunner' <=> WithRunner) /\ (WithCutter' <=> WithCutter)
    BY <1>1 DEF WithCutter, WithRunner
  <1>11. HolderInv'
    BY <1>0, <1>1, <1>3, <1>6, <1>7, <1>10 DEF HolderInv
  <1>12. CutterInv' /\ PubInv'
    BY <1>0, <1>1 DEF CutterInv, PubInv, One
  <1>13. QED
    BY <1>8, <1>9, <1>11, <1>12 DEF DeliveryInv

LEMMA PreparedCommitKeeps == ASSUME DeliveryInv, PreparedCommit PROVE DeliveryInv'
  <1>0. Types /\ OrderInv /\ HolderInv /\ CutterInv /\ PubInv /\ RetryInv
    BY DEF DeliveryInv
  <1>1. /\ suspended' = FALSE /\ barren' = 0 /\ token' = TRUE
        /\ UNCHANGED <<order, fate, retried, fresh, runs, open, ops, queue, pubs, guard, wake,
                       rpc, cur, cut, inbox, busy, cpc, cwork, cphase, child, wpc, unchecked, heard>>
    BY DEF PreparedCommit, runnerVars, cutterVars, waiterVars
  <1>2. suspended' \in BOOLEAN /\ barren' \in Nat /\ token' \in BOOLEAN
    BY <1>1
  <1>3. Types'
    BY <1>0, <1>1, <1>2 DEF Types
  <1>4. OrderInv' /\ RetryInv'
    BY <1>0, <1>1, OrderKept, FreshStart
  <1>5. HolderInv' /\ CutterInv' /\ PubInv'
    BY <1>0, <1>1, HolderKept
  <1>6. QED
    BY <1>3, <1>4, <1>5 DEF DeliveryInv

-----------------------------------------------------------------------------
(* Cuts.                                                                   *)

\* A cut hands the delivery turn over when it takes it.
LEMMA TakeKeeps ==
    ASSUME Types, HolderInv, CutterInv, cpc = "none", cpc' = "retire",
           NEW taken \in Seq(Work), NEW o \in Seq(Work), NEW q \in Seq(Work),
           cwork' = taken, ops' = o, queue' = q, runs' = runs,
           Once(taken, Delivery), Once(o, Delivery), Once(q, Delivery),
           Delivery \in SeqSet(o) => InOps,
           Delivery \in SeqSet(q) => InQueue,
           Delivery \in SeqSet(taken) <=> \/ InOps /\ Delivery \notin SeqSet(o)
                                          \/ InQueue /\ Delivery \notin SeqSet(q),
           WithRunner' <=> WithRunner
    PROVE  HolderInv' /\ CutterInv'
  <1>1. ~WithCutter
    BY EmptyHas DEF CutterInv, WithCutter
  <1>2. (InOps' <=> Delivery \in SeqSet(o)) /\ (InQueue' <=> Delivery \in SeqSet(q))
    BY DEF InOps, InQueue
  <1>3. WithCutter' <=> Delivery \in SeqSet(taken)
    BY DEF WithCutter
  <1>4. HolderInv'
    BY <1>1, <1>2, <1>3 DEF HolderInv
  <1>5. CutterInv'
    BY DEF CutterInv, Publishing
  <1>6. QED
    BY <1>4, <1>5

LEMMA CutWorkKeeps ==
    ASSUME DeliveryInv,
           NEW taken \in Seq(Work), NEW o \in Seq(Work), NEW q \in Seq(Work), NEW running,
           CutWork(taken, o, q, running),
           Once(taken, Delivery), Once(o, Delivery), Once(q, Delivery),
           Delivery \in SeqSet(o) => InOps,
           Delivery \in SeqSet(q) => InQueue,
           Delivery \in SeqSet(taken) <=> \/ InOps /\ Delivery \notin SeqSet(o)
                                          \/ InQueue /\ Delivery \notin SeqSet(q)
    PROVE  DeliveryInv'
  <1>0. Types /\ OrderInv /\ HolderInv /\ CutterInv /\ PubInv /\ RetryInv
    BY DEF DeliveryInv
  <1>1. /\ cpc = "none" /\ cpc' = "retire" /\ cphase' = "cut"
        /\ cwork' = taken /\ ops' = o /\ queue' = q
        /\ UNCHANGED <<order, fate, retried, fresh, suspended, runs, barren, open, pubs, guard,
                       token, wake, rpc, cur, busy, child, wpc, unchecked, heard>>
    BY DEF CutWork, Take, reportVars, waiterVars
  <1>2. cut' \in BOOLEAN /\ inbox' \in BOOLEAN
    BY <1>0 DEF CutWork, CancelProcessing, Types
  <1>3. Types'
    BY <1>0, <1>1, <1>2 DEF Types
  <1>4. OrderInv' /\ RetryInv'
    BY <1>0, <1>1, OrderKept, RetryKept
  <1>5. WithRunner' <=> WithRunner
    BY <1>1 DEF WithRunner
  <1>6. HolderInv' /\ CutterInv'
    BY <1>0, <1>1, <1>5, TakeKeeps
  <1>7. PubInv'
    BY <1>0, <1>1 DEF PubInv, CutterInv, Publishing
  <1>8. QED
    BY <1>3, <1>4, <1>6, <1>7 DEF DeliveryInv

\* What the waiting work is made of.
LEMMA AllTaken ==
    ASSUME Types, HolderInv
    PROVE  /\ ops \o queue \in Seq(Work) /\ Once(ops \o queue, Delivery)
           /\ Delivery \in SeqSet(ops \o queue) <=> InOps \/ InQueue
           /\ <<>> \in Seq(Work) /\ Once(<<>>, Delivery) /\ Delivery \notin SeqSet(<<>>)
  <1>1. /\ ops \in Seq(Work) /\ queue \in Seq(Work) /\ Once(ops, Delivery) /\ Once(queue, Delivery)
        /\ ~(Delivery \in SeqSet(ops) /\ Delivery \in SeqSet(queue))
    BY DEF Types, HolderInv, InOps, InQueue
  <1>2. /\ ops \o queue \in Seq(Work) /\ Once(ops \o queue, Delivery)
        /\ SeqSet(ops \o queue) = SeqSet(ops) \cup SeqSet(queue)
    BY <1>1, ConcatHas
  <1>3. <<>> \in Seq(Work)
    OBVIOUS
  <1>4. QED
    BY <1>2, <1>3, EmptyHas DEF InOps, InQueue

LEMMA CancelExistingKeeps == ASSUME DeliveryInv, CancelExisting PROVE DeliveryInv'
  <1>0. Types /\ HolderInv
    BY DEF DeliveryInv
  <1>1. CutWork(ops \o queue, <<>>, <<>>, Work)
    BY DEF CancelExisting
  <1>2. QED
    BY <1>0, <1>1, AllTaken, CutWorkKeeps

LEMMA UserWorkKeeps == ASSUME DeliveryInv, LocalCancel \/ ClearUserWork PROVE DeliveryInv'
  <1>0. Types /\ HolderInv
    BY DEF DeliveryInv
  <1> DEFINE so == Others(ops, Delivery)
             sq == Others(queue, Delivery)
             o == Only(ops, Delivery)
             q == Only(queue, Delivery)
  <1>1. PICK running : CutWork(so \o sq, o, q, running)
    BY DEF LocalCancel, ClearUserWork, CutUserWork
  <1>2. /\ ops \in Seq(Work) /\ queue \in Seq(Work) /\ Delivery \in Work
        /\ Once(ops, Delivery) /\ Once(queue, Delivery)
    BY <1>0 DEF Types, HolderInv, Work
  <1>3. /\ so \in Seq(Work) /\ sq \in Seq(Work)
        /\ Once(so, Delivery) /\ Once(sq, Delivery)
        /\ Delivery \notin SeqSet(so) /\ Delivery \notin SeqSet(sq)
    BY <1>2, OthersHas
  <1>4. /\ o \in Seq(Work) /\ q \in Seq(Work) /\ Once(o, Delivery) /\ Once(q, Delivery)
        /\ Delivery \in SeqSet(o) <=> Delivery \in SeqSet(ops)
        /\ Delivery \in SeqSet(q) <=> Delivery \in SeqSet(queue)
    BY <1>2, OnlyHas
  <1> HIDE DEF so, sq, o, q
  <1>5. /\ so \o sq \in Seq(Work) /\ Once(so \o sq, Delivery)
        /\ Delivery \notin SeqSet(so \o sq)
    BY <1>3, ConcatHas
  <1>6. QED
    BY <1>1, <1>4, <1>5, CutWorkKeeps DEF InOps, InQueue

LEMMA CancelTurnKeeps == ASSUME DeliveryInv, NEW w \in Work, CancelTurn(w) PROVE DeliveryInv'
  <1>0. Types /\ HolderInv
    BY DEF DeliveryInv
  <1> DEFINE to == Only(ops, w)
             tq == Only(queue, w)
             o == Others(ops, w)
             q == Others(queue, w)
  <1>1. CutWork(to \o tq, o, q, {w})
    BY DEF CancelTurn
  <1>2. /\ ops \in Seq(Work) /\ queue \in Seq(Work)
        /\ Once(ops, Delivery) /\ Once(queue, Delivery)
        /\ ~(Delivery \in SeqSet(ops) /\ Delivery \in SeqSet(queue))
    BY <1>0 DEF Types, HolderInv, InOps, InQueue
  <1>3. /\ to \in Seq(Work) /\ tq \in Seq(Work)
        /\ Once(to, Delivery) /\ Once(tq, Delivery)
        /\ Delivery \in SeqSet(to) <=> Delivery = w /\ Delivery \in SeqSet(ops)
        /\ Delivery \in SeqSet(tq) <=> Delivery = w /\ Delivery \in SeqSet(queue)
    BY <1>2, OnlyHas
  <1>4. /\ o \in Seq(Work) /\ q \in Seq(Work) /\ Once(o, Delivery) /\ Once(q, Delivery)
        /\ Delivery \in SeqSet(o) <=> Delivery # w /\ Delivery \in SeqSet(ops)
        /\ Delivery \in SeqSet(q) <=> Delivery # w /\ Delivery \in SeqSet(queue)
    BY <1>2, OthersHas
  <1> HIDE DEF to, tq, o, q
  <1>5. /\ to \o tq \in Seq(Work) /\ Once(to \o tq, Delivery)
        /\ SeqSet(to \o tq) = SeqSet(to) \cup SeqSet(tq)
    BY <1>2, <1>3, ConcatHas
  <1>6. QED
    BY <1>1, <1>3, <1>4, <1>5, CutWorkKeeps DEF InOps, InQueue

LEMMA DiscardKeeps ==
    ASSUME Types, OrderInv, RetryInv, Discard, UNCHANGED child
    PROVE  /\ OrderInv' /\ RetryInv' /\ order' \in Seq(Reports) /\ fate' \in [Reports -> Fates]
           /\ UNCHANGED <<retried, fresh, suspended, runs, barren>>
           /\ \A r \in Reports : fate'[r] = IF fate[r] = "pending" THEN "discarded" ELSE fate[r]
  <1>1. /\ order' = <<>>
        /\ fate' = [r \in Reports |-> IF fate[r] = "pending" THEN "discarded" ELSE fate[r]]
        /\ UNCHANGED <<retried, fresh, suspended, runs, barren>>
    BY DEF Discard
  <1>2. /\ fate' \in [Reports -> Fates]
        /\ \A r \in Reports : fate'[r] = IF fate[r] = "pending" THEN "discarded" ELSE fate[r]
    BY <1>1 DEF Types, Fates
  <1>3. order' \in Seq(Reports) /\ SeqSet(order') = {} /\ \A r \in Reports : Once(order', r)
    BY <1>1, EmptyHas
  <1>4. Pending' = {}
    BY <1>2 DEF Pending
  <1>5. \A r \in Reports : child'[r] \in {"run", "retired"} => fate'[r] = "none"
    BY <1>2 DEF OrderInv
  <1>6. OrderInv'
    BY <1>1, <1>3, <1>4, <1>5 DEF OrderInv
  <1>7. RetryInv'
    BY <1>1, RetryKept
  <1>8. QED
    BY <1>1, <1>2, <1>3, <1>6, <1>7

LEMMA ClearKeeps == ASSUME DeliveryInv, Clear PROVE DeliveryInv'
  <1>0. Types /\ OrderInv /\ HolderInv /\ CutterInv /\ PubInv /\ RetryInv
    BY DEF DeliveryInv
  <1>1. /\ cpc = "none" /\ cpc' = "retire" /\ cphase' = "cut" /\ Discard
        /\ cwork' = ops \o queue /\ ops' = <<>> /\ queue' = <<>>
        /\ UNCHANGED <<open, pubs, guard, token, wake, rpc, cur, cut, inbox, busy,
                       child, wpc, unchecked, heard>>
    BY DEF Clear, Take, runnerVars, waiterVars
  <1>2. /\ OrderInv' /\ RetryInv' /\ order' \in Seq(Reports) /\ fate' \in [Reports -> Fates]
        /\ UNCHANGED <<retried, fresh, suspended, runs, barren>>
    BY <1>0, <1>1, DiscardKeeps
  <1>3. /\ ops \o queue \in Seq(Work) /\ Once(ops \o queue, Delivery)
        /\ Delivery \in SeqSet(ops \o queue) <=> InOps \/ InQueue
        /\ <<>> \in Seq(Work) /\ Once(<<>>, Delivery) /\ Delivery \notin SeqSet(<<>>)
    BY <1>0, AllTaken
  <1>4. WithRunner' <=> WithRunner
    BY <1>1 DEF WithRunner
  <1>5. HolderInv' /\ CutterInv'
    BY <1>0, <1>1, <1>2, <1>3, <1>4, TakeKeeps
  <1>6. cwork' \in Seq(Work) /\ ops' \in Seq(Work) /\ queue' \in Seq(Work)
    BY <1>1, <1>3
  <1>7. Types'
    BY <1>0, <1>1, <1>2, <1>6 DEF Types
  <1>8. PubInv'
    BY <1>0, <1>1 DEF PubInv, CutterInv, Publishing
  <1>9. QED
    BY <1>2, <1>5, <1>7, <1>8 DEF DeliveryInv

LEMMA PreparePanicsKeeps == ASSUME DeliveryInv, PreparePanics PROVE DeliveryInv'
  <1>0. Types /\ OrderInv /\ HolderInv /\ CutterInv /\ PubInv /\ RetryInv
    BY DEF DeliveryInv
  <1>1. /\ ops # <<>> /\ cpc = "none" /\ cwork' = <<Head(ops)>> /\ ops' = Tail(ops) /\ queue' = queue
        /\ cphase' = "failed" /\ cpc' = "retire" /\ pubs' = pubs + 1
        /\ UNCHANGED <<order, fate, retried, fresh, suspended, runs, barren, open, guard, token, wake,
                       rpc, cur, cut, inbox, busy, child, wpc, unchecked, heard>>
    BY DEF PreparePanics, reportVars, runnerVars, waiterVars
  <1>2. /\ ops \in Seq(Work) /\ queue \in Seq(Work) /\ pubs \in Nat
        /\ Once(ops, Delivery) /\ Once(queue, Delivery)
    BY <1>0 DEF Types, HolderInv
  <1> DEFINE h == Head(ops)
  <1>3. /\ ops' \in Seq(Work) /\ h \in Work /\ Once(ops', Delivery)
        /\ SeqSet(ops) = SeqSet(ops') \cup {h}
        /\ h = Delivery => Delivery \notin SeqSet(ops')
    BY <1>1, <1>2, TailHas
  <1>4. cwork' = <<h>>
    BY <1>1
  <1> HIDE DEF h
  <1>5. cwork' \in Seq(Work) /\ Once(cwork', Delivery) /\ SeqSet(cwork') = {h}
    BY <1>3, <1>4, SingleHas
  <1>6. WithRunner' <=> WithRunner
    BY <1>1 DEF WithRunner
  <1>7. /\ Delivery \in SeqSet(ops') => InOps
        /\ Delivery \in SeqSet(queue') => InQueue
        /\ Delivery \in SeqSet(cwork') <=> \/ InOps /\ Delivery \notin SeqSet(ops')
                                           \/ InQueue /\ Delivery \notin SeqSet(queue')
    BY <1>1, <1>3, <1>5 DEF InOps, InQueue
  <1>8. HolderInv' /\ CutterInv'
    <2>1. queue' \in Seq(Work) /\ Once(queue', Delivery) /\ runs' = runs /\ cpc = "none" /\ cpc' = "retire"
      BY <1>1, <1>2
    <2>2. QED
      BY ONLY <1>0, <1>3, <1>5, <1>6, <1>7, <2>1, TakeKeeps
  <1>9. pubs' \in Nat
    BY <1>1, <1>2
  <1>10. Types'
    BY <1>0, <1>1, <1>3, <1>5, <1>9 DEF Types
  <1>11. OrderInv' /\ RetryInv'
    BY <1>0, <1>1, OrderKept, RetryKept
  <1>12. PubInv'
    BY <1>0, <1>1, <1>2 DEF PubInv, CutterInv, Publishing, One
  <1>13. QED
    BY <1>8, <1>10, <1>11, <1>12 DEF DeliveryInv

LEMMA CloseKeeps == ASSUME DeliveryInv, Close PROVE DeliveryInv'
  <1>0. Types /\ OrderInv /\ HolderInv /\ CutterInv /\ PubInv /\ RetryInv
    BY DEF DeliveryInv
  <1>1. /\ cpc = "none" /\ open' = FALSE /\ guard' = FALSE /\ Discard
        /\ cwork' = ops /\ ops' = <<>> /\ queue' = queue /\ cphase' = "deferred" /\ cpc' = "retire"
        /\ UNCHANGED <<pubs, token, wake, rpc, cur, busy, child, wpc, unchecked, heard>>
    BY DEF Close, waiterVars
  <1>2. /\ OrderInv' /\ RetryInv' /\ order' \in Seq(Reports) /\ fate' \in [Reports -> Fates]
        /\ UNCHANGED <<retried, fresh, suspended, runs, barren>>
    BY <1>0, <1>1, DiscardKeeps
  <1>3. cut' \in BOOLEAN /\ inbox' \in BOOLEAN /\ open' \in BOOLEAN /\ guard' \in BOOLEAN
    BY <1>0, <1>1 DEF Close, CancelProcessing, Types
  <1>4. /\ ops \in Seq(Work) /\ queue \in Seq(Work) /\ Once(ops, Delivery) /\ Once(queue, Delivery)
        /\ <<>> \in Seq(Work) /\ Once(<<>>, Delivery) /\ Delivery \notin SeqSet(<<>>)
    BY <1>0, AllTaken DEF Types, HolderInv
  <1>5. WithRunner' <=> WithRunner
    BY <1>1 DEF WithRunner
  <1>6. HolderInv' /\ CutterInv'
    <2>1. /\ Delivery \in SeqSet(queue) => InQueue
          /\ Delivery \in SeqSet(ops) <=> \/ InOps /\ Delivery \notin SeqSet(<<>>)
                                          \/ InQueue /\ Delivery \notin SeqSet(queue)
      BY <1>4 DEF InOps, InQueue
    <2>2. QED
      BY <1>0, <1>1, <1>2, <1>4, <1>5, <2>1, TakeKeeps
  <1>7. cwork' \in Seq(Work) /\ ops' \in Seq(Work) /\ queue' \in Seq(Work)
    BY <1>1, <1>4
  <1>8. Types'
    BY <1>0, <1>1, <1>2, <1>3, <1>7 DEF Types
  <1>9. PubInv'
    BY <1>0, <1>1 DEF PubInv, CutterInv, Publishing
  <1>10. QED
    BY <1>2, <1>6, <1>8, <1>9 DEF DeliveryInv

-----------------------------------------------------------------------------
(* The thread that cuts finalizes what it took.                            *)

LEMMA CutterRetiresKeeps == ASSUME DeliveryInv, CutterRetires PROVE DeliveryInv'
  <1>0. Types /\ OrderInv /\ HolderInv /\ CutterInv /\ PubInv /\ RetryInv
    BY DEF DeliveryInv
  <1>1. /\ cpc = "retire" /\ cwork # <<>> /\ pubs' = pubs + 1 /\ cpc' = "settle"
        /\ UNCHANGED <<order, fate, retried, fresh, suspended, runs, barren, open, ops, queue, guard,
                       token, wake, rpc, cur, cut, inbox, busy, cwork, cphase, child, wpc, unchecked, heard>>
    BY DEF CutterRetires, reportVars, runnerVars, waiterVars
  <1>2. pubs \in Nat /\ pubs' \in Nat
    <2>1. pubs \in Nat
      BY <1>0 DEF Types
    <2>2. QED
      BY <1>1, <2>1
  <1>3. Types'
    BY <1>0, <1>1, <1>2 DEF Types, Publishing
  <1>4. OrderInv' /\ RetryInv'
    BY <1>0, <1>1, OrderKept, RetryKept
  <1>5. /\ WithRunner' <=> WithRunner
        /\ (InOps' <=> InOps) /\ (InQueue' <=> InQueue) /\ (WithCutter' <=> WithCutter)
    BY <1>1 DEF InOps, InQueue, WithCutter, WithRunner
  <1>6. HolderInv' /\ CutterInv'
    BY <1>0, <1>1, <1>5 DEF HolderInv, CutterInv
  <1>7. PubInv'
    BY <1>0, <1>1, <1>2 DEF PubInv, Publishing, One
  <1>8. QED
    BY <1>3, <1>4, <1>6, <1>7 DEF DeliveryInv

LEMMA CutterSettlesKeeps == ASSUME DeliveryInv, CutterSettles PROVE DeliveryInv'
  <1>0. Types /\ OrderInv /\ HolderInv /\ CutterInv /\ PubInv /\ RetryInv
    BY DEF DeliveryInv
  <1>1. /\ cpc = "settle" /\ cpc' = "publish"
        /\ UNCHANGED <<open, ops, queue, pubs, guard, token, wake, rpc, cur, cut, inbox, busy,
                       cwork, cphase, child, wpc, unchecked, heard>>
    BY DEF CutterSettles, workVars, runnerVars, waiterVars
  <1>2. cwork \in Seq(Work) /\ cwork # <<>>
    BY <1>0, <1>1 DEF Types, CutterInv, Publishing
  <1>3. /\ WithCutter <=> Delivery \in SeqSet(cwork)
        /\ WithCutter' <=> Delivery \in SeqSet(cwork) /\ Head(cwork) # Delivery
        /\ (InOps' <=> InOps) /\ (InQueue' <=> InQueue) /\ (WithRunner' <=> WithRunner)
    BY <1>1 DEF InOps, InQueue, WithCutter, WithRunner
  <1>4. CutterInv' /\ PubInv'
    BY <1>0, <1>1, <1>2 DEF CutterInv, PubInv, Publishing, One
  <1>5. CASE Head(cwork) = Delivery
    <2>1. WithCutter /\ ~WithCutter' /\ runs # {}
      <3>1. Delivery \in SeqSet(cwork)
        BY <1>2, <1>5, TailHas
      <3>2. QED
        BY <1>0, <1>3, <1>5, <3>1 DEF HolderInv
    <2>2. Settle(cphase # "failed") /\ (cphase # "failed") \in BOOLEAN
      BY <1>5 DEF CutterSettles
    <2>3. /\ runs' = {} /\ RetryInv' /\ UNCHANGED <<order, fate, fresh>>
          /\ retried' \subseteq Reports /\ suspended' \in BOOLEAN /\ barren' \in Nat
      <3> DEFINE c == cphase # "failed"
      <3>1. c \in BOOLEAN /\ Settle(c)
        BY <2>2
      <3> HIDE DEF c
      <3>2. QED
        BY <1>0, <2>1, <3>1, SettleKeeps
    <2>4. Types'
      BY <1>0, <1>1, <2>3 DEF Types, Publishing
    <2>5. OrderInv'
      BY <1>0, <1>1, <2>3, OrderKept
    <2>6. HolderInv'
      BY <1>0, <1>1, <1>3, <2>1, <2>3 DEF HolderInv
    <2>7. QED
      BY <1>4, <2>3, <2>4, <2>5, <2>6 DEF DeliveryInv
  <1>6. CASE Head(cwork) # Delivery
    <2>1. UNCHANGED <<order, fate, retried, fresh, suspended, runs, barren>>
      BY <1>6 DEF CutterSettles, reportVars
    <2>2. Types'
      BY <1>0, <1>1, <2>1 DEF Types, Publishing
    <2>3. OrderInv' /\ RetryInv'
      BY <1>0, <1>1, <2>1, OrderKept, RetryKept
    <2>4. HolderInv'
      BY <1>0, <1>1, <1>3, <1>6, <2>1 DEF HolderInv
    <2>5. QED
      BY <1>4, <2>2, <2>3, <2>4 DEF DeliveryInv
  <1>7. QED
    BY <1>5, <1>6

LEMMA CutterPublishesKeeps == ASSUME DeliveryInv, CutterPublishes PROVE DeliveryInv'
  <1>0. Types /\ OrderInv /\ HolderInv /\ CutterInv /\ PubInv /\ RetryInv
    BY DEF DeliveryInv
  <1>1. /\ cpc = "publish" /\ pubs' = pubs - 1 /\ cwork' = Tail(cwork) /\ cpc' = "retire"
        /\ UNCHANGED <<order, fate, retried, fresh, suspended, runs, barren, open, ops, queue, guard,
                       token, wake, rpc, cur, cut, inbox, busy, cphase, child, wpc, unchecked, heard>>
    BY DEF CutterPublishes, reportVars, runnerVars, waiterVars
  <1>2. cwork \in Seq(Work) /\ cwork # <<>> /\ Once(cwork, Delivery)
    BY <1>0, <1>1 DEF Types, CutterInv, HolderInv, Publishing
  <1>3. /\ cwork' \in Seq(Work) /\ Once(cwork', Delivery)
        /\ SeqSet(cwork) = SeqSet(cwork') \cup {Head(cwork)}
        /\ Head(cwork) = Delivery => Delivery \notin SeqSet(cwork')
    BY <1>1, <1>2, TailHas
  <1>4. WithCutter' <=> WithCutter
    BY <1>1, <1>3 DEF WithCutter
  <1>5. (InOps' <=> InOps) /\ (InQueue' <=> InQueue) /\ (WithRunner' <=> WithRunner)
    BY <1>1 DEF InOps, InQueue, WithRunner
  <1>6. PubInv' /\ pubs' \in Nat
    BY <1>0, <1>1 DEF PubInv, Publishing, One
  <1>7. Types'
    BY <1>0, <1>1, <1>3, <1>6 DEF Types
  <1>8. OrderInv' /\ RetryInv'
    BY <1>0, <1>1, OrderKept, RetryKept
  <1>9. HolderInv' /\ CutterInv'
    <2>1. HolderInv'
      BY <1>0, <1>1, <1>3, <1>4, <1>5 DEF HolderInv
    <2>2. CutterInv'
      BY <1>1 DEF CutterInv, Publishing
    <2>3. QED
      BY <2>1, <2>2
  <1>10. QED
    BY <1>6, <1>7, <1>8, <1>9 DEF DeliveryInv

LEMMA CutterEndsKeeps == ASSUME DeliveryInv, CutterEnds PROVE DeliveryInv'
  <1>0. Types /\ OrderInv /\ HolderInv /\ CutterInv /\ PubInv /\ RetryInv
    BY DEF DeliveryInv
  <1>1. /\ cpc = "retire" /\ cwork = <<>>
        /\ UNCHANGED <<order, fate, retried, fresh, suspended, runs, barren, open, ops, guard,
                       rpc, cur, cut, inbox, busy, child, wpc, unchecked, heard>>
        /\ \/ /\ cphase = "deferred" /\ cwork' = queue /\ queue' = <<>> /\ cphase' = "queue"
              /\ UNCHANGED <<cpc, pubs, token, wake>>
           \/ /\ cphase \in {"queue", "failed", "cut"} /\ cwork' = <<>> /\ queue' = queue
              /\ cpc' = "none" /\ cphase' = "cut"
              /\ pubs' = IF cphase = "failed" THEN pubs - 1 ELSE pubs
              /\ token' \in {token, TRUE} /\ wake' \in {wake, TRUE}
    <2>1. cphase \in {"cut", "failed", "deferred", "queue"}
      BY <1>0 DEF Types
    <2>2. QED
      BY <2>1 DEF CutterEnds, reportVars, runnerVars, waiterVars
  <1>2. OrderInv' /\ RetryInv'
    BY <1>0, <1>1, OrderKept, RetryKept
  <1>3. (InOps' <=> InOps) /\ (WithRunner' <=> WithRunner) /\ ~WithCutter
    BY <1>1, EmptyHas DEF InOps, WithRunner, WithCutter
  <1>4. /\ queue \in Seq(Work) /\ Once(queue, Delivery) /\ <<>> \in Seq(Work)
        /\ SeqSet(<<>>) = {} /\ Once(<<>>, Delivery)
    BY <1>0, EmptyHas DEF Types, HolderInv
  <1>5. CASE /\ cphase = "deferred" /\ cwork' = queue /\ queue' = <<>> /\ cphase' = "queue"
             /\ UNCHANGED <<cpc, pubs, token, wake>>
    <2>1. /\ cwork' \in Seq(Work) /\ queue' \in Seq(Work)
          /\ Once(cwork', Delivery) /\ Once(queue', Delivery)
          /\ (WithCutter' <=> InQueue) /\ ~InQueue'
      BY <1>1, <1>4, <1>5 DEF WithCutter, InQueue
    <2>2. Types'
      BY <1>0, <1>1, <1>5, <2>1 DEF Types
    <2>3. HolderInv'
      BY <1>0, <1>1, <1>3, <2>1 DEF HolderInv
    <2>4. CutterInv' /\ PubInv'
      BY <1>0, <1>1, <1>5 DEF CutterInv, PubInv, Publishing
    <2>5. QED
      BY <1>2, <2>2, <2>3, <2>4 DEF DeliveryInv
  <1>6. CASE /\ cphase \in {"queue", "failed", "cut"} /\ cwork' = <<>> /\ queue' = queue
             /\ cpc' = "none" /\ cphase' = "cut"
             /\ pubs' = IF cphase = "failed" THEN pubs - 1 ELSE pubs
             /\ token' \in {token, TRUE} /\ wake' \in {wake, TRUE}
    <2>1. /\ cwork' \in Seq(Work) /\ Once(cwork', Delivery)
          /\ ~WithCutter' /\ (InQueue' <=> InQueue)
      BY <1>4, <1>6 DEF WithCutter, InQueue
    <2>2. PubInv' /\ pubs' \in Nat
      BY <1>0, <1>1, <1>6 DEF PubInv, Publishing, One
    <2>3. token' \in BOOLEAN /\ wake' \in BOOLEAN
      BY <1>0, <1>6 DEF Types
    <2>4. Types'
      BY <1>0, <1>1, <1>6, <2>1, <2>2, <2>3 DEF Types
    <2>5. HolderInv'
      BY <1>0, <1>1, <1>3, <1>6, <2>1 DEF HolderInv
    <2>6. CutterInv'
      BY <1>6 DEF CutterInv, Publishing
    <2>7. QED
      BY <1>2, <2>2, <2>4, <2>5, <2>6 DEF DeliveryInv
  <1>7. QED
    BY <1>1, <1>5, <1>6

-----------------------------------------------------------------------------
(* The invariant holds.                                                    *)

LEMMA InitHolds == Init => DeliveryInv
  <1> SUFFICES ASSUME Init PROVE DeliveryInv
    OBVIOUS
  <1>1. /\ order = <<>> /\ fate = [r \in Reports |-> "none"] /\ retried = {} /\ fresh = {}
        /\ suspended = FALSE /\ runs = {} /\ barren = 0 /\ open = TRUE /\ ops = <<>> /\ queue = <<>>
        /\ pubs = 0 /\ guard = FALSE /\ token = FALSE /\ wake = FALSE /\ rpc = "step"
        /\ cur = Delivery /\ cut = FALSE /\ inbox = FALSE /\ busy = FALSE
        /\ cpc = "none" /\ cwork = <<>> /\ cphase = "cut" /\ child = [r \in Reports |-> "run"]
        /\ wpc = "off" /\ unchecked = {} /\ heard = {}
    BY DEF Init
  <1>2. <<>> \in Seq(Reports) /\ <<>> \in Seq(Work) /\ Delivery \in Work
    BY DEF Work
  <1>3. /\ fate \in [Reports -> Fates] /\ child \in [Reports -> ChildStates]
        /\ \A r \in Reports : fate[r] = "none"
    BY <1>1 DEF Fates, ChildStates
  <1>4. Types
    BY <1>1, <1>2, <1>3 DEF Types, Resting
  <1>5. OrderInv
    BY <1>1, <1>3, EmptyHas DEF OrderInv, Pending
  <1>6. ~InOps /\ ~InQueue /\ ~WithCutter /\ ~WithRunner
    BY <1>1, EmptyHas DEF InOps, InQueue, WithCutter, WithRunner, Active
  <1>7. HolderInv /\ CutterInv
    BY <1>1, <1>6, EmptyHas DEF HolderInv, CutterInv, Publishing
  <1>8. PubInv
    BY <1>1 DEF PubInv, One, Publishing
  <1>9. RetryInv
    BY <1>1, FS_EmptySet DEF RetryInv
  <1>10. QED
    BY <1>4, <1>5, <1>7, <1>8, <1>9 DEF DeliveryInv

LEMMA StutterKeeps == ASSUME DeliveryInv, UNCHANGED vars PROVE DeliveryInv'
  <1>0. Types
    BY DEF DeliveryInv
  <1>1. UNCHANGED <<order, fate, retried, fresh, suspended, runs, barren, open, ops, queue, pubs, guard,
                    token, wake, rpc, cur, cut, inbox, busy, cpc, cwork, cphase, child,
                    wpc, unchecked, heard>>
    BY DEF vars, reportVars, workVars, runnerVars, cutterVars, waiterVars
  <1>2. Types'
    BY <1>0, <1>1 DEF Types
  <1>3. QED
    BY <1>1, <1>2, QuietStep

LEMMA NextKeeps == ASSUME DeliveryInv, Next PROVE DeliveryInv'
  <1>1. CASE \E r \in Reports : ChildMoves(r) \/ Withdraw(r)
    BY <1>1, ChildStepsKeep, ChildPublishesKeeps, WithdrawKeeps DEF ChildMoves
  <1>2. CASE RunnerMoves \/ CommitReports \/ BackendEnds
    BY <1>2, StepSchedulesKeeps, StepPopsKeeps, RunnerQuietKeeps, WithdrawnKeeps, RunnerRetiresKeeps,
       RunnerSettlesKeeps, RunnerPublishesKeeps, CommitReportsKeeps DEF RunnerMoves, BackendEnds
  <1>3. CASE \E u \in UserTurns : SubmitTurn(u)
    BY <1>3, SubmitTurnKeeps
  <1>4. CASE Prepare \/ PreparedCommit \/ PrepareIdle \/ ReleaseIdle
    BY <1>4, PrepareKeeps, PreparedCommitKeeps, RunnerQuietKeeps
  <1>5. CASE Cut
    BY <1>5, CancelExistingKeeps, UserWorkKeeps, ClearKeeps, CancelTurnKeeps, PreparePanicsKeeps,
       CloseKeeps DEF Cut
  <1>6. CASE CutterMoves
    BY <1>6, CutterRetiresKeeps, CutterSettlesKeeps, CutterPublishesKeeps, CutterEndsKeeps DEF CutterMoves
  <1>7. CASE WaiterMoves
    BY <1>7, WaiterKeeps
  <1>8. QED
    BY <1>1, <1>2, <1>3, <1>4, <1>5, <1>6, <1>7 DEF Next

(* The inductive invariant of the delivery holds in every reachable state,  *)
(* through arrivals, withdrawals, cuts, failed preparations and the close.  *)
THEOREM DeliveryCorrect == Spec => []DeliveryInv
  <1>1. DeliveryInv /\ [Next]_vars => DeliveryInv'
    BY NextKeeps, StutterKeeps
  <1>2. QED
    BY <1>1, InitHolds, PTL DEF Spec

-----------------------------------------------------------------------------
(* What follows from it.                                                   *)

LEMMA OrderCounts ==
    ASSUME NEW S, NEW s \in Seq(S), \A x \in S : Once(s, x)
    PROVE  Len(s) = Cardinality(SeqSet(s))
  <1> DEFINE n == Len(s)
             T == SeqSet(s)
  <1>1. n \in Nat /\ DOMAIN s = 1..n /\ s \in [1..n -> S] /\ T \subseteq S
    BY MembersAre
  <1>2. \A i \in 1..n : s[i] \in T
    BY <1>1, MembersAre
  <1>3. \A t \in T : \E i \in 1..n : s[i] = t
    BY <1>1 DEF SeqSet
  <1>4. \A i, j \in 1..n : s[i] = s[j] => i = j
    BY <1>1, <1>2 DEF Once
  <1> HIDE DEF n, T
  <1>5. s \in [1..n -> T]
    BY <1>1, <1>2
  <1>6. s \in Surjection(1..n, T) /\ s \in Injection(1..n, T)
    BY <1>3, <1>4, <1>5 DEF Surjection, Injection, IsInjective
  <1>7. IsFiniteSet(1..n) /\ Cardinality(1..n) = n
    BY <1>1, FS_Interval
  <1>8. Cardinality(T) = Cardinality(1..n)
    BY <1>6, <1>7, FS_Surjection
  <1>9. QED
    BY <1>7, <1>8 DEF n, T

LEMMA HoldersCount == ASSUME Types, HolderInv PROVE runs # {} <=> Cardinality(Holders) = 1
  <1>1. WithRunner <=> cur = Delivery /\ (Processing \/ rpc = "settle")
    BY ProcessingIs DEF WithRunner
  <1>2. Holders = (IF InOps THEN {"ops"} ELSE {}) \cup (IF InQueue THEN {"queue"} ELSE {})
                     \cup (IF WithRunner THEN {"runner"} ELSE {})
                     \cup (IF WithCutter THEN {"cutter"} ELSE {})
    BY <1>1 DEF Holders, InOps, InQueue, WithCutter
  <1>3. CASE InOps
    <2>1. Holders = {"ops"} /\ runs # {}
      BY <1>2, <1>3 DEF HolderInv
    <2>2. QED
      BY <2>1, FS_Singleton
  <1>4. CASE InQueue
    <2>1. Holders = {"queue"} /\ runs # {}
      BY <1>2, <1>4 DEF HolderInv
    <2>2. QED
      BY <2>1, FS_Singleton
  <1>5. CASE WithRunner
    <2>1. Holders = {"runner"} /\ runs # {}
      BY <1>2, <1>5 DEF HolderInv
    <2>2. QED
      BY <2>1, FS_Singleton
  <1>6. CASE WithCutter
    <2>1. Holders = {"cutter"} /\ runs # {}
      BY <1>2, <1>6 DEF HolderInv
    <2>2. QED
      BY <2>1, FS_Singleton
  <1>7. CASE ~InOps /\ ~InQueue /\ ~WithRunner /\ ~WithCutter
    <2>1. Holders = {} /\ runs = {}
      BY <1>2, <1>7 DEF HolderInv
    <2>2. QED
      BY <2>1, FS_EmptySet
  <1>8. QED
    BY <1>3, <1>4, <1>5, <1>6, <1>7

LEMMA InvGivesTypeOK == ASSUME DeliveryInv PROVE TypeOK
  <1>0. Types /\ OrderInv /\ HolderInv /\ CutterInv /\ PubInv /\ RetryInv
    BY DEF DeliveryInv
  <1>1. SeqSet(order) = Pending /\ Len(order) = Cardinality(Pending) /\ (open \/ order = <<>>)
    <2>1. order \in Seq(Reports) /\ SeqSet(order) = Pending /\ \A r \in Reports : Once(order, r)
      BY <1>0 DEF Types, OrderInv
    <2>2. Len(order) = Cardinality(SeqSet(order))
      BY <2>1, OrderCounts
    <2>3. QED
      BY <1>0, <2>1, <2>2 DEF OrderInv
  <1>2. Cardinality(runs) <= 1
    <2>1. CASE runs = {}
      BY <2>1, FS_EmptySet
    <2>2. CASE runs # {}
      <3>1. PICK b : runs = {b}
        BY <1>0, <2>2 DEF HolderInv
      <3>2. Cardinality(runs) = 1
        BY <3>1, FS_Singleton
      <3>3. QED
        BY <3>2
    <2>3. QED
      BY <2>1, <2>2
  <1>3. runs # {} <=> Cardinality(Holders) = 1
    BY <1>0, HoldersCount
  <1>4. SeqSet(ops \o queue \o cwork) \subseteq Work
    <2>1. ops \in Seq(Work) /\ queue \in Seq(Work) /\ cwork \in Seq(Work)
      BY <1>0 DEF Types
    <2>2. ops \o queue \in Seq(Work)
      BY <2>1, ConcatHas
    <2>3. (ops \o queue) \o cwork \in Seq(Work)
      BY <2>1, <2>2, ConcatHas
    <2>4. QED
      BY <2>3, MembersAre
  <1>5. pubs \in 0..3
    BY <1>0 DEF PubInv, One
  <1>6. {token, wake, cut, inbox, busy} \subseteq BOOLEAN /\ suspended \in BOOLEAN /\ open \in BOOLEAN
        /\ guard \in BOOLEAN
    BY <1>0 DEF Types
  <1>7. /\ rpc \in {"step", "popped", "enter", "run", "turned", "retire", "settle", "publish",
                    "post", "empty", "drained", "leaving", "asleep", "exit"}
        /\ cpc \in {"none", "retire", "settle", "publish"}
    BY <1>0 DEF Types, Active, Resting, Publishing
  <1>8. /\ fate \in [Reports -> {"none", "pending", "executed", "discarded", "rejected"}]
        /\ child \in [Reports -> {"run", "retired", "published", "drained", "notified"}]
    BY <1>0 DEF Types, Fates, ChildStates
  <1>9. /\ retried \subseteq Reports /\ fresh \subseteq Reports /\ runs \subseteq SUBSET Reports
        /\ barren \in Nat /\ cur \in Work /\ cphase \in {"cut", "failed", "deferred", "queue"}
        /\ wpc \in {"off", "check", "poll", "wait", "again", "done"}
        /\ unchecked \subseteq Actors /\ heard \subseteq Actors
    BY <1>0 DEF Types
  <1>10. QED
    BY <1>1, <1>2, <1>3, <1>4, <1>5, <1>6, <1>7, <1>8, <1>9 DEF TypeOK

(* Every variable has its type; delivery_order lists exactly the pending    *)
(* reports; a delivery run is registered exactly while one holder, and no   *)
(* second one, has its turn: none is leaked by a cut, a close, a withdrawal *)
(* or a failed preparation, which would block every later delivery.         *)
THEOREM DeliveryTypeOK == Spec => []TypeOK
  <1>1. DeliveryInv => TypeOK
    BY InvGivesTypeOK
  <1>2. QED
    BY <1>1, DeliveryCorrect, PTL

(* Retries are bounded: since the last new report, turn or configuration,   *)
(* beyond two runs, each run that left reports behind was paid for by a     *)
(* report that had not been retried.                                        *)
THEOREM NoEndlessRetry == Spec => []RetriesAreBounded
  <1>1. DeliveryInv => RetriesAreBounded
    BY DEF DeliveryInv, RetryInv, RetriesAreBounded
  <1>2. QED
    BY <1>1, DeliveryCorrect, PTL

-----------------------------------------------------------------------------
(* What a step does to the fates.                                          *)

\* Either every report keeps its fate, gets its first one or is discarded
\* while it is pending, or the oldest n pending ones are executed.
FateMoves ==
    \/ \A r \in Reports : \/ fate'[r] = fate[r]
                          \/ fate[r] = "none" /\ fate'[r] \in {"pending", "rejected"}
                          \/ fate[r] = "pending" /\ fate'[r] = "discarded"
    \/ \E n \in 1..Len(order) :
          \A r \in Reports : \/ fate'[r] = fate[r] /\ \A i \in 1..n : order[i] # r
                             \/ fate'[r] = "executed" /\ \E i \in 1..n : order[i] = r

LEMMA FatesMove == ASSUME DeliveryInv, [Next]_vars PROVE FateMoves
  <1>0. Types /\ OrderInv
    BY DEF DeliveryInv
  <1>1. CASE fate' = fate
    BY <1>1 DEF FateMoves
  <1>2. ASSUME NEW r \in Reports, ChildPublishes(r) PROVE FateMoves
    <2>1. fate[r] = "none"
      BY <1>0, <1>2 DEF OrderInv, ChildPublishes
    <2>2. fate' = [fate EXCEPT ![r] = "pending"] \/ fate' = [fate EXCEPT ![r] = "rejected"]
      BY <1>2 DEF ChildPublishes, AdmitDelivery, Accept, Reject
    <2>3. QED
      BY <1>0, <2>1, <2>2 DEF FateMoves, Types
  <1>3. ASSUME NEW r \in Reports, Withdraw(r) PROVE FateMoves
    <2>1. fate[r] = "pending" /\ fate' = [fate EXCEPT ![r] = "discarded"]
      BY <1>3 DEF Withdraw
    <2>2. QED
      BY <1>0, <2>1 DEF FateMoves, Types
  <1>4. CASE Discard
    <2>1. fate' = [r \in Reports |-> IF fate[r] = "pending" THEN "discarded" ELSE fate[r]]
      BY <1>4 DEF Discard
    <2>2. QED
      BY <2>1 DEF FateMoves
  <1>5. CASE CommitReports
    <2>1. CASE fate' # fate
      <3>1. PICK n \in 1..Len(order) :
                fate' = [r \in Reports |->
                           IF r \in {order[i] : i \in 1..n} THEN "executed" ELSE fate[r]]
        BY <1>5, <2>1 DEF CommitReports, Eligible
      <3>2. \A r \in Reports : \/ fate'[r] = fate[r] /\ \A i \in 1..n : order[i] # r
                               \/ fate'[r] = "executed" /\ \E i \in 1..n : order[i] = r
        BY <3>1
      <3>3. QED
        BY <3>2 DEF FateMoves
    <2>2. QED
      BY <1>1, <2>1
  <1>6. CASE UNCHANGED vars
    BY <1>1, <1>6 DEF vars, reportVars
  <1>7. CASE \E r \in Reports : ChildRetires(r) \/ ChildStaysSilent(r) \/ ChildDrains(r) \/ ChildNotifies(r)
    BY <1>1, <1>7 DEF ChildRetires, ChildStaysSilent, ChildDrains, ChildNotifies, reportVars
  <1>8. CASE RunnerMoves
    <2>1. fate' = fate
      BY <1>8 DEF RunnerMoves, StepSchedules, StepPops, StepFindsNothing, RunnerDrains, RunnerSleeps,
         RunnerWakes, Withdrawn, SetupCancelled, Enter, RunnerRetires, RunnerSettles, Settle,
         RunnerPublishes, RunnerNext, reportVars
    <2>2. QED
      BY <1>1, <2>1
  <1>9. CASE BackendEnds \/ (\E u \in UserTurns : SubmitTurn(u)) \/ Prepare \/ PreparedCommit
             \/ PrepareIdle \/ ReleaseIdle
    BY <1>1, <1>9 DEF BackendEnds, BackendFinishes, BackendFails, SubmitTurn, Prepare, PreparedCommit,
       PrepareIdle, ReleaseIdle, reportVars
  <1>10. CASE CancelExisting \/ LocalCancel \/ ClearUserWork \/ (\E w \in Work : CancelTurn(w)) \/ PreparePanics
    BY <1>1, <1>10 DEF CancelExisting, LocalCancel, ClearUserWork, CutUserWork, CancelTurn, CutWork,
       PreparePanics, reportVars
  <1>11. CASE CutterMoves
    <2>1. fate' = fate
      BY <1>11 DEF CutterMoves, CutterRetires, CutterSettles, CutterPublishes, CutterEnds, Settle, reportVars
    <2>2. QED
      BY <1>1, <2>1
  <1>12. CASE WaiterMoves
    BY <1>1, <1>12 DEF WaiterMoves, Listen, CheckActor, Poll, Hears, reportVars
  <1>13. CASE Clear \/ Close
    BY <1>4, <1>13 DEF Clear, Close
  <1>14. QED
    BY <1>2, <1>3, <1>5, <1>6, <1>7, <1>8, <1>9, <1>10, <1>11, <1>12, <1>13 DEF Next, ChildMoves, Cut

(* What became of a report is final: a step that executes the oldest        *)
(* pending reports touches only pending ones, whatever the batch of the     *)
(* run still names.                                                         *)
THEOREM FatesAreFinal == Spec => FateIsFinal
  <1>1. ASSUME DeliveryInv, [Next]_vars, NEW r \in Reports,
               fate[r] \in {"executed", "discarded", "rejected"}
        PROVE  fate'[r] = fate[r]
    <2>1. order \in Seq(Reports) /\ SeqSet(order) = Pending
      BY <1>1 DEF DeliveryInv, Types, OrderInv
    <2>2. \A i \in 1..Len(order) : order[i] # r
      <3>1. \A i \in DOMAIN order : order[i] \in Pending
        BY <2>1, MembersAre
      <3>2. QED
        BY <1>1, <2>1, <3>1 DEF Pending
    <2>3. FateMoves
      BY <1>1, FatesMove
    <2>4. QED
      BY <1>1, <2>2, <2>3 DEF FateMoves
  <1>2. DeliveryInv /\ [Next]_vars =>
           [\A r \in Reports :
               fate[r] \in {"executed", "discarded", "rejected"} => fate'[r] = fate[r]]_vars
    BY <1>1
  <1>3. QED
    BY <1>2, DeliveryCorrect, PTL DEF Spec, FateIsFinal

(* No report is executed while an older one stays pending.                  *)
THEOREM NoReportOvertakes == Spec => NoOvertaking
  <1>1. ASSUME DeliveryInv, [Next]_vars, NEW i \in DOMAIN order, NEW j \in DOMAIN order,
               i < j, fate'[order[j]] = "executed"
        PROVE  fate'[order[i]] # "pending"
    <2>1. order \in Seq(Reports) /\ SeqSet(order) = Pending /\ \A r \in Reports : Once(order, r)
      BY <1>1 DEF DeliveryInv, Types, OrderInv
    <2>2. /\ order[i] \in Reports /\ order[j] \in Reports
          /\ fate[order[i]] = "pending" /\ fate[order[j]] = "pending"
      BY <1>1, <2>1, MembersAre DEF Pending
    <2>3. FateMoves
      BY <1>1, FatesMove
    <2>4. PICK n \in 1..Len(order) :
             \A r \in Reports : \/ fate'[r] = fate[r] /\ \A k \in 1..n : order[k] # r
                                \/ fate'[r] = "executed" /\ \E k \in 1..n : order[k] = r
      BY <1>1, <2>2, <2>3 DEF FateMoves
    <2>5. PICK k \in 1..n : order[k] = order[j]
      BY <1>1, <2>2, <2>4
    <2>6. DOMAIN order = 1..Len(order) /\ Len(order) \in Nat
      BY <2>1, MembersAre
    <2>7. k \in DOMAIN order /\ k \in Nat /\ k <= n /\ n \in Nat
      BY <2>4, <2>5, <2>6
    <2>8. k = j
      BY <2>1, <2>2, <2>5, <2>7 DEF Once
    <2>9. i \in 1..n
      BY <1>1, <2>6, <2>7, <2>8
    <2>10. QED
      BY <2>2, <2>4, <2>9
  <1>2. DeliveryInv /\ [Next]_vars =>
           [\A i, j \in DOMAIN order :
               i < j /\ fate'[order[j]] = "executed" => fate'[order[i]] # "pending"]_vars
    BY <1>1
  <1>3. QED
    BY <1>2, DeliveryCorrect, PTL DEF Spec, NoOvertaking
=============================================================================
