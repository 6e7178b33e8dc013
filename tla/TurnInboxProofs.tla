-------------------------- MODULE TurnInboxProofs --------------------------
(***************************************************************************)
(* Machine-checked proofs about TurnInbox, for every value of its          *)
(* constants: submissions are where their state says, none is lost, the    *)
(* capacity and the constraints hold, and work takes effect in the order   *)
(* it was accepted.                                                        *)
(***************************************************************************)
EXTENDS TurnInbox, FiniteSetTheorems, SequenceTheorems, TLAPS

-----------------------------------------------------------------------------
(* The inductive invariant.                                                *)

BpcStates == {"idle", "popped", "loop", "consumed", "response", "answered", "checks",
              "finish", "close", "retire"}
SubStates == {"new", "checking", "pending", "held"} \cup Settled
CheckRecords == [turn : Subs \cup {NoTurn}, policy : Nat, gen : Nat, boundary : Nat]

Types ==
    /\ sub \in [Subs -> SubStates]
    /\ home \in [Subs -> Subs \cup {NoTurn}] /\ passed \in [Subs -> Nat]
    /\ chk \in [Subs -> CheckRecords]
    /\ openIn \subseteq inboxes /\ inboxes \subseteq Subs
    /\ pend \in [Subs -> Seq(Subs)] /\ held \in [Subs -> SUBSET Subs]
    /\ pol \in [Subs \cup Compactions -> Nat] /\ cons \in [Subs -> SUBSET Subs]
    /\ opid \in [Items -> Nat] /\ nextOp \in Nat /\ gen \in Nat \ {0}
    /\ confs \in [Configs -> Nat]
    /\ ops \subseteq Items /\ queue \subseteq Items /\ cur \in Items \cup {NoTurn}
    /\ open \in BOOLEAN /\ cut \in BOOLEAN /\ stale \in BOOLEAN /\ done \in BOOLEAN
    /\ owed \in BOOLEAN
    /\ bpc \in BpcStates /\ reqs \in 0..MaxRequests
    /\ bpc = "consumed" => reqs < MaxRequests
    /\ acc \in [Items -> Nat] /\ accepted \in Nat /\ hist \in Seq(Items)
    /\ inside \in [Compactions -> Subs \cup {NoTurn}]

\* An id names one operation.  What waits was numbered, in front of it is what
\* is materialized, and in front of that what runs.
Ordered(o, q, id, c) ==
    /\ \A i \in o \cup q : id[i] # 0 /\ i # c
    /\ \A i \in q, j \in o : id[i] < id[j]
    /\ c # NoTurn => id[c] # 0 /\ \A j \in o \cup q : id[c] < id[j]
    /\ \A x \in Configs : x \notin q /\ x # c
IdInv ==
    /\ \A i \in Items : opid[i] <= nextOp
    /\ \A i, j \in Items : opid[i] = opid[j] /\ opid[i] # 0 => i = j
    /\ Ordered(ops, queue, opid, cur)
    /\ bpc = "idle" <=> cur = NoTurn
    /\ \A s \in Subs : sub[s] \in {"new", "checking", "refused"} => opid[s] = 0
    /\ cur \notin Subs => bpc \in {"idle", "popped"}

\* A turn gets its policy when it reaches the front, after the changes admitted
\* before it were committed and before any admitted after it is.
PolOver(o, q, id, g, cf, c) ==
    /\ \A t \in Subs : pol[t] # 0 => id[t] # 0 /\ pol[t] <= g
    /\ \A t \in Subs : t \in q \/ t = c => pol[t] # 0
    /\ \A t \in Subs \cap o : pol[t] # 0 => pol[t] = g
    /\ \A t \in Subs, i \in o : pol[t] # 0 /\ i # t => id[t] < id[i]
    /\ \A x \in Configs : cf[x] <= g /\ (cf[x] # 0 => id[x] # 0 /\ x \notin o)
    /\ \A x \in Configs, i \in o : cf[x] # 0 => id[x] < id[i]
    /\ \A x \in Configs, t \in Subs :
          cf[x] # 0 /\ pol[t] # 0 => (cf[x] <= pol[t] <=> id[x] < id[t])
PolInv ==
    /\ PolOver(ops, queue, opid, gen, confs, cur)
    /\ \A t \in Subs : First(t) => pol[t] = gen

\* A turn whose input is not in the history yet.
Unstarted(t) == t \in ops \/ t \in queue \/ (t = cur /\ bpc = "popped")
Afloat == ops \cup queue \cup {cur}

\* A submission is in the inbox its state says, and the inbox belongs to a turn
\* that waits or runs; before it starts the turn holds one initial input.
PlaceInv ==
    /\ \A s \in Subs : home[s] = NoTurn <=> sub[s] \in {"new", "checking", "refused"}
    /\ \A s \in Subs : home[s] # NoTurn => opid[home[s]] # 0
    /\ \A s \in Subs : sub[s] = "pending" => home[s] \in inboxes /\ s \in SeqSet(pend[home[s]])
    /\ \A t \in Subs : \A s \in SeqSet(pend[t]) : sub[s] = "pending" /\ home[s] = t
    /\ \A s \in Subs : sub[s] = "held" => home[s] \in inboxes /\ s \in held[home[s]]
    /\ \A t \in Subs : \A s \in held[t] : sub[s] = "held" /\ home[s] = t
    /\ \A t \in inboxes : t \in Afloat
    /\ \A t \in inboxes : Unstarted(t) => \E s \in Subs : held[t] = {s}

Outs == {s \in Subs : sub[s] \in {"pending", "held"}}
CapInv == IsFiniteSet(Outs) /\ Cardinality(Outs) <= MaxOutstanding

\* A backend that reported completion left an inbox that is empty and closed.
DoneInv ==
    /\ \A s \in Subs : sub[s] # "lost"
    /\ done => bpc \in {"close", "retire", "idle"}
    /\ done /\ bpc # "idle" => cur \notin openIn /\ Empty(cur)

\* A constraint waits with the operation or was passed under the turn's policy.
ConsInv ==
    /\ \A t \in Subs : cons[t] # {} => t \in ops
    /\ \A t \in Subs : \A s \in cons[t] : home[s] = t
    /\ \A s \in Constrained : sub[s] \in {"pending", "held"} =>
          \/ s \in cons[home[s]]
          \/ passed[s] = pol[home[s]] /\ pol[home[s]] # 0
    /\ \A s \in Subs \cap SeqSet(hist) :
          /\ home[s] \in Subs \ ops /\ pol[home[s]] # 0
          /\ s \in Constrained => passed[s] = pol[home[s]]
    /\ \A s \in Subs : sub[s] = "checking" =>
          chk[s].turn \in Subs /\ chk[s].policy # 0 /\ pol[chk[s].turn] = chk[s].policy

\* Compactions taken inside a turn have no place among the operations any more;
\* the rest of the history has.
Insiders == {x \in Compactions : inside[x] # NoTurn}
Plain == SeqSet(hist) \ Insiders

OpOf(x) == IF x \in Subs THEN home[x] ELSE x
Control(x) == x \notin Subs /\ x # NoTurn /\ x \in Afloat
Coming(x) ==
    \/ Control(x)
    \/ x \in Subs /\ sub[x] = "pending"
    \/ x \in Subs /\ sub[x] = "held" /\ Unstarted(home[x])
Placed(x) ==
    \/ x \in Plain
    \/ Control(x)
    \/ x \in Subs /\ sub[x] \in {"pending", "held"}
    \/ x \in Configs /\ confs[x] # 0
Before(x, y) == acc[x] < acc[y] \/ TakenInside(x, y)
Rising(f, s) == \A i, j \in DOMAIN s : i < j => f[s[i]] < f[s[j]]

\* What belongs to an earlier operation was accepted earlier, what took effect
\* earlier than what is to come, and an inbox is in the order of acceptance.  Only
\* a compaction taken inside a turn may have come before that turn's inbox.
OrderInv ==
    /\ \A x \in Items : acc[x] <= accepted
    /\ \A x \in Items : Placed(x) => acc[x] # 0 /\ OpOf(x) \in Items /\ opid[OpOf(x)] # 0
    /\ \A x, y \in Items :
          Placed(x) /\ Placed(y) /\ opid[OpOf(x)] < opid[OpOf(y)] => acc[x] < acc[y]
    /\ \A x, y \in Items : x \in Plain /\ Coming(y) => acc[x] < acc[y]
    /\ \A x \in Plain : \A i \in ops \cup queue : opid[OpOf(x)] < opid[i]
    /\ \A x \in Plain : cur # NoTurn => opid[OpOf(x)] <= opid[cur]
    /\ \A x \in Insiders : opid[x] # 0 /\ x \notin Afloat
    /\ \A x \in Insiders, y \in Items : Coming(y) => Before(x, y)
HistInv == \A i, j \in DOMAIN hist : i < j => Before(hist[i], hist[j])
RiseInv ==
    /\ HistInv
    /\ \A t \in Subs : Rising(acc, pend[t])
    /\ \A t \in Subs : \A s \in held[t], p \in SeqSet(pend[t]) : Unstarted(t) => acc[s] < acc[p]

InboxInv ==
    Types /\ IdInv /\ PolInv /\ PlaceInv /\ CapInv /\ DoneInv /\ ConsInv /\ OrderInv /\ RiseInv

-----------------------------------------------------------------------------
(* Sequences.                                                              *)

LEMMA SeqSetOf ==
    ASSUME NEW S, NEW s \in Seq(S)
    PROVE  /\ SeqSet(s) \subseteq S
           /\ \A i \in DOMAIN s : s[i] \in SeqSet(s)
           /\ \A x \in SeqSet(s) : \E i \in DOMAIN s : s[i] = x
           /\ DOMAIN s = 1..Len(s)
  BY DEF SeqSet

LEMMA EmptySeqDoes ==
    /\ SeqSet(<<>>) = {}
    /\ \A f : Rising(f, <<>>)
  BY DEF SeqSet, Rising

LEMMA NonemptySeq ==
    ASSUME NEW S, NEW s \in Seq(S)
    PROVE  s = <<>> <=> SeqSet(s) = {}
  <1>1. s = <<>> => SeqSet(s) = {}
    BY DEF SeqSet
  <1>2. s # <<>> => 1 \in DOMAIN s
    OBVIOUS
  <1>3. QED
    BY <1>1, <1>2 DEF SeqSet

LEMMA AppendDoes ==
    ASSUME NEW S, NEW s \in Seq(S), NEW x \in S, NEW f
    PROVE  /\ Append(s, x) \in Seq(S)
           /\ SeqSet(Append(s, x)) = SeqSet(s) \cup {x}
           /\ Rising(f, s) /\ (\A y \in SeqSet(s) : f[y] < f[x]) => Rising(f, Append(s, x))
  <1> DEFINE a == Append(s, x)
  <1>1. /\ a \in Seq(S)
        /\ Len(a) = Len(s) + 1 /\ DOMAIN a = 1..Len(s) + 1 /\ DOMAIN s = 1..Len(s) /\ Len(s) \in Nat
        /\ \A i \in DOMAIN s : a[i] = s[i]
        /\ a[Len(s) + 1] = x
    OBVIOUS
  <1> HIDE DEF a
  <1>2. SeqSet(a) = SeqSet(s) \cup {x}
    BY <1>1 DEF SeqSet
  <1>3. ASSUME Rising(f, s), \A y \in SeqSet(s) : f[y] < f[x] PROVE Rising(f, a)
    <2> SUFFICES ASSUME NEW i \in DOMAIN a, NEW j \in DOMAIN a, i < j PROVE f[a[i]] < f[a[j]]
      BY DEF Rising
    <2>1. i \in DOMAIN s /\ a[i] = s[i]
      BY <1>1
    <2>2. CASE j \in DOMAIN s
      BY <1>1, <1>3, <2>1, <2>2 DEF Rising
    <2>3. CASE j = Len(s) + 1
      BY <1>1, <1>3, <2>1, <2>3 DEF SeqSet
    <2>4. QED
      BY <1>1, <2>2, <2>3
  <1>4. QED
    BY <1>1, <1>2, <1>3 DEF a

LEMMA TailDoes ==
    ASSUME NEW S, NEW s \in Seq(S), NEW f, s # <<>>
    PROVE  /\ Tail(s) \in Seq(S) /\ Head(s) \in S
           /\ SeqSet(s) = SeqSet(Tail(s)) \cup {Head(s)}
           /\ Rising(f, s) => Rising(f, Tail(s))
           /\ Rising(f, s) => \A y \in SeqSet(Tail(s)) : f[Head(s)] < f[y]
  <1> DEFINE a == Tail(s)
             h == Head(s)
  <1>1. /\ a \in Seq(S) /\ h \in S
        /\ Len(s) \in Nat /\ Len(s) > 0
        /\ DOMAIN a = 1..Len(s) - 1 /\ DOMAIN s = 1..Len(s)
        /\ \A i \in DOMAIN a : a[i] = s[i + 1]
        /\ h = s[1]
    OBVIOUS
  <1> HIDE DEF a, h
  <1>2. \A i \in DOMAIN a : i \in Nat /\ i + 1 \in DOMAIN s /\ 1 < i + 1
    BY <1>1
  <1>3. SeqSet(s) = SeqSet(a) \cup {h}
    <2>1. ASSUME NEW x \in SeqSet(s) PROVE x \in SeqSet(a) \cup {h}
      <3>1. PICK i \in DOMAIN s : s[i] = x
        BY DEF SeqSet
      <3>2. CASE i = 1
        BY <1>1, <3>1, <3>2
      <3>3. CASE i # 1
        <4>1. i - 1 \in DOMAIN a /\ a[i - 1] = s[i]
          BY <1>1, <3>3
        <4>2. QED
          BY <3>1, <4>1 DEF SeqSet
      <3>4. QED
        BY <3>2, <3>3
    <2>2. ASSUME NEW x \in SeqSet(a) PROVE x \in SeqSet(s)
      BY <1>1, <1>2 DEF SeqSet
    <2>3. h \in SeqSet(s)
      BY <1>1 DEF SeqSet
    <2>4. QED
      BY <2>1, <2>2, <2>3
  <1>4. Rising(f, s) => Rising(f, a)
    <2> SUFFICES ASSUME Rising(f, s), NEW i \in DOMAIN a, NEW j \in DOMAIN a, i < j
                 PROVE  f[a[i]] < f[a[j]]
      BY DEF Rising
    <2>1. i + 1 < j + 1 /\ a[i] = s[i + 1] /\ a[j] = s[j + 1]
      BY <1>1, <1>2
    <2>2. QED
      BY <1>2, <2>1 DEF Rising
  <1>5. Rising(f, s) => \A y \in SeqSet(a) : f[h] < f[y]
    <2> SUFFICES ASSUME Rising(f, s), NEW i \in DOMAIN a PROVE f[h] < f[a[i]]
      BY DEF SeqSet
    <2>1. 1 \in DOMAIN s
      BY <1>1
    <2>2. QED
      BY <1>1, <1>2, <2>1 DEF Rising
  <1>6. QED
    BY <1>1, <1>3, <1>4, <1>5 DEF a, h

LEMMA ConcatDoes ==
    ASSUME NEW S, NEW s \in Seq(S), NEW r \in Seq(S), NEW f
    PROVE  /\ s \o r \in Seq(S)
           /\ SeqSet(s \o r) = SeqSet(s) \cup SeqSet(r)
           /\ Rising(f, s) /\ Rising(f, r) /\ (\A x \in SeqSet(s), y \in SeqSet(r) : f[x] < f[y])
                 => Rising(f, s \o r)
  <1> DEFINE c == s \o r
  <1>1. /\ c \in Seq(S)
        /\ Len(s) \in Nat /\ Len(r) \in Nat
        /\ DOMAIN c = 1..Len(s) + Len(r) /\ DOMAIN s = 1..Len(s) /\ DOMAIN r = 1..Len(r)
        /\ \A i \in DOMAIN c : c[i] = IF i <= Len(s) THEN s[i] ELSE r[i - Len(s)]
    OBVIOUS
  <1> HIDE DEF c
  <1>2. \A i \in DOMAIN s : i \in DOMAIN c /\ c[i] = s[i]
    BY <1>1
  <1>3. \A i \in DOMAIN r : i + Len(s) \in DOMAIN c /\ c[i + Len(s)] = r[i]
    BY <1>1
  <1>4. \A i \in DOMAIN c : \/ i \in DOMAIN s /\ c[i] = s[i]
                            \/ i > Len(s) /\ i - Len(s) \in DOMAIN r /\ c[i] = r[i - Len(s)]
    BY <1>1
  <1>5. SeqSet(c) = SeqSet(s) \cup SeqSet(r)
    BY <1>2, <1>3, <1>4 DEF SeqSet
  <1>6. ASSUME Rising(f, s), Rising(f, r), \A x \in SeqSet(s), y \in SeqSet(r) : f[x] < f[y],
               NEW i \in DOMAIN c, NEW j \in DOMAIN c, i < j
        PROVE  f[c[i]] < f[c[j]]
    <2>1. CASE i \in DOMAIN s /\ j \in DOMAIN s
      BY <1>2, <1>6, <2>1 DEF Rising
    <2>2. CASE i \in DOMAIN s /\ j > Len(s)
      <3>1. j - Len(s) \in DOMAIN r /\ c[j] = r[j - Len(s)] /\ c[i] = s[i]
        BY <1>1, <1>2, <1>4, <2>2
      <3>2. QED
        BY <1>6, <2>2, <3>1 DEF SeqSet
    <2>3. CASE i > Len(s) /\ j > Len(s)
      <3>1. /\ i - Len(s) \in DOMAIN r /\ j - Len(s) \in DOMAIN r
            /\ c[i] = r[i - Len(s)] /\ c[j] = r[j - Len(s)] /\ i - Len(s) < j - Len(s)
        BY <1>1, <1>4, <1>6, <2>3
      <3>2. QED
        BY <1>6, <3>1 DEF Rising
    <2>4. QED
      BY <1>1, <1>6, <2>1, <2>2, <2>3
  <1>7. QED
    BY <1>1, <1>5, <1>6 DEF c, Rising

LEMMA WithoutDoes ==
    ASSUME NEW S, NEW s \in Seq(S), NEW f \in [S -> Nat], NEW x \in SeqSet(s), Rising(f, s)
    PROVE  /\ Without(s, x) \in Seq(S)
           /\ SeqSet(Without(s, x)) = SeqSet(s) \ {x}
           /\ Rising(f, Without(s, x))
  <1> DEFINE k == CHOOSE i \in DOMAIN s : s[i] = x
             n == Len(s)
             w == [i \in 1..n - 1 |-> IF i < k THEN s[i] ELSE s[i + 1]]
  <1>0. w = Without(s, x)
    BY DEF Without
  <1>1. k \in DOMAIN s /\ s[k] = x
    BY DEF SeqSet
  <1>2. n \in Nat /\ DOMAIN s = 1..n /\ k \in 1..n /\ \A i \in 1..n : s[i] \in S
    BY <1>1
  <1> HIDE DEF k, n
  <1>3. DOMAIN w = 1..n - 1 /\ \A i \in 1..n - 1 : w[i] = IF i < k THEN s[i] ELSE s[i + 1]
    OBVIOUS
  <1>a. w \in [1..n - 1 -> S]
    BY <1>2
  <1> HIDE DEF w
  <1>4. w \in Seq(S)
    <2> DEFINE m == n - 1
    <2>1. m \in Nat /\ w \in [1..m -> S]
      BY <1>2, <1>a
    <2> HIDE DEF m
    <2>2. QED
      BY <2>1
  <1>5. \A i \in DOMAIN s : s[i] = x => i = k
    <2> SUFFICES ASSUME NEW i \in DOMAIN s, s[i] = x PROVE i = k
      OBVIOUS
    <2>1. f[x] \in Nat /\ x \in S
      BY <1>1, <1>2
    <2>2. ~(i < k) /\ ~(k < i)
      BY <1>1, <2>1 DEF Rising
    <2>3. QED
      BY <1>2, <2>2
  <1>6. \A i \in DOMAIN w : \E j \in DOMAIN s : j # k /\ w[i] = s[j] /\ j = IF i < k THEN i ELSE i + 1
    BY <1>2, <1>3
  <1>7. \A j \in DOMAIN s : j # k => \E i \in DOMAIN w : w[i] = s[j]
    <2> SUFFICES ASSUME NEW j \in DOMAIN s, j # k PROVE \E i \in DOMAIN w : w[i] = s[j]
      OBVIOUS
    <2>1. CASE j < k
      <3>1. j \in DOMAIN w /\ w[j] = s[j]
        BY <1>2, <1>3, <2>1
      <3>2. QED
        BY <3>1
    <2>2. CASE j > k
      <3>1. j - 1 \in DOMAIN w /\ w[j - 1] = s[j]
        BY <1>2, <1>3, <2>2
      <3>2. QED
        BY <3>1
    <2>3. QED
      BY <1>2, <2>1, <2>2
  <1>8. SeqSet(w) = SeqSet(s) \ {x}
    <2>1. \A y \in SeqSet(w) : y \in SeqSet(s) /\ y # x
      BY <1>5, <1>6 DEF SeqSet
    <2>2. \A y \in SeqSet(s) : y # x => y \in SeqSet(w)
      BY <1>1, <1>7 DEF SeqSet
    <2>3. QED
      BY <2>1, <2>2
  <1>9. Rising(f, w)
    <2> SUFFICES ASSUME NEW i \in DOMAIN w, NEW j \in DOMAIN w, i < j PROVE f[w[i]] < f[w[j]]
      BY DEF Rising
    <2>1. PICK a \in DOMAIN s : w[i] = s[a] /\ a = IF i < k THEN i ELSE i + 1
      BY <1>6
    <2>2. PICK b \in DOMAIN s : w[j] = s[b] /\ b = IF j < k THEN j ELSE j + 1
      BY <1>6
    <2>3. a < b
      BY <1>2, <1>3, <2>1, <2>2
    <2>4. QED
      BY <2>1, <2>2, <2>3 DEF Rising
  <1>10. QED
    BY <1>0, <1>4, <1>8, <1>9

\* Rising looks only at the members.
LEMMA RisingSame ==
    ASSUME NEW s, NEW f, NEW g, Rising(f, s), \A x \in SeqSet(s) : f[x] = g[x]
    PROVE  Rising(g, s)
  BY DEF Rising, SeqSet

-----------------------------------------------------------------------------
(* drive_operations.                                                       *)

LEMMA DriveDoes ==
    ASSUME NEW o, NEW q, NEW id, NEW g, NEW k, Drive(o, q, id, g, k)
    PROVE  /\ ops' \subseteq o /\ q \subseteq queue' /\ queue' \subseteq o \cup q
           /\ \A i \in o : i \in ops' \/ i \in queue'
           /\ \A i \in ops' : \E w \in o : Waits(w, k) /\ ~(id[i] < id[w])
           /\ \A i \in queue' : i \in q \/ (i \in o /\ \A w \in o : Waits(w, k) => id[i] < id[w])
           /\ \A i \in o : (\A w \in o : Waits(w, k) => id[i] < id[w]) => i \in queue'
           /\ pol' = [t \in Subs \cup Compactions |->
                         IF t \in o /\ \A w \in o : Waits(w, k) => id[t] <= id[w]
                         THEN g ELSE pol[t]]
  BY DEF Drive

\* What waits stays until it is prepared or committed.
LEMMA DriveHolds ==
    ASSUME NEW o, NEW q, NEW id, NEW g, NEW k, Drive(o, q, id, g, k),
           NEW i, Waits(i, k), i \in o, i \notin q, id[i] \in Nat
    PROVE  i \in ops' /\ i \notin queue'
  <1>1. Waits(i, k)
    OBVIOUS
  <1>2. ~(id[i] < id[i])
    OBVIOUS
  <1>3. \A j \in queue' : j \in q \/ (j \in o /\ \A w \in o : Waits(w, k) => id[j] < id[w])
    BY DriveDoes
  <1>4. i \notin queue'
    BY <1>1, <1>2, <1>3
  <1>5. QED
    BY <1>4, DriveDoes

LEMMA DriveTypes ==
    ASSUME Types, NEW o, NEW q, NEW id, NEW g, NEW k, Drive(o, q, id, g, k),
           o \subseteq Items, q \subseteq Items, g \in Nat
    PROVE  ops' \subseteq Items /\ queue' \subseteq Items /\ pol' \in [Subs \cup Compactions -> Nat]
  <1>1. ops' \subseteq Items /\ queue' \subseteq Items
    BY DriveDoes
  <1>2. pol' = [t \in Subs \cup Compactions |->
                   IF t \in o /\ \A w \in o : Waits(w, k) => id[t] <= id[w]
                   THEN g ELSE pol[t]]
    BY DEF Drive
  <1>3. QED
    BY <1>1, <1>2 DEF Types

LEMMA DriveOrders ==
    ASSUME NEW o, NEW q, NEW id \in [Items -> Nat], NEW g, NEW k, NEW c,
           Drive(o, q, id, g, k), o \subseteq Items, q \subseteq Items, Ordered(o, q, id, c)
    PROVE  Ordered(ops', queue', id, c)
  <1>1. /\ ops' \subseteq o /\ q \subseteq queue' /\ queue' \subseteq o \cup q
        /\ \A i \in ops' : \E w \in o : Waits(w, k) /\ ~(id[i] < id[w])
        /\ \A i \in queue' : i \in q \/ (i \in o /\ \A w \in o : Waits(w, k) => id[i] < id[w])
    BY DriveDoes
  <1>2. ASSUME NEW i \in queue', NEW j \in ops' PROVE id[i] < id[j]
    <2>1. PICK w \in o : Waits(w, k) /\ ~(id[j] < id[w])
      BY <1>1
    <2>2. id[i] \in Nat /\ id[j] \in Nat /\ id[w] \in Nat
      BY <1>1
    <2>3. CASE i \in q
      BY <1>1, <2>3 DEF Ordered
    <2>4. CASE i \in o /\ id[i] < id[w]
      BY <2>1, <2>2, <2>4
    <2>5. QED
      BY <1>1, <2>1, <2>3, <2>4
  <1>3. ASSUME NEW x \in Configs PROVE x \notin queue' /\ x # c
    <2>1. x \in Items /\ Waits(x, k) /\ id[x] \in Nat
      BY DEF Items, Waits
    <2>2. QED
      BY <1>1, <2>1 DEF Ordered
  <1>4. /\ \A i \in ops' \cup queue' : id[i] # 0 /\ i # c
        /\ c # NoTurn => id[c] # 0 /\ \A j \in ops' \cup queue' : id[c] < id[j]
    BY <1>1 DEF Ordered
  <1>5. QED
    BY <1>2, <1>3, <1>4 DEF Ordered

\* The turn that reaches the front gets the policy; one that has a policy keeps it.
LEMMA DrivePolicies ==
    ASSUME Types, NEW o, NEW q, NEW id \in [Items -> Nat], NEW g \in Nat, NEW c,
           NEW k, NEW cf \in [Configs -> Nat],
           Drive(o, q, id, g, k), o \subseteq Items, q \subseteq Items, g # 0,
           Ordered(o, q, id, c),
           \A i, j \in Items : id[i] = id[j] /\ id[i] # 0 => i = j,
           PolOver(o, q, id, g, cf, c),
           opid' = id, gen' = g, confs' = cf, cur' = c
    PROVE  /\ PolInv'
           /\ \A t \in Subs : pol[t] # 0 => pol'[t] = pol[t]
  <1>1. /\ ops' \subseteq o /\ q \subseteq queue' /\ queue' \subseteq o \cup q
        /\ \A i \in ops' : \E w \in o : Waits(w, k) /\ ~(id[i] < id[w])
        /\ \A i \in o : i \in ops' \/ i \in queue'
        /\ \A i \in queue' : i \in q \/ (i \in o /\ \A w \in o : Waits(w, k) => id[i] < id[w])
    BY DriveDoes
  <1>2. \A t \in Subs : pol'[t] = IF t \in o /\ \A w \in o : Waits(w, k) => id[t] <= id[w]
                                  THEN g ELSE pol[t]
    BY DriveDoes
  <1>3. \A t \in Subs : t \in Items /\ id[t] \in Nat /\ pol[t] \in Nat
    BY DEF Items, Types
  <1>4. \A x \in Configs : x \in Items /\ Waits(x, k) /\ id[x] \in Nat /\ cf[x] \in Nat
    BY DEF Items, Waits
  <1>5. \A t \in Subs : pol[t] # 0 => pol'[t] = pol[t]
    BY <1>2 DEF PolOver
  <1>6. \A t \in Subs : pol'[t] # pol[t] => pol'[t] = g /\ t \in o /\ \A w \in o : Waits(w, k) => id[t] <= id[w]
    BY <1>2
  <1>7. ASSUME NEW t \in Subs, pol'[t] # 0 PROVE id[t] # 0 /\ pol'[t] <= g
    BY <1>6, <1>7 DEF PolOver, Ordered
  <1>8. ASSUME NEW t \in Subs, t \in queue' \/ t = c PROVE pol'[t] # 0
    <2>1. CASE t \in q \/ t = c
      BY <1>5, <2>1 DEF PolOver
    <2>2. CASE t \in o /\ \A w \in o : Waits(w, k) => id[t] < id[w]
      <3>1. \A w \in o : id[w] \in Nat
        OBVIOUS
      <3>2. \A w \in o : Waits(w, k) => id[t] <= id[w]
        BY <1>3, <2>2, <3>1
      <3>3. QED
        BY <1>2, <2>2, <3>2
    <2>3. QED
      BY <1>1, <1>8, <2>1, <2>2
  <1>9. ASSUME NEW t \in Subs \cap ops', pol'[t] # 0 PROVE pol'[t] = g
    BY <1>1, <1>6, <1>9 DEF PolOver
  <1>10. ASSUME NEW t \in Subs, NEW i \in ops', pol'[t] # 0, i # t PROVE id[t] < id[i]
    <2>1. CASE pol[t] # 0
      BY <1>1, <1>10, <2>1 DEF PolOver
    <2>2. CASE pol[t] = 0
      <3>1. t \in o /\ \A w \in o : Waits(w, k) => id[t] <= id[w]
        BY <1>6, <1>10, <2>2
      <3>2. PICK w \in o : Waits(w, k) /\ ~(id[i] < id[w])
        BY <1>1
      <3>3. id[t] \in Nat /\ id[i] \in Nat /\ id[w] \in Nat /\ i \in o /\ id[t] # 0
        BY <1>1, <3>1 DEF Ordered
      <3>4. id[t] <= id[i] /\ id[t] # id[i]
        BY <1>1, <1>10, <3>1, <3>2, <3>3
      <3>5. QED
        BY <3>3, <3>4
    <2>3. QED
      BY <2>1, <2>2
  <1>11. ASSUME NEW x \in Configs, cf[x] # 0 PROVE x \notin ops' /\ \A i \in ops' : id[x] < id[i]
    BY <1>1, <1>11 DEF PolOver
  <1>12. ASSUME NEW x \in Configs, NEW t \in Subs, cf[x] # 0, pol'[t] # 0
         PROVE  cf[x] <= pol'[t] <=> id[x] < id[t]
    <2>1. CASE pol[t] # 0
      BY <1>5, <1>12, <2>1 DEF PolOver
    <2>2. CASE pol[t] = 0
      <3>1. t \in o /\ pol'[t] = g
        BY <1>6, <1>12, <2>2
      <3>2. QED
        BY <1>12, <3>1 DEF PolOver
    <2>3. QED
      BY <2>1, <2>2
  <1>13. ASSUME NEW t \in Subs, t \in ops', \A j \in ops' : id[t] <= id[j] PROVE pol'[t] = g
    <2>1. \A w \in o : Waits(w, k) => w \in ops'
      <3> SUFFICES ASSUME NEW w \in o, Waits(w, k), w \notin ops' PROVE FALSE
        OBVIOUS
      <3>1. w \in queue' /\ id[w] \in Nat
        BY <1>1
      <3>2. CASE w \in q
        <4>1. id[w] < id[w]
          BY <3>2 DEF Ordered
        <4>2. QED
          BY <3>1, <4>1
      <3>3. CASE \A v \in o : Waits(v, k) => id[w] < id[v]
        BY <3>1, <3>3
      <3>4. QED
        BY <1>1, <3>1, <3>2, <3>3
    <2>2. QED
      BY <1>1, <1>2, <1>13, <2>1
  <1>14. PolOver(ops, queue, opid, gen, confs, cur)'
    BY <1>7, <1>8, <1>9, <1>10, <1>11, <1>12 DEF PolOver
  <1>15. QED
    BY <1>5, <1>13, <1>14 DEF PolInv, First

-----------------------------------------------------------------------------
(* What keeps each part of the invariant.                                  *)

Outside == {"new", "checking", "refused"}

LEMMA IdStep ==
    ASSUME Types, IdInv, UNCHANGED <<opid, nextOp>>,
           Ordered(ops', queue', opid, cur'),
           bpc' = "idle" <=> cur' = NoTurn,
           cur' \notin Subs => bpc' \in {"idle", "popped"},
           \A s \in Subs : sub'[s] \in Outside => sub[s] \in Outside
    PROVE  IdInv'
  BY DEF IdInv, Outside

LEMMA OrderedLess ==
    ASSUME NEW o, NEW q, NEW id, NEW c, Ordered(o, q, id, c),
           NEW p \in SUBSET o, NEW r \in SUBSET q
    PROVE  Ordered(p, r, id, c)
  BY DEF Ordered

LEMMA PolKept ==
    ASSUME Types, PolInv, UNCHANGED <<pol, opid, gen, confs>>,
           ops' = ops \/ ops' = {},
           \A t \in Subs : t \in queue' \/ t = cur' => t \in queue \/ t = cur
    PROVE  PolInv'
  <1>1. CASE ops' = ops
    BY <1>1 DEF PolInv, PolOver, First
  <1>2. CASE ops' = {}
    BY <1>2 DEF PolInv, PolOver, First
  <1>3. QED
    BY <1>1, <1>2

LEMMA PlaceKept ==
    ASSUME Types, PlaceInv, UNCHANGED <<sub, home, inboxes, pend, held>>,
           \A i \in Items : opid[i] # 0 => opid'[i] # 0,
           \A t \in inboxes : t \in Afloat',
           \A t \in inboxes : Unstarted(t)' => Unstarted(t)
    PROVE  PlaceInv'
  <1>1. \A s \in Subs : home[s] # NoTurn => home[s] \in Items
    BY DEF Types, Items
  <1>2. QED
    BY <1>1 DEF PlaceInv

LEMMA CapShrinks ==
    ASSUME CapInv, \A s \in Subs : sub'[s] \in {"pending", "held"} => sub[s] \in {"pending", "held"},
           InboxAssumption
    PROVE  CapInv'
  <1>1. Outs' \subseteq Outs
    BY DEF Outs
  <1>2. IsFiniteSet(Outs') /\ Cardinality(Outs') <= Cardinality(Outs)
    BY <1>1, FS_Subset DEF CapInv
  <1>3. Cardinality(Outs') \in Nat /\ Cardinality(Outs) \in Nat
    BY <1>2, FS_CardinalityType DEF CapInv
  <1>4. QED
    BY <1>2, <1>3 DEF CapInv, InboxAssumption

LEMMA CapGrows ==
    ASSUME CapInv, HasRoom, NEW s \in Subs,
           \A x \in Subs : x # s => sub'[x] = sub[x], InboxAssumption
    PROVE  CapInv'
  <1>1. Outs' \subseteq Outs \cup {s}
    BY DEF Outs
  <1>2. IsFiniteSet(Outs \cup {s}) /\ Cardinality(Outs \cup {s}) <= Cardinality(Outs) + 1
    <2>1. IsFiniteSet(Outs) /\ Cardinality(Outs) \in Nat
      BY FS_CardinalityType DEF CapInv
    <2>2. /\ IsFiniteSet(Outs \cup {s})
          /\ Cardinality(Outs \cup {s}) = Cardinality(Outs) \/ Cardinality(Outs \cup {s}) = Cardinality(Outs) + 1
      BY <2>1, FS_AddElement
    <2>3. QED
      BY <2>1, <2>2
  <1>3. IsFiniteSet(Outs') /\ Cardinality(Outs') <= Cardinality(Outs \cup {s})
    BY <1>1, <1>2, FS_Subset
  <1>4. Cardinality(Outs') \in Nat /\ Cardinality(Outs) \in Nat /\ Cardinality(Outs \cup {s}) \in Nat
    BY <1>2, <1>3, FS_CardinalityType DEF CapInv
  <1>5. Cardinality(Outs) < MaxOutstanding
    BY DEF HasRoom, Outstanding, Outs
  <1>6. QED
    BY <1>2, <1>3, <1>4, <1>5 DEF CapInv, InboxAssumption

LEMMA DoneKept ==
    ASSUME Types, DoneInv, UNCHANGED <<bpc, cur>>, done' => done,
           \A s \in Subs : sub'[s] # "lost" \/ sub'[s] = sub[s],
           cur \in openIn' => cur \in openIn,
           cur \in inboxes' => /\ cur \in inboxes
                               /\ pend'[cur] = pend[cur] \/ pend'[cur] = <<>> \/ cur \in openIn
                               /\ held'[cur] \subseteq held[cur]
    PROVE  DoneInv'
  BY DEF DoneInv, Empty

LEMMA ConsKept ==
    ASSUME Types, ConsInv, PlaceInv, UNCHANGED <<home, hist>>,
           \A t \in Subs : pol[t] # 0 => pol'[t] = pol[t],
           \A t \in Subs : cons'[t] \subseteq cons[t] /\ (cons'[t] # {} => t \in ops'),
           \A s \in Subs : sub'[s] \in {"pending", "held"} =>
              /\ sub[s] \in {"pending", "held"}
              /\ s \in cons[home[s]] => \/ s \in cons'[home[s]]
                                        \/ passed'[s] = pol'[home[s]] /\ pol'[home[s]] # 0,
           \A s \in Subs : passed'[s] = passed[s] \/ s \in cons[home[s]],
           \A t \in Subs : opid[t] # 0 /\ t \in ops' => t \in ops,
           \A s \in Subs : sub'[s] = "checking" => sub[s] = "checking" /\ chk'[s] = chk[s],
           InboxAssumption
    PROVE  ConsInv'
  <1>0. Constrained \subseteq Subs /\ NoTurn \notin Subs
    BY DEF InboxAssumption, Items
  <1>1. \A t \in Subs : cons'[t] # {} => t \in ops'
    OBVIOUS
  <1>2. \A t \in Subs : \A s \in cons'[t] : home'[s] = t
    BY DEF ConsInv
  <1>3. ASSUME NEW s \in Constrained, sub'[s] \in {"pending", "held"}
        PROVE  \/ s \in cons'[home'[s]]
               \/ passed'[s] = pol'[home'[s]] /\ pol'[home'[s]] # 0
    <2>1. home[s] \in Subs /\ home'[s] = home[s] /\ sub[s] \in {"pending", "held"} /\ s \in Subs
      BY <1>0, <1>3 DEF PlaceInv, Types
    <2>2. CASE s \in cons[home[s]]
      BY <1>3, <2>1, <2>2
    <2>3. CASE s \notin cons[home[s]]
      BY <1>3, <2>1, <2>3 DEF ConsInv
    <2>4. QED
      BY <2>2, <2>3
  <1>4. ASSUME NEW s \in Subs, s \in SeqSet(hist)
        PROVE  /\ home[s] \in Subs \ ops' /\ pol'[home[s]] # 0
               /\ s \in Constrained => passed'[s] = pol'[home[s]]
    <2>1. home[s] \in Subs \ ops /\ pol[home[s]] # 0 /\ (s \in Constrained => passed[s] = pol[home[s]])
      BY <1>4 DEF ConsInv
    <2>2. opid[home[s]] # 0 /\ cons[home[s]] = {}
      BY <1>0, <2>1 DEF ConsInv, PlaceInv
    <2>3. QED
      BY <2>1, <2>2
  <1>5. ASSUME NEW s \in Subs, sub'[s] = "checking"
        PROVE  chk'[s].turn \in Subs /\ chk'[s].policy # 0 /\ pol'[chk'[s].turn] = chk'[s].policy
    <2>1. sub[s] = "checking" /\ chk'[s] = chk[s]
      BY <1>5
    <2>2. chk[s].turn \in Subs /\ chk[s].policy # 0 /\ pol[chk[s].turn] = chk[s].policy
      BY <2>1 DEF ConsInv
    <2>3. QED
      BY <2>1, <2>2
  <1>6. QED
    BY <1>1, <1>2, <1>3, <1>4, <1>5 DEF ConsInv

LEMMA OrderMoves ==
    ASSUME Types, IdInv, PlaceInv, OrderInv, UNCHANGED <<acc, accepted, inside, home, opid, hist>>,
           \A x \in Configs : confs'[x] # 0 => confs[x] # 0 \/ x \in ops,
           ops' \cup queue' \subseteq ops \cup queue,
           cur' = cur \/ cur' = NoTurn \/ cur' \in queue,
           \A s \in Subs : sub'[s] = "pending" => sub[s] = "pending",
           \A s \in Subs : sub'[s] = "held" =>
              \/ sub[s] = "pending"
              \/ sub[s] = "held" /\ (Unstarted(home[s])' => Unstarted(home[s]))
    PROVE  OrderInv'
  <1>1. \A x : Control(x)' => Control(x)
    BY DEF Control, Afloat
  <1>2. ASSUME NEW x \in Items, Placed(x)' PROVE Placed(x)
    <2>1. x \in Configs /\ x \in ops => Control(x)
      BY InboxAssumption DEF Control, Afloat
    <2>2. Plain' = Plain
      BY DEF Plain, Insiders
    <2>3. QED
      BY <1>1, <1>2, <2>1, <2>2 DEF Placed
  <1>3. \A x \in Items : Coming(x)' => Coming(x)
    BY <1>1 DEF Coming
  <1>4. \A x : OpOf(x)' = OpOf(x)
    BY DEF OpOf
  <1>5. \A x \in Plain : x \in Items
    BY SeqSetOf DEF Types, Plain
  <1>6. \A x \in Plain : OpOf(x) \in Items
    BY <1>5 DEF OrderInv, Placed
  <1>7. \A x \in Plain : cur' # NoTurn => opid[OpOf(x)] <= opid[cur']
    <2> SUFFICES ASSUME NEW x \in Plain, cur' # NoTurn PROVE opid[OpOf(x)] <= opid[cur']
      OBVIOUS
    <2>1. CASE cur' \in queue
      <3>1. opid[OpOf(x)] < opid[cur']
        BY <2>1 DEF OrderInv
      <3>2. opid[OpOf(x)] \in Nat /\ opid[cur'] \in Nat
        BY <1>6, <2>1 DEF Types
      <3>3. QED
        BY <3>1, <3>2
    <2>2. CASE cur' = cur
      BY <2>2 DEF OrderInv
    <2>3. QED
      BY <2>1, <2>2
  <1>8. Insiders' = Insiders /\ Plain' = Plain /\ \A x, y : Before(x, y)' <=> Before(x, y)
    BY DEF Insiders, Plain, Before, TakenInside
  <1>9. \A x \in Insiders : opid'[x] # 0 /\ x \notin Afloat'
    <2>1. \A x \in Insiders : x # NoTurn /\ opid[x] # 0 /\ x \notin Afloat
      BY InboxAssumption DEF OrderInv, Insiders
    <2>2. QED
      BY <2>1 DEF Afloat
  <1>10. /\ \A x \in Items : acc'[x] <= accepted'
         /\ \A x \in Items : Placed(x)' => acc'[x] # 0 /\ OpOf(x)' \in Items /\ opid'[OpOf(x)'] # 0
         /\ \A x, y \in Items :
               Placed(x)' /\ Placed(y)' /\ opid'[OpOf(x)'] < opid'[OpOf(y)'] => acc'[x] < acc'[y]
    BY <1>2, <1>4 DEF OrderInv
  <1>11. /\ \A x, y \in Items : x \in Plain' /\ Coming(y)' => acc'[x] < acc'[y]
         /\ \A x \in Plain' : \A i \in ops' \cup queue' : opid'[OpOf(x)'] < opid'[i]
    BY <1>3, <1>4, <1>8 DEF OrderInv
  <1>12. /\ \A x \in Plain' : cur' # NoTurn => opid'[OpOf(x)'] <= opid'[cur']
         /\ \A x \in Insiders', y \in Items : Coming(y)' => Before(x, y)'
    BY <1>3, <1>4, <1>7, <1>8 DEF OrderInv
  <1>13. QED
    BY <1>8, <1>9, <1>10, <1>11, <1>12 DEF OrderInv

\* The history stays in order when what was before stays before.
LEMMA HistKept ==
    ASSUME HistInv, UNCHANGED hist,
           \A x, y \in SeqSet(hist) : Before(x, y) => Before(x, y)'
    PROVE  HistInv'
  BY DEF HistInv, SeqSet

LEMMA HistStays ==
    ASSUME HistInv, UNCHANGED <<acc, hist, inside, home>> PROVE HistInv'
  BY DEF HistInv, Before, TakenInside

LEMMA HistAppends ==
    ASSUME Types, HistInv, NEW z \in Items, hist' = Append(hist, z),
           \A x, y \in SeqSet(hist) : Before(x, y) => Before(x, y)',
           \A x \in SeqSet(hist) : Before(x, z)'
    PROVE  HistInv'
  <1>1. /\ DOMAIN hist' = 1..Len(hist) + 1 /\ DOMAIN hist = 1..Len(hist) /\ Len(hist) \in Nat
        /\ \A i \in DOMAIN hist : hist'[i] = hist[i]
        /\ hist'[Len(hist) + 1] = z
    BY DEF Types
  <1> SUFFICES ASSUME NEW i \in DOMAIN hist', NEW j \in DOMAIN hist', i < j
               PROVE  Before(hist[i], hist[j])'
    BY DEF HistInv
  <1>2. i \in DOMAIN hist /\ hist'[i] = hist[i] /\ hist[i] \in SeqSet(hist)
    BY <1>1 DEF SeqSet
  <1>3. CASE j \in DOMAIN hist
    <2>1. hist'[j] = hist[j] /\ hist[j] \in SeqSet(hist) /\ Before(hist[i], hist[j])
      BY <1>1, <1>2, <1>3 DEF SeqSet, HistInv
    <2>2. QED
      BY <1>2, <2>1 DEF Before, TakenInside
  <1>4. CASE j = Len(hist) + 1
    BY <1>1, <1>2, <1>4 DEF Before, TakenInside
  <1>5. QED
    BY <1>1, <1>3, <1>4

LEMMA HistConcat ==
    ASSUME Types, HistInv, NEW r \in Seq(Items), hist' = hist \o r, Rising(acc', r),
           \A x, y \in SeqSet(hist) : Before(x, y) => Before(x, y)',
           \A x \in SeqSet(hist), y \in SeqSet(r) : Before(x, y)'
    PROVE  HistInv'
  <1>1. /\ Len(hist) \in Nat /\ Len(r) \in Nat
        /\ DOMAIN hist' = 1..Len(hist) + Len(r) /\ DOMAIN hist = 1..Len(hist) /\ DOMAIN r = 1..Len(r)
        /\ \A i \in DOMAIN hist' : hist'[i] = IF i <= Len(hist) THEN hist[i] ELSE r[i - Len(hist)]
    BY DEF Types
  <1>2. \A i \in DOMAIN hist' :
           \/ i \in DOMAIN hist /\ hist'[i] = hist[i] /\ hist[i] \in SeqSet(hist)
           \/ /\ i > Len(hist) /\ i - Len(hist) \in DOMAIN r /\ hist'[i] = r[i - Len(hist)]
              /\ r[i - Len(hist)] \in SeqSet(r)
    BY <1>1 DEF SeqSet
  <1> SUFFICES ASSUME NEW i \in DOMAIN hist', NEW j \in DOMAIN hist', i < j
               PROVE  Before(hist[i], hist[j])'
    BY DEF HistInv
  <1>3. CASE i \in DOMAIN hist /\ j \in DOMAIN hist
    <2>1. hist'[i] = hist[i] /\ hist'[j] = hist[j] /\ Before(hist[i], hist[j])
      BY <1>1, <1>3 DEF HistInv
    <2>2. hist[i] \in SeqSet(hist) /\ hist[j] \in SeqSet(hist)
      BY <1>3 DEF SeqSet
    <2>3. \A x, y \in SeqSet(hist) :
             Before(x, y) => acc'[x] < acc'[y] \/ (x \in Compactions /\ y \in Subs /\ inside'[x] = home'[y])
      BY DEF Before, TakenInside
    <2>4. QED
      BY ONLY <2>1, <2>2, <2>3 DEF Before, TakenInside
  <1>4. CASE i \in DOMAIN hist /\ j > Len(hist)
    <2>1. hist'[i] = hist[i] /\ hist[i] \in SeqSet(hist) /\ hist'[j] \in SeqSet(r)
      BY <1>1, <1>2, <1>4
    <2>2. QED
      BY <2>1 DEF Before, TakenInside
  <1>5. CASE i > Len(hist) /\ j > Len(hist)
    <2>1. /\ i - Len(hist) \in DOMAIN r /\ j - Len(hist) \in DOMAIN r
          /\ i - Len(hist) < j - Len(hist)
          /\ hist'[i] = r[i - Len(hist)] /\ hist'[j] = r[j - Len(hist)]
      BY <1>1, <1>5
    <2>2. acc'[hist'[i]] < acc'[hist'[j]]
      BY <2>1 DEF Rising
    <2>3. QED
      BY <2>2 DEF Before
  <1>6. QED
    BY <1>1, <1>3, <1>4, <1>5

LEMMA RiseKept ==
    ASSUME RiseInv, UNCHANGED <<acc, hist, inside, home>>,
           \A t \in Subs : \/ pend'[t] = <<>>
                           \/ /\ pend'[t] = pend[t] /\ held'[t] \subseteq held[t]
                              /\ Unstarted(t)' => Unstarted(t)
    PROVE  RiseInv'
  <1>1. \A t \in Subs : Rising(acc, pend'[t])
    BY EmptySeqDoes DEF RiseInv
  <1>2. ASSUME NEW t \in Subs, NEW s \in held'[t], NEW p \in SeqSet(pend'[t]), Unstarted(t)'
        PROVE  acc[s] < acc[p]
    BY <1>2, EmptySeqDoes DEF RiseInv
  <1>3. HistInv'
    BY HistStays DEF RiseInv
  <1>4. QED
    BY <1>1, <1>2, <1>3 DEF RiseInv

-----------------------------------------------------------------------------
(* Acceptance.                                                             *)

\* Nothing that has a place comes after operation u.
LastOp(u) == \A y \in Items : Placed(y) => opid[OpOf(y)] <= opid[u]

LEMMA LatestIsLast ==
    ASSUME InboxInv, NEW t \in Subs, opid[t] = nextOp
    PROVE  LastOp(t)
  <1>1. \A y \in Items : Placed(y) => OpOf(y) \in Items
    BY DEF InboxInv, OrderInv
  <1>2. \A i \in Items : opid[i] <= nextOp
    BY DEF InboxInv, IdInv
  <1>3. QED
    BY <1>1, <1>2 DEF LastOp

LEMMA AloneIsLast ==
    ASSUME InboxInv, NEW t \in inboxes,
           \A i \in ops : opid[i] <= opid[t], queue = {}, pol[t] = gen
    PROVE  LastOp(t)
  <1>0. Types /\ IdInv /\ PolInv /\ PlaceInv /\ OrderInv
    BY DEF InboxInv
  <1>1. /\ t \in Subs /\ t \in Items /\ opid[t] \in Nat /\ t # NoTurn
        /\ t \in ops \/ t = cur
    BY <1>0, InboxAssumption DEF Types, Items, PlaceInv, Afloat
  <1>2. \A i \in Afloat : i \in Items => opid[i] <= opid[t]
    <2>1. CASE t = cur
      BY <1>1, <2>1 DEF Afloat
    <2>2. CASE t \in ops
      <3>1. cur # NoTurn => opid[cur] < opid[t]
        BY <1>0, <2>2 DEF IdInv, Ordered
      <3>2. cur \in Items => opid[cur] <= opid[t]
        BY <1>0, <1>1, <3>1, InboxAssumption DEF Types, Items
      <3>3. QED
        BY <3>2 DEF Afloat
    <2>3. QED
      BY <1>1, <2>1, <2>2
  <1>3. ASSUME NEW y \in Items, Placed(y) PROVE opid[OpOf(y)] <= opid[t]
    <2>0. OpOf(y) \in Items /\ opid[OpOf(y)] \in Nat
      BY <1>0, <1>3 DEF OrderInv, Types
    <2>1. CASE y \in Plain
      <3>1. CASE t = cur
        BY <1>0, <1>1, <2>1, <3>1 DEF OrderInv
      <3>2. CASE t \in ops
        <4>1. opid[OpOf(y)] < opid[t]
          BY <1>0, <2>1, <3>2 DEF OrderInv
        <4>2. QED
          BY <1>1, <2>0, <4>1
      <3>3. QED
        BY <1>1, <3>1, <3>2
    <2>2. CASE Control(y)
      BY <1>2, <2>0, <2>2 DEF Control, OpOf
    <2>3. CASE y \in Subs /\ sub[y] \in {"pending", "held"}
      <3>1. home[y] \in Afloat
        BY <1>0, <2>3 DEF PlaceInv
      <3>2. QED
        BY <1>2, <2>0, <2>3, <3>1 DEF OpOf
    <2>4. CASE y \in Configs /\ confs[y] # 0
      <3>1. OpOf(y) = y
        BY <2>4, InboxAssumption DEF OpOf
      <3>2. confs[y] <= pol[t] /\ pol[t] # 0
        BY <1>0, <2>4 DEF PolInv, PolOver, Types
      <3>3. opid[y] < opid[t]
        BY <1>0, <1>1, <2>4, <3>2 DEF PolInv, PolOver
      <3>4. QED
        BY <1>1, <2>0, <3>1, <3>3
    <2>5. QED
      BY <1>3, <2>1, <2>2, <2>3, <2>4 DEF Placed
  <1>4. QED
    BY <1>3 DEF LastOp

LEMMA TargetDoes ==
    ASSUME InboxInv, NEW s \in Subs, NEW t \in Target(s)
    PROVE  t \in Subs /\ t \in inboxes /\ t \in openIn /\ LastOp(t)
  <1>1. CASE JoinsActive(s)
    <2>1. t = cur /\ t \in inboxes /\ t \in openIn
      BY <1>1 DEF Target, JoinsActive
    <2>2. LastOp(t)
      BY <1>1, <2>1, AloneIsLast DEF JoinsActive
    <2>3. QED
      BY <2>1, <2>2 DEF InboxInv, Types
  <1>2. CASE ~JoinsActive(s)
    <2>1. t \in Subs /\ JoinsLatest(s, t)
      BY <1>2 DEF Target
    <2>2. QED
      BY <2>1, LatestIsLast DEF JoinsLatest
  <1>3. QED
    BY <1>1, <1>2

\* Accepting z leaves the order of the history alone.
LEMMA HistAccepts ==
    ASSUME Types, HistInv, NEW z \in Items, z \notin SeqSet(hist), Accepts(z), UNCHANGED hist,
           \A y \in Subs : y # z => home'[y] = home[y]
    PROVE  HistInv'
  <1>1. \A x \in SeqSet(hist) : x \in Items /\ x # z /\ acc'[x] = acc[x]
    <2>1. SeqSet(hist) \subseteq Items
      BY SeqSetOf DEF Types
    <2>2. QED
      BY <2>1 DEF Types, Accepts
  <1>2. ASSUME NEW x \in SeqSet(hist), NEW y \in SeqSet(hist), Before(x, y) PROVE Before(x, y)'
    BY <1>1, <1>2 DEF Before, TakenInside, Accepts
  <1>3. QED
    BY <1>2, HistKept

\* z is accepted into operation u, behind everything that has a place.
LEMMA OrderAccepts ==
    ASSUME Types, OrderInv, NEW z \in Items, NEW u \in Items, ~Placed(z), Accepts(z),
           UNCHANGED <<hist, cur>>, opid' \in [Items -> Nat],
           OpOf(z)' = u, opid'[u] # 0,
           \A x \in Items : x # z => (Placed(x)' => Placed(x)) /\ (Coming(x)' => Coming(x)),
           \A x \in Items : Placed(x) => OpOf(x)' = OpOf(x) /\ opid'[OpOf(x)] = opid[OpOf(x)],
           \A x \in Items : Placed(x) => opid[OpOf(x)] <= opid'[u],
           \A x \in Plain : \A i \in ops' \cup queue' : opid[OpOf(x)] < opid'[i],
           cur # NoTurn => opid'[cur] = opid[cur],
           z \notin Insiders, \A x \in Insiders : opid'[x] # 0 /\ x \notin Afloat',
           \A y \in Subs : y # z => home'[y] = home[y]
    PROVE  OrderInv'
  <1>1. /\ acc' \in [Items -> Nat] /\ accepted' = accepted + 1 /\ accepted \in Nat
        /\ acc'[z] = accepted + 1 /\ \A x \in Items : x # z => acc'[x] = acc[x]
        /\ \A x \in Items : acc[x] \in Nat /\ acc[x] <= accepted
    BY DEF Types, Accepts, OrderInv
  <1>2. \A x \in Plain : x \in Items /\ Placed(x) /\ x # z
    BY SeqSetOf DEF Types, Placed, Plain
  <1>a. Insiders' = Insiders /\ Plain' = Plain /\ Insiders \subseteq Items
    BY InboxAssumption DEF Insiders, Plain, Accepts, Items
  <1>3. \A x \in Items : acc'[x] <= accepted'
    BY <1>1
  <1>4. ASSUME NEW x \in Items, Placed(x)'
        PROVE  acc'[x] # 0 /\ OpOf(x)' \in Items /\ opid'[OpOf(x)'] # 0
    <2>1. CASE x = z
      BY <1>1, <2>1
    <2>2. CASE x # z
      <3>1. Placed(x)
        BY <1>4, <2>2
      <3>2. QED
        BY <1>1, <2>2, <3>1 DEF OrderInv
    <2>3. QED
      BY <2>1, <2>2
  <1>5. ASSUME NEW x \in Items, NEW y \in Items, Placed(x)', Placed(y)',
               opid'[OpOf(x)'] < opid'[OpOf(y)']
        PROVE  acc'[x] < acc'[y]
    <2>0. opid'[u] \in Nat
      OBVIOUS
    <2>1. CASE x # z /\ y # z
      <3>1. Placed(x) /\ Placed(y)
        BY <1>5, <2>1
      <3>2. opid[OpOf(x)] < opid[OpOf(y)]
        BY <1>5, <3>1
      <3>3. QED
        BY <1>1, <2>1, <3>1, <3>2 DEF OrderInv
    <2>2. CASE x # z /\ y = z
      BY <1>1, <2>2
    <2>3. CASE x = z
      <3>1. y # z
        BY <1>5, <2>0, <2>3
      <3>2. Placed(y)
        BY <1>5, <3>1
      <3>3. opid'[OpOf(y)'] <= opid'[u] /\ opid'[OpOf(y)'] \in Nat
        BY <1>4, <1>5, <3>2
      <3>4. QED
        BY <1>5, <2>0, <2>3, <3>3
    <2>4. QED
      BY <2>1, <2>2, <2>3
  <1>6. ASSUME NEW x \in Items, NEW y \in Items, x \in Plain, Coming(y)'
        PROVE  acc'[x] < acc'[y]
    <2>1. CASE y = z
      BY <1>1, <1>2, <1>6, <2>1
    <2>2. CASE y # z
      <3>1. Coming(y)
        BY <1>6, <2>2
      <3>2. QED
        BY <1>1, <1>2, <1>6, <2>2, <3>1 DEF OrderInv
    <2>3. QED
      BY <2>1, <2>2
  <1>7. \A x \in Plain : OpOf(x)' = OpOf(x) /\ opid'[OpOf(x)] = opid[OpOf(x)]
    BY <1>2
  <1>8. \A x \in Plain : cur' # NoTurn => opid'[OpOf(x)'] <= opid'[cur']
    BY <1>7 DEF OrderInv
  <1>9. \A x \in Plain : \A i \in ops' \cup queue' : opid'[OpOf(x)'] < opid'[i]
    BY <1>7
  <1>10. ASSUME NEW x \in Insiders, NEW y \in Items, Coming(y)' PROVE Before(x, y)'
    <2>1. acc'[x] = acc[x] /\ acc[x] \in Nat /\ acc[x] <= accepted
      BY <1>1, <1>a
    <2>2. CASE y = z
      BY <1>1, <2>1, <2>2 DEF Before
    <2>3. CASE y # z
      <3>1. acc'[y] = acc[y] /\ Before(x, y)
        BY <1>1, <1>10, <2>3 DEF OrderInv
      <3>2. TakenInside(x, y) => TakenInside(x, y)'
        BY <2>3 DEF TakenInside, Accepts
      <3>3. QED
        BY <2>1, <3>1, <3>2 DEF Before
    <2>4. QED
      BY <2>2, <2>3
  <1>11. QED
    BY <1>3, <1>4, <1>5, <1>6, <1>8, <1>9, <1>10, <1>a DEF OrderInv

-----------------------------------------------------------------------------
(* submit_presented.                                                       *)

\* A submission that nobody accepted (yet) moves only its own state.
LEMMA FrontStep ==
    ASSUME InboxInv, NEW s \in Subs, NEW v \in Outside, sub[s] \in {"new", "checking"},
           sub' = [sub EXCEPT ![s] = v], chk' \in [Subs -> CheckRecords],
           \A x \in Subs : x # s => chk'[x] = chk[x],
           v = "checking" => /\ chk'[s].turn \in Subs /\ chk'[s].policy # 0
                             /\ pol[chk'[s].turn] = chk'[s].policy,
           passed' \in [Subs -> Nat], \A x \in Subs : x # s => passed'[x] = passed[x],
           UNCHANGED <<home, inboxVars, opVars, runVars, accVars, hist, cuts>>
    PROVE  InboxInv'
  <1>0. Types /\ IdInv /\ PolInv /\ PlaceInv /\ CapInv /\ DoneInv /\ ConsInv /\ OrderInv /\ RiseInv
    BY DEF InboxInv
  <1>1. /\ UNCHANGED <<home, inboxes, openIn, pend, held, pol, cons, opid, nextOp, gen, confs,
                       ops, queue, open, cur, bpc, cut, stale, done, reqs, owed, acc, accepted, inside, hist, cuts>>
        /\ \A x \in Subs : sub'[x] = sub[x] \/ (x = s /\ sub[x] \in Outside /\ sub'[x] \in Outside)
        /\ v \in SubStates
        /\ v = "checking" => sub'[s] = "checking"
    BY <1>0 DEF inboxVars, opVars, runVars, accVars, Types, Outside, SubStates, Settled
  <1>2. Types'
    BY <1>0, <1>1 DEF Types
  <1>3. IdInv'
    BY <1>0, <1>1 DEF IdInv, Outside
  <1>4. PolInv'
    BY <1>0, <1>1 DEF PolInv, PolOver, First
  <1>5. PlaceInv'
    <2>1. \A x \in Subs : (sub'[x] = "pending" <=> sub[x] = "pending") /\ (sub'[x] = "held" <=> sub[x] = "held")
      BY <1>1 DEF Outside
    <2>2. \A x \in Subs : sub'[x] \in Outside <=> sub[x] \in Outside
      BY <1>1
    <2>3. \A t \in Subs : (\A x \in SeqSet(pend[t]) : x \in Subs) /\ (\A x \in held[t] : x \in Subs)
      BY <1>0, SeqSetOf DEF Types
    <2>4. QED
      BY <1>0, <1>1, <2>1, <2>2, <2>3 DEF PlaceInv, Unstarted, Afloat, Outside
  <1>6. CapInv'
    BY <1>0, <1>1, CapShrinks, InboxAssumption DEF Outside
  <1>7. DoneInv'
    BY <1>0, <1>1 DEF DoneInv, Empty, Outside
  <1>8. ConsInv'
    <2>1. Constrained \subseteq Subs
      BY InboxAssumption
    <2>2. \A x \in Subs : sub'[x] \in {"pending", "held"} => sub[x] \in {"pending", "held"}
      BY <1>1 DEF Outside
    <2>3. ASSUME NEW x \in Subs, sub'[x] = "checking"
          PROVE  chk'[x].turn \in Subs /\ chk'[x].policy # 0 /\ pol[chk'[x].turn] = chk'[x].policy
      <3>1. CASE x = s
        BY <1>0, <2>3, <3>1 DEF Types
      <3>2. CASE x # s
        BY <1>0, <1>1, <2>3, <3>2 DEF ConsInv
      <3>3. QED
        BY <3>1, <3>2
    <2>4. \A x \in Subs : x \in SeqSet(hist) \/ sub'[x] \in {"pending", "held"} => x # s
      <3>1. home[s] = NoTurn /\ NoTurn \notin Subs
        BY <1>0, InboxAssumption DEF PlaceInv, Items
      <3>2. s \notin SeqSet(hist)
        BY <1>0, <3>1 DEF ConsInv
      <3>3. QED
        BY <1>1, <2>2, <3>2
    <2>5. ASSUME NEW x \in Constrained, sub'[x] \in {"pending", "held"}
          PROVE  \/ x \in cons[home[x]]
                 \/ passed'[x] = pol[home[x]] /\ pol[home[x]] # 0
      BY <1>0, <2>1, <2>2, <2>4, <2>5 DEF ConsInv
    <2>6. ASSUME NEW x \in Subs, x \in SeqSet(hist)
          PROVE  /\ home[x] \in Subs \ ops /\ pol[home[x]] # 0
                 /\ x \in Constrained => passed'[x] = pol[home[x]]
      BY <1>0, <2>4, <2>6 DEF ConsInv
    <2>7. /\ \A t \in Subs : cons[t] # {} => t \in ops
          /\ \A t \in Subs : \A x \in cons[t] : home[x] = t
      BY <1>0 DEF ConsInv
    <2>8. QED
      BY <1>1, <2>3, <2>5, <2>6, <2>7 DEF ConsInv
  <1>9. OrderInv' /\ RiseInv'
    <2>1. \A t \in Subs : Unstarted(t)' => Unstarted(t)
      BY <1>1 DEF Unstarted
    <2>2. \A x \in Subs : Unstarted(home[x])' => Unstarted(home[x])
      BY <1>1 DEF Unstarted
    <2>3. OrderInv'
      BY <1>0, <1>1, <2>2, OrderMoves DEF Outside
    <2>4. QED
      BY <1>0, <1>1, <2>1, <2>3, RiseKept
  <1>10. QED
    BY <1>2, <1>3, <1>4, <1>5, <1>6, <1>7, <1>8, <1>9 DEF InboxInv

\* It is accepted into the inbox of t.
LEMMA JoinStep ==
    ASSUME InboxInv, NEW s \in Subs, NEW t \in Subs, sub[s] \in {"new", "checking"}, HasRoom,
           t \in inboxes, t \in openIn, LastOp(t),
           sub' = [sub EXCEPT ![s] = "pending"], home' = [home EXCEPT ![s] = t],
           pend' = [pend EXCEPT ![t] = Append(@, s)], Accepts(s),
           chk' \in [Subs -> CheckRecords], \A x \in Subs : x # s => chk'[x] = chk[x],
           passed' \in [Subs -> Nat], \A x \in Subs : x # s => passed'[x] = passed[x],
           cons' \in [Subs -> SUBSET Subs],
           \A x \in Subs : x # t => cons'[x] = cons[x],
           cons'[t] = cons[t] \/ (cons'[t] = cons[t] \cup {s} /\ pol[t] = 0),
           s \in Constrained => s \in cons'[t] \/ (passed'[s] = pol[t] /\ pol[t] # 0),
           UNCHANGED <<inboxes, openIn, held, pol, opVars, runVars, hist, cuts>>
    PROVE  InboxInv'
  <1>0. Types /\ IdInv /\ PolInv /\ PlaceInv /\ CapInv /\ DoneInv /\ ConsInv /\ OrderInv /\ RiseInv
    BY DEF InboxInv
  <1>1. UNCHANGED <<inboxes, openIn, held, pol, opid, nextOp, gen, confs, ops, queue, open,
                    cur, bpc, cut, stale, done, reqs, owed, hist, cuts>>
    BY DEF opVars, runVars
  <1>2. /\ \A x \in Subs : x # s => sub'[x] = sub[x] /\ home'[x] = home[x]
        /\ sub'[s] = "pending" /\ home'[s] = t /\ home[s] = NoTurn /\ s \in Items /\ t \in Items
        /\ t # NoTurn
    <2>1. sub[s] \in {"new", "checking", "refused"} => home[s] = NoTurn
      BY <1>0 DEF PlaceInv
    <2>2. s \in Items /\ t \in Items /\ t # NoTurn
      BY InboxAssumption DEF Items
    <2>3. \A x \in Subs : x # s => sub'[x] = sub[x] /\ home'[x] = home[x]
      BY <1>0 DEF Types
    <2>4. sub'[s] = "pending" /\ home'[s] = t
      BY <1>0 DEF Types
    <2>5. QED
      BY <2>1, <2>2, <2>3, <2>4
  <1>3. /\ pend'[t] = Append(pend[t], s) /\ \A x \in Subs : x # t => pend'[x] = pend[x]
        /\ pend[t] \in Seq(Subs) /\ pend'[t] \in Seq(Subs)
        /\ SeqSet(pend'[t]) = SeqSet(pend[t]) \cup {s}
    <2>1. pend[t] \in Seq(Subs) /\ pend'[t] = Append(pend[t], s)
      BY <1>0 DEF Types
    <2>2. Append(pend[t], s) \in Seq(Subs) /\ SeqSet(Append(pend[t], s)) = SeqSet(pend[t]) \cup {s}
      BY <2>1, AppendDoes
    <2>3. QED
      BY <1>0, <2>1, <2>2 DEF Types
  <1>4. t \in ops \/ t \in queue \/ t = cur
    BY <1>0 DEF PlaceInv, Afloat
  <1>a. opid[t] # 0
    <2>1. CASE t = cur
      BY <1>0, <1>2, <2>1 DEF IdInv, Ordered
    <2>2. CASE t # cur
      BY <1>0, <1>4, <2>2 DEF IdInv, Ordered
    <2>3. QED
      BY <2>1, <2>2
  <1>5. Types'
    <2>1. acc' \in [Items -> Nat] /\ accepted' \in Nat /\ inside' = inside
      BY <1>0, <1>2 DEF Types, Accepts
    <2>2. sub' \in [Subs -> SubStates] /\ home' \in [Subs -> Subs \cup {NoTurn}]
      BY <1>0 DEF Types, SubStates
    <2>3. pend' \in [Subs -> Seq(Subs)]
      BY <1>0, <1>3 DEF Types
    <2>4. QED
      BY <1>0, <1>1, <2>1, <2>2, <2>3 DEF Types
  <1>6. IdInv'
    BY <1>0, <1>1, <1>2 DEF IdInv
  <1>7. PolInv'
    BY <1>0, <1>1 DEF PolInv, PolOver, First
  <1>8. PlaceInv'
    <2>1. \A x \in Subs : (\A y \in SeqSet(pend[x]) : y \in Subs) /\ (\A y \in held[x] : y \in Subs)
      BY <1>0, SeqSetOf DEF Types
    <2>2. \A x \in Subs : s \notin SeqSet(pend[x]) /\ s \notin held[x]
      BY <1>0 DEF PlaceInv
    <2>4. \A x \in Subs : home'[x] = NoTurn <=> sub'[x] \in {"new", "checking", "refused"}
      BY <1>0, <1>2 DEF PlaceInv
    <2>5. \A x \in Subs : home'[x] # NoTurn => opid'[home'[x]] # 0
      BY <1>0, <1>1, <1>2, <1>a DEF PlaceInv
    <2>6. ASSUME NEW x \in Subs, sub'[x] = "pending"
          PROVE  home'[x] \in inboxes' /\ x \in SeqSet(pend'[home'[x]])
      <3>1. CASE x = s
        BY <1>1, <1>2, <1>3, <3>1
      <3>2. CASE x # s
        <4>1. home[x] \in inboxes /\ x \in SeqSet(pend[home[x]]) /\ home'[x] = home[x] /\ home[x] \in Subs
          <5>1. sub[x] = "pending" /\ home'[x] = home[x]
            BY <1>2, <2>6, <3>2
          <5>2. home[x] \in inboxes /\ x \in SeqSet(pend[home[x]])
            BY <1>0, <5>1 DEF PlaceInv
          <5>3. inboxes \subseteq Subs
            BY <1>0 DEF Types
          <5>4. QED
            BY <5>1, <5>2, <5>3
        <4>2. QED
          BY <1>1, <1>3, <4>1
      <3>3. QED
        BY <3>1, <3>2
    <2>7. ASSUME NEW u \in Subs, NEW x \in SeqSet(pend'[u]) PROVE sub'[x] = "pending" /\ home'[x] = u
      <3>1. CASE x \in SeqSet(pend[u])
        BY <1>0, <1>2, <2>1, <2>2, <3>1 DEF PlaceInv
      <3>2. CASE x \notin SeqSet(pend[u])
        BY <1>2, <1>3, <2>7, <3>2
      <3>3. QED
        BY <3>1, <3>2
    <2>8. \A x \in Subs : sub'[x] = "held" => home'[x] \in inboxes' /\ x \in held'[home'[x]]
      BY <1>0, <1>1, <1>2 DEF PlaceInv
    <2>9. \A u \in Subs : \A x \in held'[u] : sub'[x] = "held" /\ home'[x] = u
      BY <1>0, <1>1, <1>2, <2>1, <2>2 DEF PlaceInv
    <2>10. /\ \A u \in inboxes' : u \in Afloat'
           /\ \A u \in inboxes' : Unstarted(u)' => \E x \in Subs : held'[u] = {x}
      <3>1. Afloat' = Afloat /\ \A u : Unstarted(u)' = Unstarted(u)
        BY <1>1 DEF Afloat, Unstarted
      <3>2. /\ \A u \in inboxes : u \in Afloat
            /\ \A u \in inboxes : Unstarted(u) => \E x \in Subs : held[u] = {x}
        BY <1>0 DEF PlaceInv
      <3>3. inboxes' = inboxes /\ held' = held
        BY <1>1
      <3>4. \A u \in inboxes' : u \in Afloat'
        BY ONLY <3>1, <3>2, <3>3
      <3>5. ASSUME NEW u \in inboxes', Unstarted(u)' PROVE \E x \in Subs : held'[u] = {x}
        BY ONLY <3>1, <3>2, <3>3, <3>5
      <3>6. QED
        BY <3>4, <3>5
    <2>11. QED
      BY <2>4, <2>5, <2>6, <2>7, <2>8, <2>9, <2>10 DEF PlaceInv
  <1>9. CapInv'
    BY <1>0, <1>2, CapGrows, InboxAssumption
  <1>10. DoneInv'
    <2>1. done /\ bpc # "idle" => cur # t
      BY <1>0 DEF DoneInv
    <2>2. \A x \in Subs : sub'[x] # "lost"
      BY <1>0, <1>2 DEF DoneInv
    <2>3. QED
      BY <1>0, <1>1, <1>3, <2>1, <2>2 DEF DoneInv, Empty, Types
  <1>11. ConsInv'
    <2>0. Constrained \subseteq Subs
      BY InboxAssumption
    <2>1. \A x \in Subs : cons'[x] # {} => x \in ops'
      <3>1. pol[t] = 0 => t \in ops
        BY <1>0, <1>4 DEF PolInv, PolOver
      <3>2. ops' = ops /\ \A x \in Subs : cons[x] # {} => x \in ops
        BY <1>0, <1>1 DEF ConsInv
      <3>3. cons'[t] # {} => t \in ops
        BY <3>1, <3>2
      <3>4. QED
        BY <3>2, <3>3
    <2>2. ASSUME NEW u \in Subs, NEW x \in cons'[u] PROVE home'[x] = u
      <3>1. CASE x = s /\ u = t
        BY <1>2, <3>1
      <3>2. CASE ~(x = s /\ u = t)
        <4>1. x \in cons[u] /\ x \in Subs
          BY <1>0, <2>2, <3>2 DEF Types
        <4>2. home[x] = u
          BY <1>0, <4>1 DEF ConsInv
        <4>3. QED
          BY <1>2, <4>1, <4>2, InboxAssumption DEF Items
      <3>3. QED
        BY <3>1, <3>2
    <2>3. ASSUME NEW x \in Constrained, sub'[x] \in {"pending", "held"}
          PROVE  \/ x \in cons'[home'[x]]
                 \/ passed'[x] = pol'[home'[x]] /\ pol'[home'[x]] # 0
      <3>1. CASE x = s
        BY <1>1, <1>2, <3>1
      <3>2. CASE x # s
        <4>1. x \in Subs /\ sub[x] \in {"pending", "held"} /\ home'[x] = home[x] /\ home[x] \in Subs
          BY <1>0, <1>2, <2>0, <2>3, <3>2 DEF PlaceInv, Types
        <4>2. cons[home[x]] \subseteq cons'[home[x]] /\ passed'[x] = passed[x] /\ pol' = pol
          BY <1>1, <3>2, <4>1
        <4>3. \/ x \in cons[home[x]]
              \/ passed[x] = pol[home[x]] /\ pol[home[x]] # 0
          BY <1>0, <2>3, <4>1 DEF ConsInv
        <4>4. QED
          BY <4>1, <4>2, <4>3
      <3>3. QED
        BY <3>1, <3>2
    <2>4. ASSUME NEW x \in Subs, x \in SeqSet(hist)
          PROVE  /\ home'[x] \in Subs \ ops' /\ pol'[home'[x]] # 0
                 /\ x \in Constrained => passed'[x] = pol'[home'[x]]
      <3>1. /\ home[x] \in Subs \ ops /\ pol[home[x]] # 0
            /\ x \in Constrained => passed[x] = pol[home[x]]
        BY <1>0, <2>4 DEF ConsInv
      <3>2. x # s
        BY <1>2, <3>1, InboxAssumption DEF Items
      <3>3. QED
        BY <1>1, <1>2, <3>1, <3>2
    <2>5. ASSUME NEW x \in Subs, sub'[x] = "checking"
          PROVE  chk'[x].turn \in Subs /\ chk'[x].policy # 0 /\ pol'[chk'[x].turn] = chk'[x].policy
      <3>1. x # s /\ sub[x] = "checking" /\ chk'[x] = chk[x]
        BY <1>2, <2>5
      <3>2. QED
        BY <1>0, <1>1, <3>1 DEF ConsInv
    <2>6. hist' = hist
      BY <1>1
    <2>7. QED
      BY <2>1, <2>2, <2>3, <2>4, <2>5, <2>6 DEF ConsInv
  <1>12. ~Placed(s) /\ OpOf(s)' = t /\ s \notin SeqSet(hist) /\ s \notin Insiders
    <2>1. s \notin SeqSet(hist) /\ s \notin Configs
      BY <1>0, <1>2, InboxAssumption DEF ConsInv, Items
    <2>2. s \notin Insiders
      BY InboxAssumption DEF Insiders
    <2>3. QED
      BY <1>2, <2>1, <2>2 DEF Placed, Plain, OpOf, Control
  <1>13. OrderInv'
    <2>1. \A x : Control(x)' = Control(x) /\ \A u : Unstarted(u)' = Unstarted(u)
      BY <1>1 DEF Control, Afloat, Unstarted
    <2>2. \A x \in Items : x # s => (Placed(x)' => Placed(x)) /\ (Coming(x)' => Coming(x))
      <3>1. Plain' = Plain
        BY <1>1 DEF Plain, Insiders, Accepts
      <3>2. QED
        BY <1>1, <1>2, <2>1, <3>1 DEF Placed, Coming
    <2>3. \A x \in Items : Placed(x) => OpOf(x)' = OpOf(x)
      BY <1>2, <1>12 DEF OpOf
    <2>5. /\ \A x \in Plain : \A i \in ops \cup queue : opid[OpOf(x)] < opid[i]
          /\ \A x \in Insiders : opid[x] # 0 /\ x \notin Afloat
      BY <1>0 DEF OrderInv
    <2>6. /\ \A x \in Plain : \A i \in ops' \cup queue' : opid[OpOf(x)] < opid'[i]
          /\ \A x \in Insiders : opid'[x] # 0 /\ x \notin Afloat'
      BY <1>1, <2>5 DEF Afloat
    <2>7. /\ opid' \in [Items -> Nat] /\ opid'[t] # 0 /\ UNCHANGED <<hist, cur>>
          /\ \A x \in Items : Placed(x) => opid[OpOf(x)] <= opid'[t]
          /\ \A x \in Items : Placed(x) => OpOf(x)' = OpOf(x) /\ opid'[OpOf(x)] = opid[OpOf(x)]
          /\ cur # NoTurn => opid'[cur] = opid[cur]
      BY <1>0, <1>1, <1>a, <2>3 DEF LastOp, Types
    <2>8. /\ Types /\ OrderInv /\ s \in Items /\ t \in Items /\ ~Placed(s) /\ OpOf(s)' = t
          /\ s \notin Insiders /\ \A y \in Subs : y # s => home'[y] = home[y]
      BY <1>0, <1>2, <1>12
    <2>9. QED
      BY <2>2, <2>6, <2>7, <2>8, OrderAccepts
  <1>14. RiseInv'
    <2>1. /\ acc'[s] = accepted + 1 /\ \A x \in Items : x # s => acc'[x] = acc[x]
          /\ \A x \in Items : acc[x] \in Nat /\ acc[x] <= accepted
          /\ accepted \in Nat
      BY <1>0, <1>2 DEF Accepts, Types, OrderInv
    <2>2. \A u \in Subs : /\ \A y \in SeqSet(pend[u]) : y \in Items /\ y # s
                          /\ \A y \in held[u] : y \in Items /\ y # s
      <3> SUFFICES ASSUME NEW u \in Subs
                   PROVE  /\ \A y \in SeqSet(pend[u]) : y \in Items /\ y # s
                          /\ \A y \in held[u] : y \in Items /\ y # s
        OBVIOUS
      <3>1. SeqSet(pend[u]) \subseteq Subs /\ held[u] \subseteq Subs
        BY <1>0, SeqSetOf DEF Types
      <3>2. s \notin SeqSet(pend[u]) /\ s \notin held[u]
        BY <1>0 DEF PlaceInv
      <3>3. QED
        BY <3>1, <3>2 DEF Items
    <2>3. HistInv'
      BY <1>0, <1>1, <1>2, <1>12, HistAccepts DEF RiseInv
    <2>4. ASSUME NEW u \in Subs PROVE Rising(acc', pend'[u])
      <3>1. Rising(acc', pend[u])
        BY <1>0, <2>1, <2>2, RisingSame DEF RiseInv
      <3>2. CASE u = t
        <4>1. ASSUME NEW y \in SeqSet(pend[t]) PROVE acc'[y] < acc'[s]
          <5>1. y \in Items /\ y # s
            BY <2>2
          <5>2. acc'[y] = acc[y] /\ acc[y] \in Nat /\ acc[y] <= accepted
            BY <2>1, <5>1
          <5>3. QED
            BY <2>1, <5>2
        <4>2. Rising(acc', Append(pend[t], s))
          BY <1>3, <3>1, <3>2, <4>1, AppendDoes
        <4>3. QED
          BY <1>3, <3>2, <4>2
      <3>3. QED
        BY <1>3, <3>1, <3>2
    <2>5. ASSUME NEW u \in Subs, NEW x \in held'[u], NEW y \in SeqSet(pend'[u]), Unstarted(u)'
          PROVE  acc'[x] < acc'[y]
      <3>1. Unstarted(u) /\ x \in held[u]
        BY <1>1, <2>5 DEF Unstarted
      <3>2. CASE y \in SeqSet(pend[u])
        BY <1>0, <2>1, <2>2, <3>1, <3>2 DEF RiseInv
      <3>3. CASE y \notin SeqSet(pend[u])
        <4>1. y = s
          BY <1>3, <2>5, <3>3
        <4>2. acc'[x] = acc[x] /\ acc[x] \in Nat /\ acc[x] <= accepted
          BY <2>1, <2>2, <3>1
        <4>3. QED
          BY <2>1, <4>1, <4>2
      <3>4. QED
        BY <3>2, <3>3
    <2>6. QED
      BY <1>1, <2>3, <2>4, <2>5 DEF RiseInv
  <1>15. QED
    BY <1>5, <1>6, <1>7, <1>8, <1>9, <1>10, <1>11, <1>13, <1>14 DEF InboxInv

LEMMA SubmitRefusedKeeps ==
    ASSUME InboxInv, NEW s \in Subs, SubmitRefused(s) PROVE InboxInv'
  <1>1. /\ sub' = [sub EXCEPT ![s] = "refused"] /\ sub[s] \in {"new", "checking"} /\ chk' = chk
        /\ UNCHANGED <<passed, home, inboxVars, opVars, runVars, accVars, hist, cuts>>
    BY DEF SubmitRefused
  <1>2. chk' \in [Subs -> CheckRecords] /\ "refused" \in Outside
    BY <1>1 DEF InboxInv, Types, Outside
  <1>p. passed' = passed /\ passed' \in [Subs -> Nat]
    BY <1>1 DEF InboxInv, Types
  <1>3. QED
    BY <1>1, <1>2, <1>p, FrontStep

LEMMA NoCheckIs == NoCheck \in CheckRecords
  BY DEF NoCheck, CheckRecords

LEMMA CheckRefusesKeeps ==
    ASSUME InboxInv, NEW s \in Subs, CheckRefuses(s) PROVE InboxInv'
  <1>1. /\ sub' = [sub EXCEPT ![s] = "refused"] /\ sub[s] \in {"new", "checking"}
        /\ chk' = [chk EXCEPT ![s] = NoCheck]
        /\ UNCHANGED <<passed, home, inboxVars, opVars, runVars, accVars, hist, cuts>>
    BY DEF CheckRefuses
  <1>2. /\ chk' \in [Subs -> CheckRecords] /\ "refused" \in Outside
        /\ \A x \in Subs : x # s => chk'[x] = chk[x]
    BY <1>1, NoCheckIs DEF InboxInv, Types, Outside
  <1>p. passed' = passed /\ passed' \in [Subs -> Nat]
    BY <1>1 DEF InboxInv, Types
  <1>3. QED
    BY <1>1, <1>2, <1>p, FrontStep

LEMMA CheckStaleKeeps ==
    ASSUME InboxInv, NEW s \in Subs, CheckStale(s) PROVE InboxInv'
  <1>1. /\ sub' = [sub EXCEPT ![s] = "new"] /\ sub[s] \in {"new", "checking"}
        /\ chk' = [chk EXCEPT ![s] = NoCheck]
        /\ UNCHANGED <<passed, home, inboxVars, opVars, runVars, accVars, hist, cuts>>
    BY DEF CheckStale
  <1>2. /\ chk' \in [Subs -> CheckRecords] /\ "new" \in Outside
        /\ \A x \in Subs : x # s => chk'[x] = chk[x]
    BY <1>1, NoCheckIs DEF InboxInv, Types, Outside
  <1>p. passed' = passed /\ passed' \in [Subs -> Nat]
    BY <1>1 DEF InboxInv, Types
  <1>3. QED
    BY <1>1, <1>2, <1>p, FrontStep

LEMMA SubmitChecksKeeps ==
    ASSUME InboxInv, NEW s \in Subs, SubmitChecks(s) PROVE InboxInv'
  <1>1. PICK t \in Target(s) :
           /\ pol[t] # 0
           /\ chk' = [chk EXCEPT ![s] = [turn |-> t, policy |-> pol[t], gen |-> gen, boundary |-> nextOp]]
    BY DEF SubmitChecks
  <1>2. /\ sub' = [sub EXCEPT ![s] = "checking"] /\ sub[s] \in {"new", "checking"}
        /\ UNCHANGED <<passed, home, inboxVars, opVars, runVars, accVars, hist, cuts>>
    BY DEF SubmitChecks
  <1>3. t \in Subs
    BY TargetDoes
  <1> DEFINE r == [turn |-> t, policy |-> pol[t], gen |-> gen, boundary |-> nextOp]
  <1>4. r \in CheckRecords /\ r.turn = t /\ r.policy = pol[t]
    BY <1>3 DEF InboxInv, Types, CheckRecords
  <1> HIDE DEF r
  <1>5. chk' = [chk EXCEPT ![s] = r] /\ chk \in [Subs -> CheckRecords]
    BY <1>1 DEF r, InboxInv, Types
  <1>6. chk' \in [Subs -> CheckRecords] /\ chk'[s] = r /\ \A x \in Subs : x # s => chk'[x] = chk[x]
    BY <1>4, <1>5
  <1>7. "checking" \in Outside
    BY DEF Outside
  <1>p. passed' = passed /\ passed' \in [Subs -> Nat]
    BY <1>2 DEF InboxInv, Types
  <1>8. QED
    BY <1>1, <1>2, <1>3, <1>4, <1>6, <1>7, <1>p, FrontStep

\* No room: the submission is refused although it had a turn to join.
LEMMA JoinRefused ==
    ASSUME InboxInv, NEW s \in Subs, NEW t, sub[s] \in {"new", "checking"}, ~HasRoom, Join(s, t),
           chk' \in [Subs -> CheckRecords], \A x \in Subs : x # s => chk'[x] = chk[x],
           passed' \in [Subs -> Nat], \A x \in Subs : x # s => passed'[x] = passed[x],
           UNCHANGED <<inboxes, openIn, held, pol, cons, opVars, runVars, hist, cuts>>
    PROVE  InboxInv'
  <1>1. sub' = [sub EXCEPT ![s] = "refused"] /\ UNCHANGED <<home, pend, accVars>>
    BY DEF Join
  <1>2. UNCHANGED <<home, inboxVars, opVars, runVars, accVars, hist, cuts>>
    BY <1>1 DEF inboxVars
  <1>3. "refused" \in Outside
    BY DEF Outside
  <1>4. QED
    BY <1>1, <1>2, <1>3, FrontStep

LEMMA SubmitJoinsKeeps ==
    ASSUME InboxInv, NEW s \in Subs, SubmitJoins(s) PROVE InboxInv'
  <1>1. PICK t \in Target(s) :
           /\ s \in Constrained => pol[t] = 0
           /\ Join(s, t)
           /\ cons' = IF s \in Constrained /\ HasRoom THEN [cons EXCEPT ![t] = @ \cup {s}] ELSE cons
    BY DEF SubmitJoins
  <1>2. /\ sub[s] \in {"new", "checking"}
        /\ UNCHANGED <<passed, chk, inboxes, openIn, held, pol, opVars, runVars, hist, cuts>>
    BY DEF SubmitJoins
  <1>3. t \in Subs /\ t \in inboxes /\ t \in openIn /\ LastOp(t)
    BY TargetDoes
  <1>4. chk' \in [Subs -> CheckRecords] /\ (\A x \in Subs : x # s => chk'[x] = chk[x]) /\ Types
    BY <1>2 DEF InboxInv, Types
  <1>5. CASE ~HasRoom
    <2>1. /\ UNCHANGED <<inboxes, openIn, held, pol, cons, opVars, runVars, hist, cuts>>
          /\ passed' \in [Subs -> Nat] /\ passed' = passed
      BY <1>1, <1>2, <1>4, <1>5 DEF Types
    <2>2. QED
      BY <1>1, <1>2, <1>4, <1>5, <2>1, JoinRefused
  <1>6. CASE HasRoom
    <2>1. /\ sub' = [sub EXCEPT ![s] = "pending"] /\ home' = [home EXCEPT ![s] = t]
          /\ pend' = [pend EXCEPT ![t] = Append(@, s)] /\ Accepts(s)
      BY <1>1, <1>6 DEF Join
    <2>2. passed' \in [Subs -> Nat] /\ (\A x \in Subs : x # s => passed'[x] = passed[x])
      BY <1>2, <1>4 DEF Types
    <2>3. /\ cons' \in [Subs -> SUBSET Subs] /\ \A x \in Subs : x # t => cons'[x] = cons[x]
          /\ cons'[t] = cons[t] \/ (cons'[t] = cons[t] \cup {s} /\ pol[t] = 0)
          /\ s \in Constrained => s \in cons'[t]
      <3>1. CASE s \in Constrained
        BY <1>1, <1>3, <1>4, <1>6, <3>1 DEF Types
      <3>2. CASE s \notin Constrained
        BY <1>1, <1>3, <1>4, <3>2 DEF Types
      <3>3. QED
        BY <3>1, <3>2
    <2>4. UNCHANGED <<inboxes, openIn, held, pol, opVars, runVars, hist, cuts>>
      BY <1>2
    <2>5. QED
      BY <1>2, <1>3, <1>4, <1>6, <2>1, <2>2, <2>3, <2>4, JoinStep
  <1>7. QED
    BY <1>5, <1>6

LEMMA CheckPassesKeeps ==
    ASSUME InboxInv, NEW s \in Subs, CheckPasses(s) PROVE InboxInv'
  <1> DEFINE t == chk[s].turn
  <1>1. /\ sub[s] = "checking" /\ StillJoins(s) /\ Join(s, t)
        /\ passed' = [passed EXCEPT ![s] = chk[s].policy]
        /\ chk' = [chk EXCEPT ![s] = NoCheck]
        /\ UNCHANGED <<inboxes, openIn, held, pol, cons, opVars, runVars, hist, cuts>>
    BY DEF CheckPasses
  <1>2. t \in Subs /\ chk[s].policy # 0 /\ pol[t] = chk[s].policy
    BY <1>1 DEF InboxInv, ConsInv
  <1>3. t \in inboxes /\ t \in openIn /\ LastOp(t)
    <2>1. /\ t \in inboxes /\ t \in openIn /\ nextOp = chk[s].boundary
          /\ \/ opid[t] = chk[s].boundary
             \/ (\A i \in ops : opid[i] <= opid[t]) /\ queue = {} /\ pol[t] = gen
      BY <1>1 DEF StillJoins
    <2>2. QED
      BY <1>2, <2>1, LatestIsLast, AloneIsLast
  <1> HIDE DEF t
  <1>4. chk' \in [Subs -> CheckRecords] /\ (\A x \in Subs : x # s => chk'[x] = chk[x]) /\ Types
    BY <1>1, NoCheckIs DEF InboxInv, Types
  <1>5. /\ passed' \in [Subs -> Nat] /\ passed'[s] = pol[t] /\ pol[t] # 0
        /\ \A x \in Subs : x # s => passed'[x] = passed[x]
    BY <1>1, <1>2, <1>4 DEF Types
  <1>6. CASE HasRoom
    <2>1. /\ sub' = [sub EXCEPT ![s] = "pending"] /\ home' = [home EXCEPT ![s] = t]
          /\ pend' = [pend EXCEPT ![t] = Append(@, s)] /\ Accepts(s)
      BY <1>1, <1>6 DEF Join
    <2>2. cons' = cons /\ cons' \in [Subs -> SUBSET Subs]
      BY <1>1, <1>4 DEF Types
    <2>3. QED
      BY <1>1, <1>2, <1>3, <1>4, <1>5, <1>6, <2>1, <2>2, JoinStep
  <1>7. CASE ~HasRoom
    BY <1>1, <1>4, <1>5, <1>7, JoinRefused
  <1>8. QED
    BY <1>6, <1>7

-----------------------------------------------------------------------------
(* Operations enter and leave.                                             *)

Injective(id) == \A i, j \in Items : id[i] = id[j] /\ id[i] # 0 => i = j
PolSteady == \A t \in Subs : pol[t] # 0 => pol'[t] = pol[t]

LEMMA NewOp ==
    ASSUME InboxInv, NEW z \in Items, opid[z] = 0, nextOp' = nextOp + 1,
           opid' = [opid EXCEPT ![z] = nextOp + 1],
           NEW k, Drive(ops \cup {z}, queue, opid', gen, k), UNCHANGED <<gen, confs, cur>>
    PROVE  /\ opid' \in [Items -> Nat] /\ opid'[z] = nextOp + 1 /\ nextOp \in Nat
           /\ \A i \in Items : i # z => opid'[i] = opid[i]
           /\ \A i \in Items : opid'[i] <= nextOp'
           /\ Injective(opid')
           /\ Ordered(ops', queue', opid', cur')
           /\ PolInv' /\ PolSteady
           /\ ops' \cup queue' = ops \cup queue \cup {z} /\ ops' \subseteq ops \cup {z}
           /\ z \notin ops \cup queue \cup {cur}
           /\ ops' \subseteq Items /\ queue' \subseteq Items /\ pol' \in [Subs \cup Compactions -> Nat]
  <1>0. Types /\ IdInv /\ PolInv
    BY DEF InboxInv
  <1>1. /\ opid \in [Items -> Nat] /\ nextOp \in Nat /\ gen \in Nat /\ gen # 0
        /\ confs \in [Configs -> Nat] /\ ops \subseteq Items /\ queue \subseteq Items
        /\ cur \in Items \cup {NoTurn} /\ \A i \in Items : opid[i] \in Nat /\ opid[i] <= nextOp
    BY <1>0 DEF Types, IdInv
  <1>2. /\ opid' \in [Items -> Nat] /\ opid'[z] = nextOp + 1
        /\ \A i \in Items : i # z => opid'[i] = opid[i]
    BY <1>1
  <1>3. z \notin ops /\ z \notin queue /\ z # cur
    BY <1>0, InboxAssumption DEF IdInv, Ordered, Items
  <1>4. \A i \in Items : opid'[i] <= nextOp'
    BY <1>1, <1>2
  <1>5. Injective(opid')
    <2> SUFFICES ASSUME NEW i \in Items, NEW j \in Items, opid'[i] = opid'[j], opid'[i] # 0 PROVE i = j
      BY DEF Injective
    <2>1. CASE i = z /\ j # z
      BY <1>1, <1>2, <2>1
    <2>2. CASE i # z /\ j = z
      BY <1>1, <1>2, <2>2
    <2>3. CASE i # z /\ j # z
      BY <1>0, <1>2, <2>3 DEF IdInv
    <2>4. QED
      BY <2>1, <2>2, <2>3
  <1>6. Ordered(ops \cup {z}, queue, opid', cur)
    <2>1. \A i \in ops \cup queue : i \in Items /\ opid'[i] = opid[i]
      BY <1>1, <1>2, <1>3
    <2>2. cur # NoTurn => cur \in Items /\ opid'[cur] = opid[cur]
      BY <1>1, <1>2, <1>3
    <2>3. \A i \in Items : i # z => opid'[i] < opid'[z]
      BY <1>1, <1>2
    <2>4. Ordered(ops, queue, opid, cur)
      BY <1>0 DEF IdInv
    <2>5. \A i \in ops \cup {z} \cup queue : opid'[i] # 0 /\ i # cur
      BY <1>1, <1>2, <1>3, <2>1, <2>4 DEF Ordered
    <2>6. \A i \in queue, j \in ops \cup {z} : opid'[i] < opid'[j]
      BY <1>1, <1>3, <2>1, <2>3, <2>4 DEF Ordered
    <2>7. cur # NoTurn => opid'[cur] # 0 /\ \A j \in ops \cup {z} \cup queue : opid'[cur] < opid'[j]
      BY <1>3, <2>1, <2>2, <2>3, <2>4 DEF Ordered
    <2>8. QED
      BY <2>4, <2>5, <2>6, <2>7 DEF Ordered
  <1>7. PolOver(ops \cup {z}, queue, opid', gen, confs, cur)
    <2>1. PolOver(ops, queue, opid, gen, confs, cur)
      BY <1>0 DEF PolInv
    <2>2. \A t \in Subs : t \in Items /\ pol[t] \in Nat /\ (pol[t] # 0 => t # z /\ opid'[t] = opid[t])
      BY <1>0, <1>2, <2>1 DEF PolOver, Items, Types
    <2>3. \A x \in Configs : x \in Items /\ confs[x] \in Nat /\ (confs[x] # 0 => x # z /\ opid'[x] = opid[x])
      BY <1>1, <1>2, <2>1 DEF PolOver, Items
    <2>4. \A i \in Items : i # z => opid'[i] < opid'[z]
      BY <1>1, <1>2
    <2>5. \A i \in ops : i # z /\ opid'[i] = opid[i]
      BY <1>1, <1>2, <1>3
    <2>6. /\ \A t \in Subs : pol[t] # 0 => opid'[t] # 0 /\ pol[t] <= gen
          /\ \A t \in Subs : t \in queue \/ t = cur => pol[t] # 0
          /\ \A t \in Subs \cap (ops \cup {z}) : pol[t] # 0 => pol[t] = gen
      BY <2>1, <2>2 DEF PolOver
    <2>7. \A t \in Subs, i \in ops \cup {z} : pol[t] # 0 /\ i # t => opid'[t] < opid'[i]
      BY <2>1, <2>2, <2>4, <2>5 DEF PolOver
    <2>8. /\ \A x \in Configs : confs[x] <= gen /\ (confs[x] # 0 => opid'[x] # 0 /\ x \notin ops \cup {z})
          /\ \A x \in Configs, i \in ops \cup {z} : confs[x] # 0 => opid'[x] < opid'[i]
      BY <2>1, <2>3, <2>4, <2>5 DEF PolOver
    <2>9. \A x \in Configs, t \in Subs :
             confs[x] # 0 /\ pol[t] # 0 => (confs[x] <= pol[t] <=> opid'[x] < opid'[t])
      BY <2>1, <2>2, <2>3 DEF PolOver
    <2>10. QED
      BY <2>6, <2>7, <2>8, <2>9 DEF PolOver
  <1>8. ops \cup {z} \subseteq Items
    BY <1>1
  <1>9. Ordered(ops', queue', opid', cur)
    BY <1>1, <1>2, <1>6, <1>8, DriveOrders
  <1>10. PolInv' /\ PolSteady
    <2>1. \A i, j \in Items : opid'[i] = opid'[j] /\ opid'[i] # 0 => i = j
      BY <1>5 DEF Injective
    <2>2. PolInv' /\ \A t \in Subs : pol[t] # 0 => pol'[t] = pol[t]
      <3>1. /\ Types /\ opid' \in [Items -> Nat] /\ gen \in Nat /\ gen # 0 /\ confs \in [Configs -> Nat]
            /\ Drive(ops \cup {z}, queue, opid', gen, k)
            /\ ops \cup {z} \subseteq Items /\ queue \subseteq Items
            /\ Ordered(ops \cup {z}, queue, opid', cur)
            /\ PolOver(ops \cup {z}, queue, opid', gen, confs, cur)
            /\ gen' = gen /\ confs' = confs /\ cur' = cur
        BY <1>0, <1>1, <1>2, <1>6, <1>7, <1>8
      <3>2. QED
        BY ONLY <3>1, <2>1, DrivePolicies
    <2>3. QED
      BY <2>2 DEF PolSteady
  <1>11. ops' \cup queue' = ops \cup queue \cup {z} /\ ops' \subseteq ops \cup {z}
    BY DriveDoes
  <1>12. ops' \subseteq Items /\ queue' \subseteq Items /\ pol' \in [Subs \cup Compactions -> Nat]
    BY <1>0, <1>1, <1>8, DriveTypes
  <1>13. QED
    BY <1>1, <1>2, <1>3, <1>4, <1>5, <1>9, <1>10, <1>11, <1>12

LEMMA LessOps ==
    ASSUME InboxInv, NEW o \in SUBSET ops, NEW q \in SUBSET queue,
           NEW k, Drive(o, q, opid, gen, k), UNCHANGED <<opid, gen, confs, cur>>
    PROVE  /\ Ordered(ops', queue', opid, cur)
           /\ PolInv' /\ PolSteady
           /\ ops' \cup queue' = o \cup q /\ ops' \subseteq o
           /\ ops' \subseteq Items /\ queue' \subseteq Items /\ pol' \in [Subs \cup Compactions -> Nat]
  <1>0. Types /\ IdInv /\ PolInv
    BY DEF InboxInv
  <1>1. /\ opid \in [Items -> Nat] /\ gen \in Nat /\ gen # 0 /\ confs \in [Configs -> Nat]
        /\ o \subseteq Items /\ q \subseteq Items
    BY <1>0 DEF Types
  <1>2. Ordered(o, q, opid, cur)
    BY <1>0, OrderedLess DEF IdInv
  <1>3. PolOver(o, q, opid, gen, confs, cur)
    BY <1>0 DEF PolInv, PolOver
  <1>4. \A i, j \in Items : opid[i] = opid[j] /\ opid[i] # 0 => i = j
    BY <1>0 DEF IdInv
  <1>5. Ordered(ops', queue', opid, cur)
    BY <1>1, <1>2, DriveOrders
  <1>6. PolInv' /\ PolSteady
    BY <1>0, <1>1, <1>2, <1>3, <1>4, DrivePolicies DEF PolSteady
  <1>7. ops' \cup queue' = o \cup q /\ ops' \subseteq o
    BY DriveDoes
  <1>8. ops' \subseteq Items /\ queue' \subseteq Items /\ pol' \in [Subs \cup Compactions -> Nat]
    BY <1>0, <1>1, DriveTypes
  <1>9. QED
    BY <1>5, <1>6, <1>7, <1>8

LEMMA SubmitStartsKeeps ==
    ASSUME InboxInv, NEW s \in Subs, SubmitStarts(s) PROVE InboxInv'
  <1>0. Types /\ IdInv /\ PolInv /\ PlaceInv /\ CapInv /\ DoneInv /\ ConsInv /\ OrderInv /\ RiseInv
    BY DEF InboxInv
  <1>1. /\ sub[s] = "new" /\ HasRoom
        /\ sub' = [sub EXCEPT ![s] = "held"] /\ home' = [home EXCEPT ![s] = s]
        /\ inboxes' = inboxes \cup {s} /\ openIn' = openIn \cup {s}
        /\ held' = [held EXCEPT ![s] = {s}] /\ cons' = [cons EXCEPT ![s] = {s} \cap Constrained]
        /\ nextOp' = nextOp + 1 /\ opid' = [opid EXCEPT ![s] = nextOp + 1]
        /\ Drive(ops \cup {s}, queue, opid', gen, cons')
        /\ Accepts(s)
        /\ UNCHANGED <<passed, chk, pend, gen, confs, open, cur, bpc, cut, stale, done, reqs, owed, hist, cuts>>
    BY DEF SubmitStarts, runVars
  <1>2. s \in Items /\ s # NoTurn /\ opid[s] = 0 /\ home[s] = NoTurn
    BY <1>0, <1>1, InboxAssumption DEF Items, IdInv, PlaceInv
  <1>3. /\ opid' \in [Items -> Nat] /\ opid'[s] = nextOp + 1 /\ nextOp \in Nat
        /\ \A i \in Items : i # s => opid'[i] = opid[i]
        /\ \A i \in Items : opid'[i] <= nextOp'
        /\ Injective(opid')
        /\ Ordered(ops', queue', opid', cur')
        /\ PolInv' /\ PolSteady
        /\ ops' \cup queue' = ops \cup queue \cup {s} /\ ops' \subseteq ops \cup {s}
        /\ s \notin ops \cup queue \cup {cur}
        /\ ops' \subseteq Items /\ queue' \subseteq Items /\ pol' \in [Subs \cup Compactions -> Nat]
    BY <1>1, <1>2, NewOp
  <1>4. /\ sub'[s] = "held" /\ home'[s] = s /\ held'[s] = {s} /\ cons'[s] = {s} \cap Constrained
        /\ \A x \in Subs : x # s => sub'[x] = sub[x] /\ home'[x] = home[x]
        /\ \A x \in Subs : x # s => held'[x] = held[x] /\ cons'[x] = cons[x]
    BY <1>0, <1>1 DEF Types
  <1>5. /\ s \notin SeqSet(hist) /\ \A t \in Subs : s \notin SeqSet(pend[t]) /\ s \notin held[t] /\ s \notin cons[t]
        /\ s \notin inboxes
    <2>1. s \notin SeqSet(hist)
      BY <1>0, <1>2, InboxAssumption DEF ConsInv, Items
    <2>2. \A t \in Subs : s \notin SeqSet(pend[t]) /\ s \notin held[t]
      BY <1>0, <1>1 DEF PlaceInv
    <2>3. \A t \in Subs : s \notin cons[t]
      BY <1>0, <1>2, InboxAssumption DEF ConsInv, Items
    <2>4. s \notin inboxes
      BY <1>0, <1>3 DEF PlaceInv, Afloat
    <2>5. QED
      BY <2>1, <2>2, <2>3, <2>4
  <1>6. Types'
    <2>1. acc' \in [Items -> Nat] /\ accepted' \in Nat /\ inside' = inside
      BY <1>0, <1>1, <1>2 DEF Types, Accepts
    <2>2. sub' \in [Subs -> SubStates] /\ home' \in [Subs -> Subs \cup {NoTurn}]
      BY <1>0, <1>1 DEF Types, SubStates
    <2>3. held' \in [Subs -> SUBSET Subs] /\ cons' \in [Subs -> SUBSET Subs]
      BY <1>0, <1>1 DEF Types
    <2>4. nextOp' \in Nat
      BY <1>1, <1>3
    <2>5. openIn' \subseteq inboxes' /\ inboxes' \subseteq Subs
      BY <1>0, <1>1 DEF Types
    <2>6. QED
      BY <1>0, <1>1, <1>3, <2>1, <2>2, <2>3, <2>4, <2>5 DEF Types
  <1>7. IdInv'
    <2>1. \A x \in Subs : sub'[x] \in {"new", "checking", "refused"} => opid'[x] = 0
      BY <1>0, <1>3, <1>4 DEF IdInv, Items
    <2>2. /\ bpc' = "idle" <=> cur' = NoTurn
          /\ cur' \notin Subs => bpc' \in {"idle", "popped"}
      BY <1>0, <1>1 DEF IdInv
    <2>3. QED
      BY <1>3, <2>1, <2>2 DEF IdInv, Injective
  <1>8. PlaceInv'
    <2>1. \A x \in Subs : home'[x] = NoTurn <=> sub'[x] \in {"new", "checking", "refused"}
      BY <1>0, <1>2, <1>4 DEF PlaceInv
    <2>2. ASSUME NEW x \in Subs, home'[x] # NoTurn PROVE opid'[home'[x]] # 0
      <3>1. CASE x = s
        BY <1>3, <1>4, <3>1
      <3>2. CASE x # s
        <4>1. home[x] \in Items /\ opid[home[x]] # 0 /\ home'[x] = home[x]
          <5>1. home'[x] = home[x] /\ home[x] # NoTurn
            BY <1>4, <2>2, <3>2
          <5>2. home[x] \in Items
            BY <1>0, <5>1 DEF Types, Items
          <5>3. opid[home[x]] # 0
            BY <1>0, <5>1 DEF PlaceInv
          <5>4. QED
            BY <5>1, <5>2, <5>3
        <4>2. QED
          BY <1>2, <1>3, <4>1
      <3>3. QED
        BY <3>1, <3>2
    <2>3. \A x \in Subs : sub'[x] = "pending" => home'[x] \in inboxes' /\ x \in SeqSet(pend'[home'[x]])
      BY <1>0, <1>1, <1>4 DEF PlaceInv
    <2>4. \A t \in Subs : \A x \in SeqSet(pend'[t]) : sub'[x] = "pending" /\ home'[x] = t
      <3>1. \A t \in Subs : \A x \in SeqSet(pend[t]) : x \in Subs /\ x # s
        BY <1>0, <1>5, SeqSetOf DEF Types
      <3>2. QED
        BY <1>0, <1>1, <1>4, <3>1 DEF PlaceInv
    <2>5. ASSUME NEW x \in Subs, sub'[x] = "held" PROVE home'[x] \in inboxes' /\ x \in held'[home'[x]]
      <3>1. CASE x = s
        BY <1>1, <1>4, <3>1
      <3>2. CASE x # s
        <4>1. home[x] \in inboxes /\ x \in held[home[x]] /\ home'[x] = home[x] /\ home[x] \in Subs
          BY <1>0, <1>4, <2>5, <3>2 DEF PlaceInv, Types
        <4>2. QED
          BY <1>1, <1>4, <1>5, <4>1
      <3>3. QED
        BY <3>1, <3>2
    <2>6. ASSUME NEW t \in Subs, NEW x \in held'[t] PROVE sub'[x] = "held" /\ home'[x] = t
      <3>1. CASE t = s
        BY <1>4, <2>6, <3>1
      <3>2. CASE t # s
        <4>1. x \in held[t] /\ x \in Subs /\ x # s
          BY <1>0, <1>4, <1>5, <2>6, <3>2 DEF Types
        <4>2. QED
          BY <1>0, <1>4, <4>1 DEF PlaceInv
      <3>3. QED
        BY <3>1, <3>2
    <2>7. \A t \in inboxes' : t \in Afloat'
      BY <1>0, <1>1, <1>3 DEF PlaceInv, Afloat
    <2>8. ASSUME NEW t \in inboxes', Unstarted(t)' PROVE \E x \in Subs : held'[t] = {x}
      <3>1. CASE t = s
        BY <1>4, <3>1
      <3>2. CASE t # s
        <4>1. t \in inboxes /\ t \in Subs /\ Unstarted(t)
          BY <1>0, <1>1, <1>3, <2>8, <3>2 DEF Unstarted, Types
        <4>2. QED
          BY <1>0, <1>4, <3>2, <4>1 DEF PlaceInv
      <3>3. QED
        BY <3>1, <3>2
    <2>9. QED
      BY <2>1, <2>2, <2>3, <2>4, <2>5, <2>6, <2>7, <2>8 DEF PlaceInv
  <1>9. CapInv'
    BY <1>0, <1>1, <1>4, CapGrows, InboxAssumption
  <1>10. DoneInv'
    <2>1. cur # s
      BY <1>3
    <2>2. \A x \in Subs : sub'[x] # "lost"
      BY <1>0, <1>4 DEF DoneInv
    <2>3. cur \in inboxes => cur \in Subs
      BY <1>0 DEF Types
    <2>4. QED
      BY <1>0, <1>1, <1>4, <2>1, <2>2, <2>3 DEF DoneInv, Empty
  <1>11. ConsInv'
    <2>0. Constrained \subseteq Subs /\ NoTurn \notin Subs
      BY InboxAssumption DEF Items
    <2>1. \A t \in Subs : pol'[t] = 0 => pol[t] = 0
      BY <1>3 DEF PolSteady
    <2>2. ASSUME NEW t \in Subs, cons'[t] # {} PROVE t \in ops'
      <3>1. CASE t = s
        <4>1. Waits(s, cons')
          BY <2>2, <3>1 DEF Waits
        <4>2. s \in queue' => FALSE
          <5>1. s \in ops \cup {s} /\ s \notin queue /\ opid'[s] \in Nat
            BY <1>2, <1>3
          <5>2. Drive(ops \cup {s}, queue, opid', gen, cons')
            BY <1>1
          <5>3. QED
            BY <4>1, <5>1, <5>2, DriveHolds
        <4>3. QED
          BY <1>3, <3>1, <4>2
      <3>2. CASE t # s
        <4>1. t \in ops /\ cons[t] # {}
          BY <1>0, <1>4, <2>2, <3>2 DEF ConsInv
        <4>2. t \in queue' => pol'[t] # 0
          BY <1>3 DEF PolInv, PolOver
        <4>3. t \notin queue'
          <5>1. t \notin queue
            BY <1>0, <4>1 DEF IdInv, Ordered, Types
          <5>2. t \in Items /\ opid'[t] \in Nat
            BY <1>3 DEF Items
          <5>3. t \in ops \cup {s} /\ Waits(t, cons')
            BY <2>2, <4>1 DEF Waits
          <5>4. Drive(ops \cup {s}, queue, opid', gen, cons')
            BY <1>1
          <5>5. QED
            BY <5>1, <5>2, <5>3, <5>4, DriveHolds
        <4>4. QED
          BY <1>3, <4>1, <4>3
      <3>3. QED
        BY <3>1, <3>2
    <2>3. ASSUME NEW t \in Subs, NEW x \in cons'[t] PROVE home'[x] = t
      <3>1. CASE t = s
        BY <1>4, <2>3, <3>1
      <3>2. CASE t # s
        <4>1. x \in cons[t] /\ x \in Subs /\ x # s
          BY <1>0, <1>4, <1>5, <2>3, <3>2 DEF Types
        <4>2. QED
          BY <1>0, <1>4, <4>1 DEF ConsInv
      <3>3. QED
        BY <3>1, <3>2
    <2>4. ASSUME NEW x \in Constrained, sub'[x] \in {"pending", "held"}
          PROVE  \/ x \in cons'[home'[x]]
                 \/ passed'[x] = pol'[home'[x]] /\ pol'[home'[x]] # 0
      <3>1. CASE x = s
        BY <1>4, <3>1, <2>4
      <3>2. CASE x # s
        <4>1. /\ x \in Subs /\ sub[x] \in {"pending", "held"} /\ home'[x] = home[x] /\ home[x] \in Subs
              /\ home[x] \in inboxes
          BY <1>0, <1>4, <2>0, <2>4, <3>2 DEF PlaceInv, Types
        <4>2. home[x] # s /\ passed' = passed
          BY <1>1, <1>5, <4>1
        <4>3. \/ x \in cons[home[x]]
              \/ passed[x] = pol[home[x]] /\ pol[home[x]] # 0
          BY <1>0, <2>4, <4>1 DEF ConsInv
        <4>4. QED
          BY <1>3, <1>4, <4>1, <4>2, <4>3 DEF PolSteady
      <3>3. QED
        BY <3>1, <3>2
    <2>5. ASSUME NEW x \in Subs, x \in SeqSet(hist)
          PROVE  /\ home'[x] \in Subs \ ops' /\ pol'[home'[x]] # 0
                 /\ x \in Constrained => passed'[x] = pol'[home'[x]]
      <3>1. /\ home[x] \in Subs \ ops /\ pol[home[x]] # 0
            /\ x \in Constrained => passed[x] = pol[home[x]]
        BY <1>0, <2>5 DEF ConsInv
      <3>2. x # s /\ home'[x] = home[x] /\ passed'[x] = passed[x]
        BY <1>1, <1>4, <1>5, <2>5
      <3>3. home[x] # s
        BY <1>0, <1>2, <2>0, <3>1 DEF PolInv, PolOver
      <3>4. pol'[home[x]] = pol[home[x]]
        BY <1>3, <3>1 DEF PolSteady
      <3>5. QED
        BY <1>3, <3>1, <3>2, <3>3, <3>4
    <2>6. ASSUME NEW x \in Subs, sub'[x] = "checking"
          PROVE  chk'[x].turn \in Subs /\ chk'[x].policy # 0 /\ pol'[chk'[x].turn] = chk'[x].policy
      <3>1. sub[x] = "checking" /\ chk' = chk
        BY <1>1, <1>4, <2>6
      <3>2. chk[x].turn \in Subs /\ chk[x].policy # 0 /\ pol[chk[x].turn] = chk[x].policy
        BY <1>0, <3>1 DEF ConsInv
      <3>3. QED
        BY <1>3, <3>1, <3>2 DEF PolSteady
    <2>7. hist' = hist
      BY <1>1
    <2>8. QED
      BY <2>2, <2>3, <2>4, <2>5, <2>6, <2>7 DEF ConsInv
  <1>12. ~Placed(s) /\ OpOf(s)' = s /\ s \notin Insiders
    <2>1. s \notin Configs /\ s \notin Insiders
      BY InboxAssumption DEF Insiders
    <2>2. QED
      BY <1>1, <1>4, <1>5, <2>1 DEF Placed, Plain, OpOf, Control
  <1>13. OrderInv'
    <2>1. \A x \in Items : x # s => (Control(x)' => Control(x))
      BY <1>1, <1>3 DEF Control, Afloat
    <2>2. \A u : u # s => (Unstarted(u)' => Unstarted(u))
      BY <1>1, <1>3 DEF Unstarted
    <2>3. \A x \in Subs : sub[x] = "held" => home[x] # s
      BY <1>0, <1>5 DEF PlaceInv
    <2>4. \A x \in Items : x # s => (Placed(x)' => Placed(x))
      <3>1. Plain' = Plain
        BY <1>1 DEF Plain, Insiders, Accepts
      <3>2. QED
        BY <1>1, <1>4, <2>1, <3>1 DEF Placed
    <2>5. \A x \in Items : x # s => (Coming(x)' => Coming(x))
      BY <1>1, <1>4, <2>1, <2>2, <2>3 DEF Coming
    <2>6. \A x \in Items : Placed(x) => OpOf(x)' = OpOf(x)
      BY <1>4, <1>12 DEF OpOf
    <2>7. \A x \in Items : Placed(x) => OpOf(x) \in Items /\ OpOf(x) # s /\ opid[OpOf(x)] <= nextOp
      BY <1>0, <1>2 DEF OrderInv, IdInv
    <2>8. ASSUME NEW x \in Items, Placed(x)
          PROVE  opid'[OpOf(x)] = opid[OpOf(x)] /\ opid[OpOf(x)] <= opid'[s]
      <3>1. OpOf(x) \in Items /\ OpOf(x) # s /\ opid[OpOf(x)] <= nextOp /\ opid[OpOf(x)] \in Nat
        BY <1>0, <2>7, <2>8 DEF Types
      <3>2. QED
        BY <1>3, <3>1
    <2>9. ASSUME NEW x \in Plain, NEW i \in ops' \cup queue' PROVE opid[OpOf(x)] < opid'[i]
      <3>1. x \in Items /\ Placed(x)
        BY <1>0, SeqSetOf DEF Types, Placed, Plain
      <3>2. opid[OpOf(x)] <= nextOp /\ opid[OpOf(x)] \in Nat
        BY <1>0, <2>7, <3>1 DEF Types
      <3>3. CASE i = s
        BY <1>3, <3>2, <3>3
      <3>4. CASE i # s
        <4>1. i \in ops \cup queue /\ opid'[i] = opid[i]
          BY <1>3, <3>4
        <4>2. QED
          BY <1>0, <4>1 DEF OrderInv
      <3>5. QED
        BY <3>3, <3>4
    <2>10. cur # NoTurn => opid'[cur] = opid[cur]
      BY <1>0, <1>3 DEF Types
    <2>11. opid'[s] # 0
      BY <1>3
    <2>12. ASSUME NEW x \in Insiders PROVE opid'[x] # 0 /\ x \notin Afloat'
      <3>1. x \in Items /\ x # s /\ opid[x] # 0 /\ x \notin Afloat
        BY <1>0, <1>12, InboxAssumption DEF OrderInv, Insiders, Items
      <3>2. QED
        BY <1>1, <1>3, <3>1 DEF Afloat
    <2>13. \A y \in Subs : y # s => home'[y] = home[y]
      BY <1>4
    <2>14. /\ Types /\ OrderInv /\ s \in Items /\ ~Placed(s) /\ Accepts(s) /\ UNCHANGED <<hist, cur>>
           /\ opid' \in [Items -> Nat] /\ OpOf(s)' = s /\ s \notin Insiders
      BY <1>0, <1>1, <1>2, <1>3, <1>12
    <2>15. QED
      BY <2>4, <2>5, <2>6, <2>8, <2>9, <2>10, <2>11, <2>12, <2>13, <2>14, OrderAccepts
  <1>14. RiseInv'
    <2>1. \A x \in Items : x # s => acc'[x] = acc[x]
      BY <1>0, <1>1 DEF Accepts, Types
    <2>2. HistInv'
      BY <1>0, <1>1, <1>2, <1>4, <1>5, HistAccepts DEF RiseInv
    <2>3. \A u \in Subs : \A y \in SeqSet(pend[u]) : y \in Items /\ y # s
      BY <1>0, <1>5, SeqSetOf DEF Types, Items
    <2>4. ASSUME NEW u \in Subs PROVE Rising(acc', pend[u])
      BY <1>0, <2>1, <2>3, RisingSame DEF RiseInv
    <2>5. ASSUME NEW u \in Subs, NEW x \in held'[u], NEW y \in SeqSet(pend[u]), Unstarted(u)'
          PROVE  acc'[x] < acc'[y]
      <3>1. CASE u = s
        <4>1. home[y] = s /\ sub[y] = "pending" /\ y \in Subs
          BY <1>0, <3>1, SeqSetOf DEF PlaceInv, Types
        <4>2. s \in inboxes
          BY <1>0, <4>1 DEF PlaceInv
        <4>3. QED
          BY <1>5, <4>2
      <3>2. CASE u # s
        <4>1. x \in held[u] /\ x \in Subs /\ x # s /\ Unstarted(u)
          <5>1. held'[u] = held[u] /\ held[u] \subseteq Subs
            BY <1>0, <1>1, <3>2 DEF Types
          <5>2. x \in held[u] /\ x \in Subs
            BY <2>5, <5>1
          <5>3. x # s
            BY <1>0, <1>4, <1>5, <5>2 DEF PlaceInv
          <5>4. Unstarted(u)
            BY <1>1, <1>3, <2>5, <3>2 DEF Unstarted
          <5>5. QED
            BY <5>2, <5>3, <5>4
        <4>2. acc[x] < acc[y]
          BY <1>0, <4>1 DEF RiseInv
        <4>3. QED
          BY <2>1, <2>3, <4>1, <4>2 DEF Items
      <3>3. QED
        BY <3>1, <3>2
    <2>6. QED
      BY <1>1, <2>2, <2>4, <2>5 DEF RiseInv
  <1>15. QED
    BY <1>3, <1>6, <1>7, <1>8, <1>9, <1>10, <1>11, <1>13, <1>14 DEF InboxInv

LEMMA EnqueueKeeps ==
    ASSUME InboxInv, NEW z \in Controls \cup Configs, Enqueue(z) PROVE InboxInv'
  <1>0. Types /\ IdInv /\ PolInv /\ PlaceInv /\ CapInv /\ DoneInv /\ ConsInv /\ OrderInv /\ RiseInv
    BY DEF InboxInv
  <1>1. /\ opid[z] = 0 /\ nextOp' = nextOp + 1 /\ opid' = [opid EXCEPT ![z] = nextOp + 1]
        /\ Drive(ops \cup {z}, queue, opid', gen, cons)
        /\ Accepts(z)
        /\ UNCHANGED <<sub, home, passed, chk, inboxes, openIn, pend, held, cons, gen, confs, open,
                       cur, bpc, cut, stale, done, reqs, owed, hist, cuts>>
    BY DEF Enqueue, subVars, runVars
  <1>2. z \in Items /\ z \notin Subs /\ z # NoTurn
    BY InboxAssumption DEF Items
  <1>3. /\ opid' \in [Items -> Nat] /\ opid'[z] = nextOp + 1 /\ nextOp \in Nat
        /\ \A i \in Items : i # z => opid'[i] = opid[i]
        /\ \A i \in Items : opid'[i] <= nextOp'
        /\ Injective(opid')
        /\ Ordered(ops', queue', opid', cur')
        /\ PolInv' /\ PolSteady
        /\ ops' \cup queue' = ops \cup queue \cup {z} /\ ops' \subseteq ops \cup {z}
        /\ z \notin ops \cup queue \cup {cur}
        /\ ops' \subseteq Items /\ queue' \subseteq Items /\ pol' \in [Subs \cup Compactions -> Nat]
    BY <1>1, <1>2, NewOp
  <1>4. \A t \in Subs : (t \in ops' \cup queue' => t \in ops \cup queue) /\ (Unstarted(t)' => Unstarted(t))
    BY <1>1, <1>2, <1>3 DEF Unstarted
  <1>5. \A t \in Subs : t \in ops /\ cons[t] # {} => t \in ops'
    <2> SUFFICES ASSUME NEW t \in Subs, t \in ops, cons[t] # {} PROVE t \in ops'
      OBVIOUS
    <2>1. t \in ops \cup {z} /\ Waits(t, cons) /\ opid'[t] \in Nat
      BY <1>3 DEF Items, Waits
    <2>2. t \notin queue
      <3>1. t \in Items /\ opid[t] \in Nat
        BY <1>0 DEF Types, Items
      <3>2. QED
        BY <1>0, <3>1 DEF IdInv, Ordered
    <2>3. Drive(ops \cup {z}, queue, opid', gen, cons)
      BY <1>1
    <2>4. QED
      BY <2>1, <2>2, <2>3, DriveHolds
  <1>6. Types'
    <2>1. acc' \in [Items -> Nat] /\ accepted' \in Nat /\ inside' = inside /\ nextOp' \in Nat
      BY <1>0, <1>1, <1>2, <1>3 DEF Types, Accepts
    <2>2. QED
      BY <1>0, <1>1, <1>3, <2>1 DEF Types
  <1>7. IdInv'
    <2>1. \A x \in Subs : sub'[x] \in {"new", "checking", "refused"} => opid'[x] = 0
      BY <1>0, <1>1, <1>2, <1>3 DEF IdInv, Items
    <2>2. /\ bpc' = "idle" <=> cur' = NoTurn
          /\ cur' \notin Subs => bpc' \in {"idle", "popped"}
      BY <1>0, <1>1 DEF IdInv
    <2>3. QED
      BY <1>3, <2>1, <2>2 DEF IdInv, Injective
  <1>8. PlaceInv'
    <2>1. \A t \in inboxes : t \in Subs /\ t \in Afloat'
      BY <1>0, <1>1, <1>3 DEF PlaceInv, Afloat, Types
    <2>2. \A i \in Items : opid[i] # 0 => opid'[i] # 0
      BY <1>1, <1>3
    <2>3. QED
      BY <1>0, <1>1, <1>4, <2>1, <2>2, PlaceKept
  <1>9. CapInv' /\ DoneInv'
    BY <1>0, <1>1 DEF CapInv, Outs, DoneInv, Empty
  <1>10. ConsInv'
    <2>1. \A t \in Subs : cons'[t] \subseteq cons[t] /\ (cons'[t] # {} => t \in ops')
      BY <1>0, <1>1, <1>5 DEF ConsInv
    <2>2. \A t \in Subs : opid[t] # 0 /\ t \in ops' => t \in ops
      BY <1>2, <1>3
    <2>3. \A t \in Subs : pol[t] # 0 => pol'[t] = pol[t]
      BY <1>3 DEF PolSteady
    <2>4. QED
      BY <1>0, <1>1, <2>1, <2>2, <2>3, ConsKept, InboxAssumption
  <1>11. ~Placed(z) /\ OpOf(z)' = z /\ z \notin Insiders /\ z \notin SeqSet(hist)
    <2>a. z \notin Insiders
      BY <1>0, <1>1 DEF OrderInv
    <2>b. z \notin Plain
      BY <1>0, <1>1, <1>2 DEF OrderInv, Placed, OpOf
    <2>1. z \notin SeqSet(hist)
      BY <2>a, <2>b DEF Plain
    <2>2. ~(z \in Configs /\ confs[z] # 0)
      BY <1>0, <1>1 DEF PolInv, PolOver
    <2>3. QED
      BY <1>2, <1>3, <2>a, <2>1, <2>2 DEF Placed, Plain, OpOf, Control, Afloat
  <1>12. OrderInv'
    <2>1. \A x \in Items : x # z => (Control(x)' => Control(x))
      BY <1>1, <1>3 DEF Control, Afloat
    <2>2. \A x \in Items : x # z => (Placed(x)' => Placed(x))
      <3>1. Plain' = Plain
        BY <1>1 DEF Plain, Insiders, Accepts
      <3>2. QED
        BY <1>1, <2>1, <3>1 DEF Placed
    <2>3. \A x \in Subs : sub[x] = "held" => home[x] \in Subs
      BY <1>0 DEF PlaceInv, Types
    <2>4. \A x \in Items : x # z => (Coming(x)' => Coming(x))
      BY <1>1, <1>4, <2>1, <2>3 DEF Coming
    <2>5. \A x : OpOf(x)' = OpOf(x)
      BY <1>1 DEF OpOf
    <2>6. ASSUME NEW x \in Items, Placed(x)
          PROVE  opid'[OpOf(x)] = opid[OpOf(x)] /\ opid[OpOf(x)] <= opid'[z]
      <3>1. OpOf(x) \in Items /\ OpOf(x) # z /\ opid[OpOf(x)] <= nextOp /\ opid[OpOf(x)] \in Nat
        BY <1>0, <1>1, <2>6 DEF OrderInv, IdInv, Types
      <3>2. QED
        BY <1>3, <3>1
    <2>7. ASSUME NEW x \in Plain, NEW i \in ops' \cup queue' PROVE opid[OpOf(x)] < opid'[i]
      <3>1. x \in Items /\ Placed(x)
        BY <1>0, SeqSetOf DEF Types, Placed, Plain
      <3>2. opid[OpOf(x)] <= nextOp /\ opid[OpOf(x)] \in Nat
        BY <1>0, <3>1 DEF OrderInv, IdInv, Types
      <3>3. CASE i = z
        BY <1>3, <3>2, <3>3
      <3>4. CASE i # z
        <4>1. i \in ops \cup queue /\ opid'[i] = opid[i]
          BY <1>3, <3>4
        <4>2. QED
          BY <1>0, <4>1 DEF OrderInv
      <3>5. QED
        BY <3>3, <3>4
    <2>8. cur # NoTurn => opid'[cur] = opid[cur]
      BY <1>0, <1>3 DEF Types
    <2>9. opid'[z] # 0
      BY <1>3
    <2>10. ASSUME NEW x \in Insiders PROVE opid'[x] # 0 /\ x \notin Afloat'
      <3>1. x \in Items /\ x # z /\ opid[x] # 0 /\ x \notin Afloat
        BY <1>0, <1>11, InboxAssumption DEF OrderInv, Insiders, Items
      <3>2. QED
        BY <1>1, <1>3, <3>1 DEF Afloat
    <2>11. /\ Types /\ OrderInv /\ z \in Items /\ ~Placed(z) /\ Accepts(z) /\ UNCHANGED <<hist, cur>>
           /\ opid' \in [Items -> Nat] /\ OpOf(z)' = z /\ z \notin Insiders
           /\ \A y \in Subs : home'[y] = home[y]
      BY <1>0, <1>1, <1>2, <1>3, <1>11
    <2>12. QED
      BY <2>2, <2>4, <2>5, <2>6, <2>7, <2>8, <2>9, <2>10, <2>11, OrderAccepts
  <1>13. RiseInv'
    <2>1. \A x \in Items : x # z => acc'[x] = acc[x]
      BY <1>0, <1>1 DEF Accepts, Types
    <2>3. HistInv'
      BY <1>0, <1>1, <1>2, <1>11, HistAccepts DEF RiseInv
    <2>4. \A u \in Subs : (\A y \in SeqSet(pend[u]) : y \in Subs) /\ (\A y \in held[u] : y \in Subs)
      BY <1>0, SeqSetOf DEF Types
    <2>5. \A y \in Subs : acc'[y] = acc[y]
      BY <1>2, <2>1 DEF Items
    <2>6. \A u \in Subs : Rising(acc', pend[u])
      BY <1>0, <2>4, <2>5, RisingSame DEF RiseInv
    <2>7. ASSUME NEW u \in Subs, NEW x \in held[u], NEW y \in SeqSet(pend[u]), Unstarted(u)'
          PROVE  acc'[x] < acc'[y]
      <3>1. Unstarted(u)
        BY <1>4, <2>7
      <3>2. acc[x] < acc[y]
        BY <1>0, <3>1 DEF RiseInv
      <3>3. QED
        BY <2>4, <2>5, <3>2
    <2>8. QED
      BY <1>1, <2>3, <2>6, <2>7 DEF RiseInv
  <1>14. QED
    BY <1>3, <1>6, <1>7, <1>8, <1>9, <1>10, <1>12, <1>13 DEF InboxInv

\* The front of the operations moves; submissions and inboxes stay.
LEMMA FrontMoves ==
    ASSUME InboxInv, Types', PolInv', PolSteady, Ordered(ops', queue', opid, cur),
           ops' \subseteq ops, \A t \in Subs : t \in ops' \cup queue' <=> t \in ops \cup queue,
           \A i \in ops' \cup queue' : i \in ops \cup queue,
           \A x \in Configs : confs'[x] # 0 => confs[x] # 0 \/ x \in ops,
           \A t \in Subs : cons'[t] \subseteq cons[t] /\ (cons'[t] # {} => t \in ops'),
           \A s \in Subs : sub[s] \in {"pending", "held"} /\ s \in cons[home[s]] =>
              \/ s \in cons'[home[s]]
              \/ passed'[s] = pol'[home[s]] /\ pol'[home[s]] # 0,
           \A s \in Subs : passed'[s] = passed[s] \/ s \in cons[home[s]],
           UNCHANGED <<sub, home, chk, inboxes, openIn, pend, held, opid, nextOp, open,
                       runVars, accVars, hist, cuts>>
    PROVE  InboxInv'
  <1>0. Types /\ IdInv /\ PolInv /\ PlaceInv /\ CapInv /\ DoneInv /\ ConsInv /\ OrderInv /\ RiseInv
    BY DEF InboxInv
  <1>1. UNCHANGED <<sub, home, chk, inboxes, openIn, pend, held, opid, nextOp, open,
                    cur, bpc, cut, stale, done, reqs, owed, acc, accepted, inside, hist, cuts>>
    BY DEF runVars, accVars
  <1>2. /\ \A t \in Subs : Unstarted(t)' => Unstarted(t)
        /\ \A t \in Subs : t \in Afloat => t \in Afloat'
    BY <1>1 DEF Unstarted, Afloat
  <1>3. IdInv'
    BY <1>0, <1>1, IdStep DEF IdInv
  <1>4. PlaceInv'
    BY <1>0, <1>1, <1>2, PlaceKept DEF PlaceInv, Types
  <1>5. CapInv' /\ DoneInv'
    BY <1>0, <1>1 DEF CapInv, Outs, DoneInv, Empty
  <1>6. ConsInv'
    <2>1. \A t \in Subs : pol[t] # 0 => pol'[t] = pol[t]
      BY DEF PolSteady
    <2>2. QED
      BY <1>0, <1>1, <2>1, ConsKept, InboxAssumption
  <1>7. OrderInv'
    <2>1. \A s \in Subs : sub[s] = "held" => home[s] \in Subs
      BY <1>0 DEF PlaceInv, Types
    <2>2. ops' \cup queue' \subseteq ops \cup queue
      OBVIOUS
    <2>3. \A s \in Subs : sub'[s] = "held" =>
             \/ sub[s] = "pending"
             \/ sub[s] = "held" /\ (Unstarted(home[s])' => Unstarted(home[s]))
      BY <1>1, <1>2, <2>1
    <2>4. QED
      BY <1>0, <1>1, <2>2, <2>3, OrderMoves
  <1>8. RiseInv'
    BY <1>0, <1>1, <1>2, RiseKept
  <1>9. QED
    BY <1>3, <1>4, <1>5, <1>6, <1>7, <1>8 DEF InboxInv

LEMMA FirstIsLess ==
    ASSUME InboxInv, NEW c, First(c)
    PROVE  c \in ops /\ c \in Items /\ opid[c] # 0 /\ \A i \in ops : i # c => opid[c] < opid[i]
  <1>1. Types /\ IdInv
    BY DEF InboxInv
  <1>2. c \in ops /\ c \in Items /\ opid[c] \in Nat /\ opid[c] # 0 /\ \A i \in ops : opid[c] <= opid[i]
    BY <1>1 DEF First, Types, IdInv, Ordered
  <1>3. ASSUME NEW i \in ops, i # c PROVE opid[c] < opid[i]
    <2>1. i \in Items /\ opid[i] \in Nat /\ opid[i] # opid[c] /\ opid[c] <= opid[i]
      BY <1>1, <1>2, <1>3 DEF IdInv, Types
    <2>2. QED
      BY <1>2, <2>1
  <1>4. QED
    BY <1>2, <1>3

LEMMA ConfigEndsKeeps == ASSUME InboxInv, ConfigEnds PROVE InboxInv'
  <1>0. Types /\ IdInv /\ PolInv /\ PlaceInv /\ ConsInv
    BY DEF InboxInv
  <1>1. PICK c \in Configs :
           /\ First(c)
           /\ \/ gen' = gen + 1 /\ confs' = [confs EXCEPT ![c] = gen + 1]
              \/ UNCHANGED <<gen, confs>>
           /\ Drive(ops \ {c}, queue, opid, gen', cons)
    BY DEF ConfigEnds
  <1>2. UNCHANGED <<sub, home, passed, chk, inboxes, openIn, pend, held, cons, opid, nextOp, open,
                    cur, bpc, cut, stale, done, reqs, owed, acc, accepted, inside, hist, cuts>>
    BY DEF ConfigEnds, subVars, runVars, accVars
  <1>3. c \in ops /\ c \in Items /\ opid[c] # 0 /\ \A i \in ops : i # c => opid[c] < opid[i]
    BY <1>1, FirstIsLess
  <1>4. /\ gen \in Nat /\ gen' \in Nat /\ gen' # 0 /\ gen <= gen' /\ confs' \in [Configs -> Nat]
        /\ \A x \in Configs : x # c => confs'[x] = confs[x]
        /\ \A x \in Configs : confs[x] \in Nat
        /\ confs'[c] = confs[c] \/ (confs'[c] = gen + 1 /\ gen' = gen + 1)
    <2>1. gen \in Nat /\ gen # 0 /\ confs \in [Configs -> Nat]
      BY <1>0 DEF Types
    <2>2. CASE gen' = gen + 1 /\ confs' = [confs EXCEPT ![c] = gen + 1]
      BY <2>1, <2>2
    <2>3. CASE UNCHANGED <<gen, confs>>
      BY <2>1, <2>3
    <2>4. QED
      BY <1>1, <2>2, <2>3
  <1>5. PolOver(ops, queue, opid, gen, confs, cur) /\ \A t \in Subs : t # c /\ t \in Items /\ opid[t] \in Nat /\ pol[t] \in Nat
    BY <1>0, InboxAssumption DEF PolInv, Types, Items
  <1>6. \A t \in Subs : pol[t] # 0 => opid[t] < opid[c]
    BY <1>3, <1>5 DEF PolOver
  <1>7. opid \in [Items -> Nat] /\ ops \ {c} \subseteq Items /\ queue \subseteq Items /\ opid[c] \in Nat
    BY <1>0, <1>3 DEF Types
  <1>8. \A t \in Subs \cap (ops \ {c}) : pol[t] = 0
    <2> SUFFICES ASSUME NEW t \in Subs, t \in ops, t # c, pol[t] # 0 PROVE FALSE
      OBVIOUS
    <2>1. opid[t] < opid[c] /\ opid[c] < opid[t] /\ opid[t] \in Nat
      BY <1>3, <1>5, <1>6
    <2>2. QED
      BY <1>7, <2>1
  <1>9. PolOver(ops \ {c}, queue, opid, gen', confs', cur)
    <2>1. \A t \in Subs : pol[t] # 0 => opid[t] # 0 /\ pol[t] <= gen'
      BY <1>4, <1>5 DEF PolOver
    <2>2. \A t \in Subs : t \in queue \/ t = cur => pol[t] # 0
      BY <1>5 DEF PolOver
    <2>3. \A t \in Subs, i \in ops \ {c} : pol[t] # 0 /\ i # t => opid[t] < opid[i]
      BY <1>5 DEF PolOver
    <2>4. \A x \in Configs : confs'[x] <= gen' /\ (confs'[x] # 0 => opid[x] # 0 /\ x \notin ops \ {c})
      BY <1>3, <1>4, <1>5 DEF PolOver
    <2>5. \A x \in Configs, i \in ops \ {c} : confs'[x] # 0 => opid[x] < opid[i]
      BY <1>3, <1>4, <1>5 DEF PolOver
    <2>6. ASSUME NEW x \in Configs, NEW t \in Subs, confs'[x] # 0, pol[t] # 0
          PROVE  confs'[x] <= pol[t] <=> opid[x] < opid[t]
      <3>1. CASE confs'[x] = confs[x]
        BY <1>5, <2>6, <3>1 DEF PolOver
      <3>2. CASE x = c /\ confs'[c] = gen + 1
        <4>1. pol[t] <= gen /\ opid[t] < opid[c] /\ pol[t] \in Nat /\ opid[t] \in Nat
          BY <1>5, <1>6, <2>6 DEF PolOver
        <4>2. QED
          BY <1>4, <1>7, <3>2, <4>1
      <3>3. QED
        BY <1>4, <3>1, <3>2
    <2>7. QED
      BY <1>8, <2>1, <2>2, <2>3, <2>4, <2>5, <2>6 DEF PolOver
  <1>10. Ordered(ops \ {c}, queue, opid, cur)
    BY <1>0, OrderedLess DEF IdInv
  <1>11. \A i, j \in Items : opid[i] = opid[j] /\ opid[i] # 0 => i = j
    BY <1>0 DEF IdInv
  <1>12. Drive(ops \ {c}, queue, opid, gen', cons) /\ opid' = opid /\ cur' = cur
    BY <1>1, <1>2
  <1>13. Ordered(ops', queue', opid, cur)
    BY <1>7, <1>10, <1>12, DriveOrders
  <1>14. PolInv' /\ \A t \in Subs : pol[t] # 0 => pol'[t] = pol[t]
    BY ONLY <1>0, <1>4, <1>7, <1>9, <1>10, <1>11, <1>12, DrivePolicies
  <1>15. /\ ops' \subseteq ops
         /\ \A i \in ops' \cup queue' : i \in ops \cup queue
         /\ \A t \in Subs : t \in ops' \cup queue' <=> t \in ops \cup queue
    BY <1>5, <1>12, DriveDoes
  <1>16. \A t \in Subs : t \in ops /\ cons[t] # {} => t \in ops'
    <2> SUFFICES ASSUME NEW t \in Subs, t \in ops, cons[t] # {} PROVE t \in ops'
      OBVIOUS
    <2>1. t \in ops \ {c} /\ Waits(t, cons) /\ opid[t] \in Nat
      BY <1>5 DEF Waits
    <2>2. t \notin queue
      BY <1>0, <2>1 DEF IdInv, Ordered
    <2>3. QED
      BY <1>12, <2>1, <2>2, DriveHolds
  <1>17. ops' \subseteq Items /\ queue' \subseteq Items /\ pol' \in [Subs \cup Compactions -> Nat]
    BY <1>0, <1>4, <1>7, <1>12, DriveTypes
  <1>18. Types'
    BY <1>0, <1>2, <1>4, <1>17 DEF Types
  <1>19. \A x \in Configs : confs'[x] # 0 => confs[x] # 0 \/ x \in ops
    BY <1>3, <1>4
  <1>20. \A t \in Subs : cons'[t] \subseteq cons[t] /\ (cons'[t] # {} => t \in ops')
    BY <1>0, <1>2, <1>16 DEF ConsInv
  <1>21. QED
    BY <1>2, <1>13, <1>14, <1>15, <1>18, <1>19, <1>20, FrontMoves DEF PolSteady, runVars, accVars

LEMMA MaterializeKeeps == ASSUME InboxInv, Materialize PROVE InboxInv'
  <1>0. Types /\ IdInv /\ PolInv /\ PlaceInv /\ ConsInv
    BY DEF InboxInv
  <1>1. PICK c \in Subs :
           /\ First(c)
           /\ passed' = [s \in Subs |-> IF s \in cons[c] THEN pol[c] ELSE passed[s]]
           /\ cons' = [cons EXCEPT ![c] = {}]
           /\ Drive(ops \ {c}, queue \cup {c}, opid, gen, cons)
    BY DEF Materialize
  <1>2. UNCHANGED <<sub, home, chk, inboxes, openIn, pend, held, opid, nextOp, gen, confs, open,
                    cur, bpc, cut, stale, done, reqs, owed, acc, accepted, inside, hist, cuts>>
    BY DEF Materialize, runVars, accVars
  <1>3. c \in ops /\ c \in Items /\ opid[c] # 0 /\ \A i \in ops : i # c => opid[c] < opid[i]
    BY <1>1, FirstIsLess
  <1>4. /\ gen \in Nat /\ gen # 0 /\ confs \in [Configs -> Nat] /\ opid \in [Items -> Nat]
        /\ ops \ {c} \subseteq Items /\ queue \cup {c} \subseteq Items
        /\ \A t \in Subs : t \in Items /\ opid[t] \in Nat
    BY <1>0, <1>3 DEF Types, Items
  <1>5. pol[c] = gen
    BY <1>0, <1>1 DEF PolInv
  <1>6. Ordered(ops \ {c}, queue \cup {c}, opid, cur)
    <2>1. Ordered(ops, queue, opid, cur) /\ c \notin Configs
      BY <1>0, InboxAssumption DEF IdInv
    <2>2. QED
      BY <1>3, <2>1 DEF Ordered
  <1>7. PolOver(ops \ {c}, queue \cup {c}, opid, gen, confs, cur)
    BY <1>0, <1>4, <1>5 DEF PolInv, PolOver
  <1>8. \A i, j \in Items : opid[i] = opid[j] /\ opid[i] # 0 => i = j
    BY <1>0 DEF IdInv
  <1>9. Drive(ops \ {c}, queue \cup {c}, opid, gen, cons) /\ opid' = opid /\ cur' = cur /\ gen' = gen /\ confs' = confs
    BY <1>1, <1>2
  <1>10. Ordered(ops', queue', opid, cur)
    BY <1>4, <1>6, <1>9, DriveOrders
  <1>11. PolInv' /\ \A t \in Subs : pol[t] # 0 => pol'[t] = pol[t]
    BY ONLY <1>0, <1>4, <1>6, <1>7, <1>8, <1>9, DrivePolicies
  <1>12. /\ ops' \subseteq ops
         /\ \A i \in ops' \cup queue' : i \in ops \cup queue
         /\ \A t \in Subs : t \in ops' \cup queue' <=> t \in ops \cup queue
    BY <1>3, <1>9, DriveDoes
  <1>13. \A t \in Subs : t \in ops /\ t # c /\ cons[t] # {} => t \in ops'
    <2> SUFFICES ASSUME NEW t \in Subs, t \in ops, t # c, cons[t] # {} PROVE t \in ops'
      OBVIOUS
    <2>1. t \in ops \ {c} /\ Waits(t, cons) /\ opid[t] \in Nat
      BY <1>4 DEF Waits
    <2>2. t \notin queue \cup {c}
      BY <1>0, <2>1 DEF IdInv, Ordered
    <2>3. QED
      BY <1>9, <2>1, <2>2, DriveHolds
  <1>14. /\ cons'[c] = {} /\ \A t \in Subs : t # c => cons'[t] = cons[t]
         /\ passed' \in [Subs -> Nat] /\ cons' \in [Subs -> SUBSET Subs]
         /\ \A s \in Subs : passed'[s] = IF s \in cons[c] THEN pol[c] ELSE passed[s]
    BY <1>0, <1>1 DEF Types
  <1>15. ops' \subseteq Items /\ queue' \subseteq Items /\ pol' \in [Subs \cup Compactions -> Nat]
    BY <1>0, <1>4, <1>9, DriveTypes
  <1>16. Types'
    BY <1>0, <1>2, <1>14, <1>15 DEF Types
  <1>17. \A t \in Subs : cons'[t] \subseteq cons[t] /\ (cons'[t] # {} => t \in ops')
    BY <1>0, <1>13, <1>14 DEF ConsInv
  <1>18. pol'[c] = pol[c] /\ pol[c] # 0
    BY <1>4, <1>5, <1>11
  <1>19. ASSUME NEW s \in Subs, sub[s] \in {"pending", "held"}, s \in cons[home[s]], s \notin cons'[home[s]]
         PROVE  passed'[s] = pol'[home[s]] /\ pol'[home[s]] # 0
    <2>1. home[s] = c
      <3>1. home[s] \in Subs
        BY <1>0, <1>19 DEF PlaceInv, Types
      <3>2. QED
        BY <1>14, <1>19, <3>1
    <2>2. QED
      BY <1>14, <1>18, <1>19, <2>1
  <1>20. \A s \in Subs : passed'[s] = passed[s] \/ s \in cons[home[s]]
    BY <1>0, <1>14 DEF ConsInv
  <1>21. \A x \in Configs : confs'[x] # 0 => confs[x] # 0 \/ x \in ops
    BY <1>2
  <1>22. QED
    BY <1>2, <1>10, <1>11, <1>12, <1>16, <1>17, <1>19, <1>20, <1>21, FrontMoves DEF PolSteady, runVars, accVars

-----------------------------------------------------------------------------
(* Turns that end.                                                         *)

LEMMA DropDoes ==
    ASSUME Types, PlaceInv, NEW T \in SUBSET Subs, NEW how, DropTurns(T, how), UNCHANGED home,
           how \notin {"dropped", "removed"} => \A s \in Subs : home[s] \in T => sub[s] \notin {"pending", "held"}
    PROVE  /\ sub' \in [Subs -> SubStates]
           /\ \A s \in Subs : IF home[s] \in T /\ sub[s] \in {"pending", "held"}
                             THEN sub'[s] \in {"dropped", "removed"} ELSE sub'[s] = sub[s]
           /\ inboxes' = inboxes \ T /\ openIn' = openIn \ T
           /\ pend' \in [Subs -> Seq(Subs)] /\ held' \in [Subs -> SUBSET Subs]
           /\ cons' \in [Subs -> SUBSET Subs]
           /\ \A t \in T : pend'[t] = <<>> /\ held'[t] = {} /\ cons'[t] = {}
           /\ \A t \in Subs \ T : pend'[t] = pend[t] /\ held'[t] = held[t] /\ cons'[t] = cons[t]
  <1>1. /\ sub' = [s \in Subs |-> IF home[s] \in T /\ s \in Live(home[s]) THEN how ELSE sub[s]]
        /\ inboxes' = inboxes \ T /\ openIn' = openIn \ T
        /\ pend' = [t \in Subs |-> IF t \in T THEN <<>> ELSE pend[t]]
        /\ held' = [t \in Subs |-> IF t \in T THEN {} ELSE held[t]]
        /\ cons' = [t \in Subs |-> IF t \in T THEN {} ELSE cons[t]]
    BY DEF DropTurns
  <1>2. \A s \in Subs : home[s] \in T => home[s] # NoTurn /\ sub[s] \notin {"new", "checking", "refused"}
    BY InboxAssumption DEF PlaceInv
  <1>3. \A s \in Subs : home[s] \in T => (s \in Live(home[s]) <=> sub[s] \in {"pending", "held"})
    BY <1>2 DEF Live, Settled, Types, SubStates
  <1>4. \A s \in Subs : IF home[s] \in T /\ sub[s] \in {"pending", "held"}
                       THEN sub'[s] \in {"dropped", "removed"} ELSE sub'[s] = sub[s]
    BY <1>1, <1>3
  <1>5. sub' \in [Subs -> SubStates]
    <2>1. \A s \in Subs : sub'[s] \in SubStates
      BY <1>4 DEF Types, SubStates, Settled
    <2>2. QED
      BY <1>1, <2>1
  <1>6. pend' \in [Subs -> Seq(Subs)]
    BY <1>1 DEF Types
  <1>7. held' \in [Subs -> SUBSET Subs] /\ cons' \in [Subs -> SUBSET Subs]
    BY <1>1 DEF Types
  <1>8. QED
    BY <1>1, <1>4, <1>5, <1>6, <1>7

LEMMA DropStep ==
    ASSUME InboxInv, NEW T \in SUBSET Subs, NEW how, DropTurns(T, how),
           how \notin {"dropped", "removed"} => \A s \in Subs : home[s] \in T => sub[s] \notin {"pending", "held"},
           UNCHANGED <<home, passed, chk, opid, nextOp, gen, confs, done, reqs, owed,
                       acc, accepted, inside, hist>>,
           open' \in BOOLEAN, cut' \in BOOLEAN /\ stale' \in BOOLEAN,
           UNCHANGED <<cur, bpc>> \/ (cur \in T /\ cur' = NoTurn /\ bpc' = "idle"),
           PolInv', PolSteady, pol' \in [Subs \cup Compactions -> Nat], Ordered(ops', queue', opid, cur'),
           ops' \subseteq ops, ops' \cup queue' \subseteq ops \cup queue,
           \A t \in Subs \ T : t \in ops => t \in ops' \cup queue',
           \A t \in Subs \ T : t \in ops /\ cons[t] # {} => t \in ops',
           \A t \in Subs \ T : t \in queue => t \in queue'
    PROVE  InboxInv'
  <1>0. Types /\ IdInv /\ PolInv /\ PlaceInv /\ CapInv /\ DoneInv /\ ConsInv /\ OrderInv /\ RiseInv
    BY DEF InboxInv
  <1>1. /\ sub' \in [Subs -> SubStates]
        /\ \A s \in Subs : IF home[s] \in T /\ sub[s] \in {"pending", "held"}
                          THEN sub'[s] \in {"dropped", "removed"} ELSE sub'[s] = sub[s]
        /\ inboxes' = inboxes \ T /\ openIn' = openIn \ T
        /\ pend' \in [Subs -> Seq(Subs)] /\ held' \in [Subs -> SUBSET Subs]
        /\ cons' \in [Subs -> SUBSET Subs]
        /\ \A t \in T : pend'[t] = <<>> /\ held'[t] = {} /\ cons'[t] = {}
        /\ \A t \in Subs \ T : pend'[t] = pend[t] /\ held'[t] = held[t] /\ cons'[t] = cons[t]
    BY <1>0, DropDoes
  <1>2. /\ cur' \in Items \cup {NoTurn} /\ bpc' \in BpcStates
        /\ bpc' = "idle" <=> cur' = NoTurn
        /\ cur' \notin Subs => bpc' \in {"idle", "popped"}
        /\ cur' = cur \/ cur' = NoTurn
    BY <1>0, InboxAssumption DEF Types, IdInv, BpcStates
  <1>3. Types'
    BY <1>0, <1>1, <1>2 DEF Types
  <1>4. IdInv'
    <2>1. \A s \in Subs : sub'[s] \in Outside => sub[s] \in Outside
      BY <1>1 DEF Outside
    <2>2. QED
      BY <1>0, <1>2, <2>1, IdStep
  <1>5. \A t \in Subs \ T : /\ Unstarted(t)' => Unstarted(t)
                            /\ t \in Afloat => t \in Afloat'
    <2> SUFFICES ASSUME NEW t \in Subs, t \notin T
                 PROVE  (Unstarted(t)' => Unstarted(t)) /\ (t \in Afloat => t \in Afloat')
      OBVIOUS
    <2>1. t # NoTurn
      BY InboxAssumption
    <2>2. CASE UNCHANGED <<cur, bpc>>
      BY <2>2 DEF Unstarted, Afloat
    <2>3. CASE cur \in T /\ cur' = NoTurn /\ bpc' = "idle"
      BY <2>1, <2>3 DEF Unstarted, Afloat
    <2>4. QED
      BY <2>2, <2>3
  <1>6. PlaceInv'
    <2>1. \A s \in Subs : (home[s] = NoTurn)' <=> sub'[s] \in {"new", "checking", "refused"}
      <3>1. \A s \in Subs : home[s] = NoTurn <=> sub[s] \in {"new", "checking", "refused"}
        BY <1>0 DEF PlaceInv
      <3>2. \A s \in Subs : \/ sub'[s] = sub[s]
                            \/ sub[s] \in {"pending", "held"} /\ sub'[s] \in {"dropped", "removed"}
        BY <1>1
      <3>3. home' = home
        OBVIOUS
      <3>4. QED
        BY ONLY <3>1, <3>2, <3>3
    <2>2. \A s \in Subs : home'[s] # NoTurn => opid'[home'[s]] # 0
      BY <1>0 DEF PlaceInv
    <2>3. ASSUME NEW s \in Subs, sub'[s] = "pending"
          PROVE  home'[s] \in inboxes' /\ s \in SeqSet(pend'[home'[s]])
      <3>1. sub[s] = "pending" /\ home[s] \notin T
        BY <1>1, <2>3
      <3>2. home[s] \in inboxes /\ s \in SeqSet(pend[home[s]]) /\ home[s] \in Subs
        BY <1>0, <3>1 DEF PlaceInv, Types
      <3>3. QED
        BY <1>1, <3>1, <3>2
    <2>4. ASSUME NEW t \in Subs, NEW s \in SeqSet(pend'[t]) PROVE sub'[s] = "pending" /\ home'[s] = t
      <3>1. t \notin T
        BY <1>1, <2>4, EmptySeqDoes
      <3>2. s \in SeqSet(pend[t]) /\ s \in Subs
        BY <1>0, <1>1, <2>4, <3>1, SeqSetOf DEF Types
      <3>3. sub[s] = "pending" /\ home[s] = t
        BY <1>0, <3>2 DEF PlaceInv
      <3>4. QED
        BY <1>1, <3>1, <3>2, <3>3
    <2>5. ASSUME NEW s \in Subs, sub'[s] = "held"
          PROVE  home'[s] \in inboxes' /\ s \in held'[home'[s]]
      <3>1. sub[s] = "held" /\ home[s] \notin T
        BY <1>1, <2>5
      <3>2. home[s] \in inboxes /\ s \in held[home[s]] /\ home[s] \in Subs
        BY <1>0, <3>1 DEF PlaceInv, Types
      <3>3. QED
        BY <1>1, <3>1, <3>2
    <2>6. ASSUME NEW t \in Subs, NEW s \in held'[t] PROVE sub'[s] = "held" /\ home'[s] = t
      <3>1. t \notin T
        BY <1>1, <2>6
      <3>2. s \in held[t] /\ s \in Subs
        BY <1>0, <1>1, <2>6, <3>1 DEF Types
      <3>3. sub[s] = "held" /\ home[s] = t
        BY <1>0, <3>2 DEF PlaceInv
      <3>4. QED
        BY <1>1, <3>1, <3>2, <3>3
    <2>7. ASSUME NEW t \in inboxes'
          PROVE  t \in Afloat' /\ (Unstarted(t)' => \E s \in Subs : held'[t] = {s})
      <3>1. t \in inboxes /\ t \in Subs \ T
        BY <1>0, <1>1, <2>7 DEF Types
      <3>2. t \in Afloat /\ (Unstarted(t) => \E s \in Subs : held[t] = {s})
        BY <1>0, <3>1 DEF PlaceInv
      <3>3. (t \in Afloat => t \in Afloat') /\ (Unstarted(t)' => Unstarted(t)) /\ held'[t] = held[t]
        BY <1>1, <1>5, <3>1
      <3>4. QED
        BY <3>2, <3>3
    <2>8. QED
      BY <2>1, <2>2, <2>3, <2>4, <2>5, <2>6, <2>7 DEF PlaceInv
  <1>7. CapInv'
    BY <1>0, <1>1, CapShrinks, InboxAssumption
  <1>8. DoneInv'
    <2>1. \A s \in Subs : sub'[s] # "lost"
      BY <1>0, <1>1 DEF DoneInv
    <2>2. CASE bpc' = "idle"
      BY <2>1, <2>2 DEF DoneInv
    <2>3. CASE UNCHANGED <<cur, bpc>>
      <3>1. cur \in inboxes' => /\ cur \in inboxes
                                /\ pend'[cur] = pend[cur] \/ pend'[cur] = <<>> \/ cur \in openIn
                                /\ held'[cur] \subseteq held[cur]
        BY <1>0, <1>1 DEF Types
      <3>2. cur \in openIn' => cur \in openIn
        BY <1>1
      <3>3. QED
        BY <1>0, <2>1, <2>3, <3>1, <3>2, DoneKept
    <2>4. QED
      BY <2>2, <2>3
  <1>9. ConsInv'
    <2>1. \A t \in Subs : pol[t] # 0 => pol'[t] = pol[t]
      BY DEF PolSteady
    <2>2. \A t \in Subs : cons'[t] \subseteq cons[t] /\ (cons'[t] # {} => t \in ops')
      BY <1>0, <1>1 DEF ConsInv
    <2>3. ASSUME NEW s \in Subs, sub'[s] \in {"pending", "held"}
          PROVE  /\ sub[s] \in {"pending", "held"}
                 /\ s \in cons[home[s]] => s \in cons'[home[s]]
      <3>1. sub[s] \in {"pending", "held"} /\ home[s] \notin T
        BY <1>1, <2>3
      <3>2. home[s] \in Subs
        BY <1>0, <3>1 DEF PlaceInv, Types
      <3>3. QED
        BY <1>1, <3>1, <3>2
    <2>4. \A s \in Subs : sub'[s] = "checking" => sub[s] = "checking" /\ chk'[s] = chk[s]
      BY <1>1
    <2>5. QED
      BY <1>0, <2>1, <2>2, <2>3, <2>4, ConsKept, InboxAssumption
  <1>10. OrderInv'
    <2>1. \A s \in Subs : sub'[s] = "pending" => sub[s] = "pending"
      BY <1>1
    <2>2. ASSUME NEW s \in Subs, sub'[s] = "held"
          PROVE  sub[s] = "held" /\ (Unstarted(home[s])' => Unstarted(home[s]))
      <3>1. sub[s] = "held" /\ home[s] \notin T
        BY <1>1, <2>2
      <3>2. home[s] \in Subs /\ home'[s] = home[s]
        BY <1>0, <3>1 DEF PlaceInv, Types
      <3>3. QED
        BY <1>5, <3>1, <3>2 DEF Unstarted
    <2>3. QED
      BY <1>0, <1>2, <2>1, <2>2, OrderMoves
  <1>11. RiseInv'
    BY <1>0, <1>1, <1>5, RiseKept
  <1>12. QED
    BY <1>3, <1>4, <1>6, <1>7, <1>8, <1>9, <1>10, <1>11 DEF InboxInv

\* Turns keep their places when others are taken out, unless one with nothing to
\* wait for moves up.
LEMMA DriveKeepsTurns ==
    ASSUME InboxInv, NEW T, NEW o \in SUBSET ops, NEW q \in SUBSET queue, Drive(o, q, opid, gen, cons),
           \A t \in Subs \ T : t \in ops => t \in o,
           \A t \in Subs \ T : t \in queue => t \in q
    PROVE  /\ \A t \in Subs \ T : t \in ops => t \in ops' \cup queue'
           /\ \A t \in Subs \ T : t \in ops /\ cons[t] # {} => t \in ops'
           /\ \A t \in Subs \ T : t \in queue => t \in queue'
  <1>0. Types /\ IdInv
    BY DEF InboxInv
  <1>1. ASSUME NEW t \in Subs \ T, t \in ops, cons[t] # {} PROVE t \in ops'
    <2>1. t \in o /\ Waits(t, cons)
      BY <1>1 DEF Waits
    <2>2. opid[t] \in Nat
      BY <1>0, <1>1 DEF Types, Items
    <2>3. t \notin q
      BY <1>0, <1>1, <2>2 DEF IdInv, Ordered
    <2>4. QED
      BY <2>1, <2>2, <2>3, DriveHolds
  <1>2. q \subseteq queue' /\ \A t \in o : t \in ops' \cup queue'
    BY DriveDoes
  <1>3. QED
    BY <1>1, <1>2

LEMMA AdmissionFailsKeeps == ASSUME InboxInv, AdmissionFails PROVE InboxInv'
  <1>1. PICK c \in Subs : First(c) /\ DropTurns({c}, "dropped") /\ Drive(ops \ {c}, queue, opid, gen, cons)
    BY DEF AdmissionFails
  <1>2. UNCHANGED <<home, passed, chk, opid, nextOp, gen, confs, open, cur, bpc, cut, stale, done, reqs,
                    owed, acc, accepted, inside, hist, cuts>>
    BY DEF AdmissionFails, runVars, accVars
  <1> DEFINE o == ops \ {c}
             T == {c}
  <1>3. o \in SUBSET ops /\ queue \in SUBSET queue /\ Drive(o, queue, opid, gen, cons) /\ T \in SUBSET Subs
    BY <1>1
  <1>4. open' \in BOOLEAN /\ cut' \in BOOLEAN /\ stale' \in BOOLEAN /\ ops \subseteq Items
    BY <1>2 DEF InboxInv, Types
  <1>5. /\ \A t \in Subs \ T : t \in ops => t \in o
        /\ \A t \in Subs \ T : t \in queue => t \in queue
    OBVIOUS
  <1> HIDE DEF o
  <1>6. /\ Ordered(ops', queue', opid, cur)
        /\ PolInv' /\ PolSteady
        /\ ops' \cup queue' = o \cup queue /\ ops' \subseteq o
        /\ pol' \in [Subs \cup Compactions -> Nat]
    BY <1>2, <1>3, LessOps
  <1>7. /\ \A t \in Subs \ T : t \in ops => t \in ops' \cup queue'
        /\ \A t \in Subs \ T : t \in ops /\ cons[t] # {} => t \in ops'
        /\ \A t \in Subs \ T : t \in queue => t \in queue'
    BY <1>3, <1>5, DriveKeepsTurns
  <1>8. DropTurns(T, "dropped")
    BY <1>1
  <1> HIDE DEF T
  <1>9. QED
    BY <1>2, <1>3, <1>4, <1>6, <1>7, <1>8, DropStep

LEMMA CancelTurnKeeps == ASSUME InboxInv, NEW c \in Subs, CancelTurn(c) PROVE InboxInv'
  <1>2. /\ UNCHANGED <<home, passed, chk, opid, nextOp, gen, confs, open, cur, bpc, done, reqs,
                       owed, acc, accepted, inside, hist>>
        /\ cut' = (cut \/ cur = c) /\ stale' = stale
    BY DEF CancelTurn, accVars
  <1> DEFINE o == ops \ {c}
             q == queue \ {c}
             T == {c}
  <1>3. o \in SUBSET ops /\ q \in SUBSET queue /\ Drive(o, q, opid, gen, cons) /\ T \in SUBSET Subs
    BY DEF CancelTurn
  <1>4. open' \in BOOLEAN /\ cut' \in BOOLEAN /\ stale' \in BOOLEAN
    BY <1>2 DEF InboxInv, Types
  <1>5. /\ \A t \in Subs \ T : t \in ops => t \in o
        /\ \A t \in Subs \ T : t \in queue => t \in q
    OBVIOUS
  <1>8. DropTurns(T, "dropped")
    BY DEF CancelTurn
  <1> HIDE DEF o, q, T
  <1>6. /\ Ordered(ops', queue', opid, cur)
        /\ PolInv' /\ PolSteady
        /\ ops' \cup queue' = o \cup q /\ ops' \subseteq o
        /\ pol' \in [Subs \cup Compactions -> Nat]
    BY <1>2, <1>3, LessOps
  <1>7. /\ \A t \in Subs \ T : t \in ops => t \in ops' \cup queue'
        /\ \A t \in Subs \ T : t \in ops /\ cons[t] # {} => t \in ops'
        /\ \A t \in Subs \ T : t \in queue => t \in queue'
    BY <1>3, <1>5, DriveKeepsTurns
  <1>9. QED
    BY <1>2, <1>3, <1>4, <1>6, <1>7, <1>8, DropStep

LEMMA CancelExistingKeeps == ASSUME InboxInv, CancelExisting PROVE InboxInv'
  <1>2. /\ UNCHANGED <<home, passed, chk, opid, nextOp, gen, confs, open, cur, bpc, done, reqs,
                       owed, acc, accepted, inside, hist>>
        /\ cut' = (cut \/ bpc # "idle") /\ stale' = (stale \/ bpc # "idle")
    BY DEF CancelExisting, accVars
  <1> DEFINE o == ops \cap Configs
             q == {}
             T == Subs
  <1>3. o \in SUBSET ops /\ q \in SUBSET queue /\ Drive(o, q, opid, gen, cons) /\ T \in SUBSET Subs
    BY DEF CancelExisting
  <1>4. open' \in BOOLEAN /\ cut' \in BOOLEAN /\ stale' \in BOOLEAN
    BY <1>2 DEF InboxInv, Types
  <1>5. /\ \A t \in Subs \ T : t \in ops => t \in ops' \cup queue'
        /\ \A t \in Subs \ T : t \in ops /\ cons[t] # {} => t \in ops'
        /\ \A t \in Subs \ T : t \in queue => t \in queue'
    OBVIOUS
  <1>8. DropTurns(T, "dropped")
    BY DEF CancelExisting
  <1> HIDE DEF o, q, T
  <1>6. /\ Ordered(ops', queue', opid, cur)
        /\ PolInv' /\ PolSteady
        /\ ops' \cup queue' = o \cup q /\ ops' \subseteq o
        /\ pol' \in [Subs \cup Compactions -> Nat]
    BY <1>2, <1>3, LessOps
  <1>9. QED
    BY <1>2, <1>3, <1>4, <1>5, <1>6, <1>8, DropStep

LEMMA CloseKeeps == ASSUME InboxInv, Close PROVE InboxInv'
  <1>0. Types /\ IdInv /\ PolInv
    BY DEF InboxInv
  <1>2. /\ UNCHANGED <<home, passed, chk, pol, opid, nextOp, gen, confs, cur, bpc, done, reqs,
                       owed, acc, accepted, inside, hist>>
        /\ cut' = (cut \/ bpc # "idle") /\ stale' = stale /\ open' = FALSE
        /\ ops' = {} /\ queue' = {}
    BY DEF Close, accVars
  <1> DEFINE T == Subs
  <1>3. DropTurns(T, "dropped") /\ T \in SUBSET Subs
    BY DEF Close
  <1>4. open' \in BOOLEAN /\ cut' \in BOOLEAN /\ stale' \in BOOLEAN /\ pol' \in [Subs \cup Compactions -> Nat] /\ PolSteady
    BY <1>0, <1>2 DEF Types, PolSteady
  <1>5. /\ \A t \in Subs \ T : t \in ops => t \in ops' \cup queue'
        /\ \A t \in Subs \ T : t \in ops /\ cons[t] # {} => t \in ops'
        /\ \A t \in Subs \ T : t \in queue => t \in queue'
    OBVIOUS
  <1>6. Ordered(ops', queue', opid, cur')
    BY <1>0, <1>2 DEF IdInv, Ordered
  <1>7. PolInv'
    BY <1>0, <1>2, PolKept
  <1> HIDE DEF T
  <1>9. QED
    BY <1>2, <1>3, <1>4, <1>5, <1>6, <1>7, DropStep

LEMMA RetireTurnKeeps == ASSUME InboxInv, RetireTurn PROVE InboxInv'
  <1>0. Types /\ IdInv /\ PolInv /\ DoneInv /\ PlaceInv
    BY DEF InboxInv
  <1>1. /\ bpc = "retire" /\ bpc' = "idle" /\ cur' = NoTurn
        /\ UNCHANGED <<home, passed, chk, pol, opid, nextOp, gen, confs, ops, queue, open, cut, stale, done,
                       reqs, owed, acc, accepted, inside, hist, cuts>>
    BY DEF RetireTurn, opVars, accVars
  <1> DEFINE T == {cur}
             how == IF done /\ ~cut THEN "lost" ELSE "dropped"
  <1>2. DropTurns(T, how)
    BY DEF RetireTurn
  <1>3. cur \in Subs /\ cur # NoTurn
    BY <1>0, <1>1 DEF IdInv
  <1>4. T \in SUBSET Subs /\ cur \in T
    BY <1>3
  <1>5. ASSUME how \notin {"dropped", "removed"}, NEW s \in Subs, home[s] \in T PROVE sub[s] \notin {"pending", "held"}
    <2>1. done /\ Empty(cur) /\ home[s] = cur
      BY <1>0, <1>1, <1>5 DEF DoneInv
    <2>2. cur \in inboxes => SeqSet(pend[cur]) = {} /\ held[cur] = {}
      BY <2>1, EmptySeqDoes DEF Empty
    <2>3. QED
      BY <1>0, <2>1, <2>2 DEF PlaceInv
  <1>6. open' \in BOOLEAN /\ cut' \in BOOLEAN /\ stale' \in BOOLEAN /\ pol' \in [Subs \cup Compactions -> Nat] /\ PolSteady
    BY <1>0, <1>1 DEF Types, PolSteady
  <1>7. Ordered(ops', queue', opid, cur')
    <2>1. NoTurn \notin ops \cup queue /\ NoTurn \notin Configs
      BY <1>0, InboxAssumption DEF Types, Items
    <2>2. QED
      BY <1>0, <1>1, <2>1 DEF IdInv, Ordered
  <1>8. PolInv'
    <2>1. \A t \in Subs : t \in queue' \/ t = cur' => t \in queue \/ t = cur
      BY <1>1, InboxAssumption
    <2>2. QED
      BY <1>0, <1>1, <2>1, PolKept
  <1> HIDE DEF T, how
  <1>9. QED
    BY <1>1, <1>2, <1>4, <1>5, <1>6, <1>7, <1>8, DropStep

-----------------------------------------------------------------------------
(* The runner and the backend.                                             *)

\* The backend moves, or closes the inbox of its turn.
LEMMA MoveStep ==
    ASSUME InboxInv, UNCHANGED <<sub, home, passed, chk, inboxes, pend, held, pol, cons,
                                 opid, nextOp, gen, confs, ops, queue, open, cur, cut, stale, reqs, owed,
                                 acc, accepted, inside, hist>>,
           openIn' \subseteq openIn, done' \in BOOLEAN, bpc' \in BpcStates \ {"idle", "popped"},
           bpc' = "consumed" => reqs < MaxRequests,
           cur \in Subs, bpc # "idle",
           done' => bpc' \in {"close", "retire"} /\ cur \notin openIn' /\ Empty(cur)
    PROVE  InboxInv'
  <1>0. Types /\ IdInv /\ PolInv /\ PlaceInv /\ CapInv /\ DoneInv /\ ConsInv /\ OrderInv /\ RiseInv
    BY DEF InboxInv
  <1>1. Types'
    BY <1>0 DEF Types
  <1>2. IdInv'
    BY <1>0, InboxAssumption DEF IdInv, Ordered
  <1>3. PolInv'
    BY <1>0, PolKept
  <1>4. (\A t \in Subs : Unstarted(t)' => Unstarted(t)) /\ Afloat' = Afloat
    BY DEF Unstarted, Afloat
  <1>5. PlaceInv'
    BY <1>0, <1>4, PlaceKept DEF PlaceInv, Types
  <1>6. CapInv'
    BY <1>0 DEF CapInv, Outs
  <1>7. DoneInv'
    BY <1>0 DEF DoneInv, Empty
  <1>8. ConsInv'
    BY <1>0 DEF ConsInv
  <1>9. OrderInv'
    <2>1. \A s \in Subs : sub[s] = "held" => home[s] \in Subs
      BY <1>0 DEF PlaceInv, Types
    <2>2. QED
      BY <1>0, <1>4, <2>1, OrderMoves
  <1>10. RiseInv'
    BY <1>0, <1>4, RiseKept
  <1>11. QED
    BY <1>1, <1>2, <1>3, <1>5, <1>6, <1>7, <1>8, <1>9, <1>10 DEF InboxInv

\* Past the start there is a turn.
LEMMA TurnRuns ==
    ASSUME InboxInv, bpc \notin {"idle", "popped"}
    PROVE  cur \in Subs /\ cur # NoTurn /\ cur \in Items
  BY DEF InboxInv, IdInv, Items

LEMMA MovesKeep ==
    ASSUME InboxInv, Response \/ Checks \/ Finish \/ Budget \/ Fail \/ CloseInbox PROVE InboxInv'
  <1>0. Types /\ DoneInv
    BY DEF InboxInv
  <1>1. CASE Response
    <2>1. /\ bpc = "response" /\ bpc' \in {"loop", "answered"}
          /\ UNCHANGED <<sub, home, passed, chk, inboxes, openIn, pend, held, pol, cons,
                         opid, nextOp, gen, confs, ops, queue, open, cur, cut, stale, done, reqs, owed,
                         acc, accepted, inside, hist>>
      BY <1>1 DEF Response, subVars, inboxVars, opVars, accVars
    <2>2. QED
      BY <1>0, <2>1, TurnRuns, MoveStep DEF DoneInv, Types, BpcStates
  <1>2. CASE Checks
    <2>1. /\ bpc = "checks" /\ bpc' \in {"loop", "finish"}
          /\ UNCHANGED <<sub, home, passed, chk, inboxes, openIn, pend, held, pol, cons,
                         opid, nextOp, gen, confs, ops, queue, open, cur, cut, stale, done, reqs, owed,
                         acc, accepted, inside, hist>>
      BY <1>2 DEF Checks, subVars, inboxVars, opVars, accVars
    <2>2. QED
      BY <1>0, <2>1, TurnRuns, MoveStep DEF DoneInv, Types, BpcStates
  <1>3. CASE Finish
    <2>1. /\ bpc = "finish"
          /\ UNCHANGED <<sub, home, passed, chk, inboxes, pend, held, pol, cons,
                         opid, nextOp, gen, confs, ops, queue, open, cur, cut, stale, reqs, owed,
                         acc, accepted, inside, hist>>
          /\ \/ Empty(cur) /\ openIn' = openIn \ {cur} /\ done' = TRUE /\ bpc' = "close"
             \/ bpc' = "loop" /\ UNCHANGED <<openIn, done>>
      BY <1>3 DEF Finish, subVars, opVars, accVars
    <2>2. /\ openIn' \subseteq openIn /\ done' \in BOOLEAN
          /\ done' => bpc' = "close" /\ cur \notin openIn' /\ Empty(cur)
      <3>1. ~done /\ done \in BOOLEAN
        BY <1>0, <2>1 DEF DoneInv, Types
      <3>2. CASE Empty(cur) /\ openIn' = openIn \ {cur} /\ done' = TRUE /\ bpc' = "close"
        BY <3>2
      <3>3. CASE bpc' = "loop" /\ UNCHANGED <<openIn, done>>
        BY <3>1, <3>3
      <3>4. QED
        BY <2>1, <3>2, <3>3
    <2>3. QED
      BY <2>1, <2>2, TurnRuns, MoveStep DEF BpcStates
  <1>4. CASE Budget
    <2>1. /\ bpc = "loop" /\ bpc' = "close"
          /\ UNCHANGED <<sub, home, passed, chk, inboxes, pend, held, pol, cons,
                         opid, nextOp, gen, confs, ops, queue, open, cur, cut, stale, reqs, owed,
                         acc, accepted, inside, hist>>
          /\ \/ Empty(cur) /\ openIn' = openIn \ {cur} /\ done' \in BOOLEAN
             \/ UNCHANGED <<openIn, done>>
      BY <1>4 DEF Budget, subVars, opVars, accVars
    <2>2. /\ openIn' \subseteq openIn /\ done' \in BOOLEAN
          /\ done' => cur \notin openIn' /\ Empty(cur)
      BY <1>0, <2>1 DEF DoneInv, Types
    <2>3. QED
      BY <2>1, <2>2, TurnRuns, MoveStep DEF BpcStates
  <1>5. CASE Fail
    <2>1. /\ bpc \in {"loop", "consumed", "response", "answered", "checks", "finish"}
          /\ bpc' = "close"
          /\ UNCHANGED <<sub, home, passed, chk, inboxes, openIn, pend, held, pol, cons,
                         opid, nextOp, gen, confs, ops, queue, open, cur, cut, stale, done, reqs, owed,
                         acc, accepted, inside, hist>>
      BY <1>5 DEF Fail, subVars, inboxVars, opVars, accVars
    <2>2. QED
      BY <1>0, <2>1, TurnRuns, MoveStep DEF DoneInv, Types, BpcStates
  <1>6. CASE CloseInbox
    <2>1. /\ bpc = "close" /\ bpc' = "retire" /\ openIn' = openIn \ {cur}
          /\ UNCHANGED <<sub, home, passed, chk, inboxes, pend, held, pol, cons,
                         opid, nextOp, gen, confs, ops, queue, open, cur, cut, stale, done, reqs, owed,
                         acc, accepted, inside, hist>>
      BY <1>6 DEF CloseInbox, subVars, opVars, accVars
    <2>2. QED
      BY <1>0, <2>1, TurnRuns, MoveStep DEF DoneInv, Types, BpcStates
  <1>7. QED
    BY <1>1, <1>2, <1>3, <1>4, <1>5, <1>6

LEMMA RunnerPopsKeeps == ASSUME InboxInv, RunnerPops PROVE InboxInv'
  <1>0. Types /\ IdInv /\ PolInv /\ PlaceInv /\ CapInv /\ DoneInv /\ ConsInv /\ OrderInv /\ RiseInv
    BY DEF InboxInv
  <1>1. PICK c \in queue : (\A j \in queue : opid[c] <= opid[j]) /\ queue' = queue \ {c} /\ cur' = c
    BY DEF RunnerPops
  <1>2. /\ bpc = "idle" /\ open /\ bpc' = "popped" /\ cut' = FALSE /\ stale' = FALSE /\ done' = FALSE /\ reqs' = 0
        /\ owed' = FALSE
        /\ UNCHANGED <<sub, home, passed, chk, inboxes, openIn, pend, held, pol, cons,
                       opid, nextOp, gen, confs, ops, open, acc, accepted, inside, hist>>
    BY DEF RunnerPops, subVars, inboxVars, accVars
  <1>3. c \in Items /\ c # NoTurn /\ cur = NoTurn /\ c \notin Configs
    BY <1>0, <1>2, InboxAssumption DEF Types, IdInv, Items, Ordered
  <1>4. \A j \in queue : j # c => opid[c] < opid[j]
    <2> SUFFICES ASSUME NEW j \in queue, j # c PROVE opid[c] < opid[j]
      OBVIOUS
    <2>1. j \in Items /\ opid[j] \in Nat /\ opid[c] \in Nat /\ opid[c] # 0
      BY <1>0, <1>3 DEF Types, IdInv, Ordered
    <2>2. opid[j] # opid[c]
      BY <1>0, <1>3, <2>1 DEF IdInv
    <2>3. QED
      BY <1>1, <2>1, <2>2
  <1>5. Ordered(ops', queue', opid, cur')
    <2>1. \A i \in ops : opid[c] < opid[i] /\ i # c
      BY <1>0, <1>3 DEF IdInv, Ordered, Types
    <2>2. opid[c] # 0
      BY <1>0, <1>1 DEF IdInv, Ordered
    <2>3. QED
      BY <1>0, <1>1, <1>2, <1>3, <1>4, <2>1, <2>2 DEF IdInv, Ordered
  <1>6. Types'
    <2>1. queue' \subseteq Items /\ reqs' \in 0..MaxRequests /\ bpc' \in BpcStates
      BY <1>0, <1>1, <1>2, InboxAssumption DEF Types, BpcStates
    <2>2. QED
      BY <1>0, <1>1, <1>2, <1>3, <2>1 DEF Types
  <1>7. IdInv'
    <2>1. bpc' = "idle" <=> cur' = NoTurn
      BY <1>1, <1>2, <1>3
    <2>2. QED
      BY <1>0, <1>2, <1>5, <2>1, IdStep
  <1>8. PolInv'
    BY <1>0, <1>1, <1>2, PolKept
  <1>9. /\ \A t \in Subs : Unstarted(t)' => Unstarted(t)
        /\ \A t \in Subs : t \in Afloat => t \in Afloat'
    <2>1. NoTurn \notin Subs
      BY InboxAssumption
    <2>2. QED
      BY <1>1, <1>2, <1>3, <2>1 DEF Unstarted, Afloat
  <1>10. PlaceInv'
    BY <1>0, <1>2, <1>9, PlaceKept DEF PlaceInv, Types
  <1>11. CapInv' /\ DoneInv'
    BY <1>0, <1>2 DEF CapInv, Outs, DoneInv
  <1>12. ConsInv'
    BY <1>0, <1>2 DEF ConsInv
  <1>13. OrderInv'
    <2>1. \A s \in Subs : sub[s] = "held" => home[s] \in Subs
      BY <1>0 DEF PlaceInv, Types
    <2>2. \A s \in Subs : sub'[s] = "held" =>
             \/ sub[s] = "pending"
             \/ sub[s] = "held" /\ (Unstarted(home[s])' => Unstarted(home[s]))
      BY <1>2, <1>9, <2>1
    <2>3. QED
      BY <1>0, <1>1, <1>2, <2>2, OrderMoves
  <1>14. RiseInv'
    BY <1>0, <1>2, <1>9, RiseKept
  <1>15. QED
    BY <1>6, <1>7, <1>8, <1>10, <1>11, <1>12, <1>13, <1>14 DEF InboxInv

\* What comes takes effect after the whole history, but for a compaction taken
\* inside its turn.
LEMMA ComesAfter ==
    ASSUME Types, OrderInv, NEW y \in Items, Coming(y)
    PROVE  \A x \in SeqSet(hist) : Before(x, y)
  <1>1. SeqSet(hist) \subseteq Items
    BY SeqSetOf DEF Types
  <1>2. ASSUME NEW x \in SeqSet(hist) PROVE Before(x, y)
    <2>1. CASE x \in Insiders
      BY <2>1 DEF OrderInv
    <2>2. CASE x \notin Insiders
      BY <1>1, <2>2 DEF OrderInv, Plain, Before
    <2>3. QED
      BY <2>1, <2>2
  <1>3. QED
    BY <1>2

\* The compaction next in the queue is executed inside the running turn: what still
\* comes is that turn's inbox, or belongs to an operation behind the compaction.
LEMMA InterruptKeeps == ASSUME InboxInv, Interrupt PROVE InboxInv'
  <1>0. Types /\ IdInv /\ PolInv /\ PlaceInv /\ CapInv /\ DoneInv /\ ConsInv /\ OrderInv /\ RiseInv
    BY DEF InboxInv
  <1>1. PICK c \in queue :
           /\ c \in Compactions /\ (\A j \in queue : opid[c] <= opid[j])
           /\ queue' = queue \ {c} /\ inside' = [inside EXCEPT ![c] = cur]
           /\ \/ hist' = Append(hist, c) /\ bpc' = "loop"
              \/ bpc' = "close" /\ hist' = hist
    BY DEF Interrupt, CanInterrupt
  <1>2. /\ bpc = "response"
        /\ UNCHANGED <<sub, home, passed, chk, inboxes, openIn, pend, held, pol, cons, opid, nextOp,
                       gen, confs, ops, open, cur, cut, stale, done, reqs, owed, acc, accepted>>
    BY DEF Interrupt, subVars, inboxVars
  <1>3. /\ cur \in Subs /\ cur # NoTurn /\ cur \in Items
        /\ c \in Items /\ c \notin Subs /\ c \notin Configs /\ c # NoTurn /\ c # cur
        /\ opid[c] \in Nat /\ opid[c] # 0
    <2>1. cur \in Subs /\ cur # NoTurn /\ cur \in Items
      BY <1>2, TurnRuns
    <2>2. c \in Items /\ c \notin Subs /\ c \notin Configs /\ c # NoTurn
      BY <1>1, InboxAssumption DEF Items
    <2>3. QED
      BY <1>0, <2>1, <2>2 DEF IdInv, Ordered, Types
  <1>4. /\ \A j \in ops : opid[c] < opid[j]
        /\ \A j \in queue : j # c => opid[c] < opid[j]
        /\ c \notin ops
    <2>1. \A j \in ops : opid[c] < opid[j]
      BY <1>0 DEF IdInv, Ordered
    <2>2. ASSUME NEW j \in queue, j # c PROVE opid[c] < opid[j]
      <3>1. j \in Items /\ opid[j] \in Nat
        BY <1>0 DEF Types
      <3>2. opid[j] # opid[c]
        BY <1>0, <1>3, <2>2, <3>1 DEF IdInv
      <3>3. QED
        BY <1>1, <1>3, <3>1, <3>2
    <2>3. QED
      BY <1>3, <2>1, <2>2
  <1>5. Control(c) /\ Coming(c) /\ OpOf(c) = c /\ c \notin Insiders /\ Placed(c)
    BY <1>0, <1>3 DEF Control, Coming, Afloat, OpOf, OrderInv, Placed
  <1>6. c \notin SeqSet(hist)
    <2>1. c \notin Plain
      <3>1. \A x \in Plain : \A i \in ops \cup queue : opid[OpOf(x)] < opid[i]
        BY <1>0 DEF OrderInv
      <3>2. ~(opid[c] < opid[c])
        BY <1>3
      <3>3. QED
        BY <1>5, <3>1, <3>2
    <2>2. QED
      BY <1>5, <2>1 DEF Plain
  <1>7. /\ inside' \in [Compactions -> Subs \cup {NoTurn}] /\ inside'[c] = cur
        /\ \A x \in Compactions : x # c => inside'[x] = inside[x]
        /\ Insiders' = Insiders \cup {c}
    <2>1. /\ inside' \in [Compactions -> Subs \cup {NoTurn}] /\ inside'[c] = cur
          /\ \A x \in Compactions : x # c => inside'[x] = inside[x]
      BY <1>0, <1>1, <1>3 DEF Types
    <2>2. QED
      BY <1>1, <1>3, <2>1 DEF Insiders
  <1>8. /\ hist' \in Seq(Items)
        /\ SeqSet(hist') = SeqSet(hist) \/ SeqSet(hist') = SeqSet(hist) \cup {c}
    <2>1. hist \in Seq(Items)
      BY <1>0 DEF Types
    <2>2. Append(hist, c) \in Seq(Items) /\ SeqSet(Append(hist, c)) = SeqSet(hist) \cup {c}
      BY <1>3, <2>1, AppendDoes
    <2>3. QED
      BY <1>1, <2>1, <2>2
  <1>9. Plain' = Plain
    BY <1>6, <1>7, <1>8 DEF Plain
  <1>10. /\ \A t \in Subs : Unstarted(t)' => Unstarted(t)
         /\ \A t \in Subs : t \in Afloat => t \in Afloat'
         /\ Afloat' = Afloat \ {c}
    BY <1>1, <1>2, <1>3, <1>4 DEF Unstarted, Afloat
  <1>11. Types'
    <2>1. queue' \subseteq Items /\ bpc' \in BpcStates /\ bpc' # "consumed"
      BY <1>0, <1>1 DEF Types, BpcStates
    <2>2. QED
      BY <1>0, <1>2, <1>7, <1>8, <2>1 DEF Types
  <1>12. IdInv'
    <2>1. Ordered(ops', queue', opid, cur')
      <3>1. ops \in SUBSET ops /\ queue' \in SUBSET queue /\ Ordered(ops, queue, opid, cur)
        BY <1>0, <1>1 DEF IdInv
      <3>2. QED
        BY <1>2, <3>1, OrderedLess
    <2>2. /\ bpc' = "idle" <=> cur' = NoTurn
          /\ cur' \notin Subs => bpc' \in {"idle", "popped"}
      BY <1>1, <1>2, <1>3
    <2>3. QED
      BY <1>0, <1>2, <2>1, <2>2, IdStep
  <1>13. PolInv'
    BY <1>0, <1>1, <1>2, PolKept
  <1>14. PlaceInv'
    BY <1>0, <1>2, <1>10, PlaceKept DEF PlaceInv, Types
  <1>15. CapInv' /\ DoneInv'
    BY <1>0, <1>2 DEF CapInv, Outs, DoneInv
  <1>16. ConsInv'
    <2>1. Subs \cap SeqSet(hist') = Subs \cap SeqSet(hist)
      BY <1>3, <1>8
    <2>2. QED
      BY <1>0, <1>2, <2>1 DEF ConsInv
  <1>17. /\ \A y \in Items : Placed(y)' => Placed(y)
         /\ \A y \in Items : Coming(y)' => Coming(y) /\ y # c
         /\ \A y : OpOf(y)' = OpOf(y)
    <2>1. \A y : Control(y)' => Control(y) /\ y # c
      BY <1>10 DEF Control
    <2>2. \A s \in Subs : sub[s] = "held" => home[s] \in Subs
      BY <1>0 DEF PlaceInv, Types
    <2>3. \A y \in Items : Placed(y)' => Placed(y)
      BY <1>2, <1>9, <2>1 DEF Placed
    <2>4. \A y \in Items : Coming(y)' => Coming(y) /\ y # c
      BY <1>2, <1>3, <1>10, <2>1, <2>2 DEF Coming
    <2>5. QED
      BY <1>2, <2>3, <2>4 DEF OpOf
  <1>18. \A x, y : x # c /\ Before(x, y) => Before(x, y)'
    BY <1>2, <1>7 DEF Before, TakenInside
  <1>19. ASSUME NEW y \in Items, Coming(y)' PROVE Before(c, y)'
    <2>1. Coming(y) /\ y # c /\ Placed(y)
      BY <1>17, <1>19 DEF Coming, Placed
    <2>2. OpOf(y) \in Afloat
      BY <1>0, <2>1 DEF Coming, Control, OpOf, PlaceInv
    <2>3. CASE OpOf(y) \in ops \cup queue
      <3>1. OpOf(y) # c
        BY <1>0, <1>3, <2>1 DEF OpOf, Types
      <3>2. opid[OpOf(c)] < opid[OpOf(y)]
        BY <1>4, <1>5, <2>3, <3>1
      <3>3. acc[c] < acc[y]
        BY <1>0, <1>3, <1>5, <2>1, <3>2 DEF OrderInv
      <3>4. QED
        BY <1>2, <3>3 DEF Before
    <2>4. CASE OpOf(y) = cur
      <3>1. y \in Subs /\ home[y] = cur
        BY <1>3, <2>1, <2>4 DEF OpOf
      <3>2. QED
        BY <1>1, <1>2, <1>7, <3>1 DEF Before, TakenInside
    <2>5. QED
      BY <2>2, <2>3, <2>4 DEF Afloat
  <1>20. OrderInv'
    <2>1. /\ \A x \in Items : acc'[x] <= accepted'
          /\ \A x \in Items : Placed(x)' => acc'[x] # 0 /\ OpOf(x)' \in Items /\ opid'[OpOf(x)'] # 0
          /\ \A x, y \in Items :
                Placed(x)' /\ Placed(y)' /\ opid'[OpOf(x)'] < opid'[OpOf(y)'] => acc'[x] < acc'[y]
      BY <1>0, <1>2, <1>17 DEF OrderInv
    <2>2. \A x, y \in Items : x \in Plain' /\ Coming(y)' => acc'[x] < acc'[y]
      BY <1>0, <1>2, <1>9, <1>17 DEF OrderInv
    <2>3. /\ \A x \in Plain' : \A i \in ops' \cup queue' : opid'[OpOf(x)'] < opid'[i]
          /\ \A x \in Plain' : cur' # NoTurn => opid'[OpOf(x)'] <= opid'[cur']
      BY <1>0, <1>1, <1>2, <1>9, <1>17 DEF OrderInv
    <2>4. \A x \in Insiders' : opid'[x] # 0 /\ x \notin Afloat'
      BY <1>0, <1>2, <1>3, <1>7, <1>10 DEF OrderInv
    <2>5. ASSUME NEW x \in Insiders', NEW y \in Items, Coming(y)' PROVE Before(x, y)'
      <3>1. CASE x = c
        BY <1>19, <2>5, <3>1
      <3>2. CASE x # c
        <4>1. x \in Insiders /\ Coming(y)
          BY <1>7, <1>17, <2>5, <3>2
        <4>2. Before(x, y)
          BY <1>0, <4>1 DEF OrderInv
        <4>3. QED
          BY <1>18, <3>2, <4>2
      <3>3. QED
        BY <3>1, <3>2
    <2>6. QED
      BY <2>1, <2>2, <2>3, <2>4, <2>5 DEF OrderInv
  <1>21. RiseInv'
    <2>1. \A x, y \in SeqSet(hist) : Before(x, y) => Before(x, y)'
      BY <1>6, <1>18
    <2>2. \A x \in SeqSet(hist) : Before(x, c)'
      BY <1>0, <1>3, <1>5, <1>6, <1>18, ComesAfter
    <2>3. HistInv
      BY <1>0 DEF RiseInv
    <2>4. HistInv'
      <3>1. CASE hist' = hist
        BY <2>1, <2>3, <3>1, HistKept
      <3>2. CASE hist' = Append(hist, c)
        BY <1>0, <1>3, <2>1, <2>2, <2>3, <3>2, HistAppends
      <3>3. QED
        BY <1>1, <3>1, <3>2
    <2>5. /\ \A t \in Subs : Rising(acc, pend[t])'
          /\ \A t \in Subs : \A s \in held'[t], p \in SeqSet(pend'[t]) : Unstarted(t)' => acc'[s] < acc'[p]
      BY <1>0, <1>2, <1>10 DEF RiseInv
    <2>6. QED
      BY <2>4, <2>5 DEF RiseInv
  <1>22. QED
    BY <1>11, <1>12, <1>13, <1>14, <1>15, <1>16, <1>20, <1>21 DEF InboxInv

\* Work that takes effect is the running operation's, and came before the rest.
LEMMA OrderRuns ==
    ASSUME InboxInv, NEW X \in SUBSET Items, cur # NoTurn,
           SeqSet(hist') = SeqSet(hist) \cup X,
           \A x \in X : Coming(x) /\ OpOf(x) = cur,
           UNCHANGED <<acc, accepted, inside, home, opid, confs, ops, queue>>, cur' = cur \/ cur' = NoTurn,
           \A y \in Items : Placed(y)' => Placed(y),
           \A y \in Items : Coming(y)' => Coming(y),
           \A x \in X, y \in Items : Coming(y)' => OpOf(y) \in ops \cup queue \/ acc[x] < acc[y]
    PROVE  OrderInv'
  <1>0. Types /\ IdInv /\ OrderInv
    BY DEF InboxInv
  <1>1. \A y : OpOf(y)' = OpOf(y)
    BY DEF OpOf
  <1>2. \A y \in Items : Coming(y) => Placed(y)
    BY DEF Coming, Placed
  <1>3. \A i \in ops \cup queue : opid[cur] < opid[i]
    BY <1>0 DEF IdInv, Ordered
  <1>4. \A x \in Items : acc'[x] <= accepted'
    BY <1>0 DEF OrderInv
  <1>5. \A x \in Items : Placed(x)' => acc'[x] # 0 /\ OpOf(x)' \in Items /\ opid'[OpOf(x)'] # 0
    BY <1>0, <1>1 DEF OrderInv
  <1>6. \A x, y \in Items :
           Placed(x)' /\ Placed(y)' /\ opid'[OpOf(x)'] < opid'[OpOf(y)'] => acc'[x] < acc'[y]
    BY <1>0, <1>1 DEF OrderInv
  <1>a. /\ Insiders' = Insiders /\ \A x, y : Before(x, y)' <=> Before(x, y)
        /\ \A x \in Plain' : x \in Plain \/ x \in X
    BY DEF Insiders, Plain, Before, TakenInside
  <1>7. ASSUME NEW x \in Items, NEW y \in Items, x \in Plain', Coming(y)'
        PROVE  acc'[x] < acc'[y]
    <2>1. CASE x \in Plain
      BY <1>0, <1>7, <2>1 DEF OrderInv
    <2>2. CASE x \in X
      <3>1. CASE OpOf(y) \in ops \cup queue
        <4>1. Placed(x) /\ Placed(y) /\ opid[OpOf(x)] < opid[OpOf(y)]
          BY <1>2, <1>3, <1>7, <2>2, <3>1
        <4>2. QED
          BY <1>0, <4>1 DEF OrderInv
      <3>2. QED
        BY <1>7, <2>2, <3>1
    <2>3. QED
      BY <1>7, <1>a, <2>1, <2>2
  <1>8. ASSUME NEW x \in Plain' PROVE \A i \in ops' \cup queue' : opid'[OpOf(x)'] < opid'[i]
    <2>1. CASE x \in Plain
      BY <1>0, <1>1, <2>1 DEF OrderInv
    <2>2. CASE x \in X
      BY <1>1, <1>3, <2>2
    <2>3. QED
      BY <1>a, <2>1, <2>2
  <1>9. ASSUME NEW x \in Plain', cur' # NoTurn PROVE opid'[OpOf(x)'] <= opid'[cur']
    <2>1. CASE x \in Plain
      BY <1>0, <1>1, <1>9, <2>1 DEF OrderInv
    <2>2. CASE x \in X
      BY <1>0, <1>1, <1>9, <2>2 DEF Types
    <2>3. QED
      BY <1>a, <2>1, <2>2
  <1>10. \A x \in Insiders' : opid'[x] # 0 /\ x \notin Afloat'
    <2>1. \A x \in Insiders : x # NoTurn /\ opid[x] # 0 /\ x \notin Afloat
      BY <1>0, InboxAssumption DEF OrderInv, Insiders
    <2>2. QED
      BY <1>a, <2>1 DEF Afloat
  <1>11. \A x \in Insiders', y \in Items : Coming(y)' => Before(x, y)'
    BY <1>0, <1>a DEF OrderInv
  <1>12. QED
    BY <1>4, <1>5, <1>6, <1>7, <1>8, <1>9, <1>10, <1>11 DEF OrderInv

LEMMA RunControlKeeps == ASSUME InboxInv, RunControl PROVE InboxInv'
  <1>0. Types /\ IdInv /\ PolInv /\ PlaceInv /\ CapInv /\ DoneInv /\ ConsInv /\ OrderInv /\ RiseInv
    BY DEF InboxInv
  <1>1. /\ bpc = "popped" /\ cur \notin Subs /\ bpc' = "idle" /\ cur' = NoTurn
        /\ hist' = hist \/ hist' = Append(hist, cur)
        /\ UNCHANGED <<sub, home, passed, chk, inboxes, openIn, pend, held, pol, cons,
                       opid, nextOp, gen, confs, ops, queue, open, cut, stale, done, reqs, owed,
                       acc, accepted, inside>>
    BY DEF RunControl, subVars, inboxVars, opVars, accVars
  <1>2. cur # NoTurn /\ cur \in Items /\ NoTurn \notin Items /\ NoTurn \notin Subs
    BY <1>0, <1>1, InboxAssumption DEF IdInv, Types, Items
  <1>3. /\ \A t \in Subs : Unstarted(t)' <=> Unstarted(t)
        /\ \A t \in Subs : t \in Afloat => t \in Afloat'
    BY <1>1, <1>2 DEF Unstarted, Afloat
  <1>4. Control(cur) /\ Coming(cur) /\ OpOf(cur) = cur
    BY <1>1, <1>2 DEF Control, Coming, Afloat, OpOf
  <1>5. /\ hist' \in Seq(Items) /\ HistInv'
        /\ SeqSet(hist') = SeqSet(hist) \/ SeqSet(hist') = SeqSet(hist) \cup {cur}
    <2>1. \A x, y : Before(x, y)' <=> Before(x, y)
      BY <1>1 DEF Before, TakenInside
    <2>2. \A y \in SeqSet(hist) : Before(y, cur)
      BY <1>0, <1>2, <1>4, ComesAfter
    <2>3. hist \in Seq(Items) /\ HistInv
      BY <1>0 DEF Types, RiseInv
    <2>4. Append(hist, cur) \in Seq(Items) /\ SeqSet(Append(hist, cur)) = SeqSet(hist) \cup {cur}
      BY <1>2, <2>3, AppendDoes
    <2>5. CASE hist' = hist
      BY <2>1, <2>3, <2>5, HistKept
    <2>6. CASE hist' = Append(hist, cur)
      <3>1. HistInv'
        BY <1>0, <1>2, <2>1, <2>2, <2>3, <2>6, HistAppends
      <3>2. QED
        BY <2>4, <2>6, <3>1
    <2>7. QED
      BY <1>1, <2>5, <2>6
  <1>6. Types'
    BY <1>0, <1>1, <1>5 DEF Types, BpcStates
  <1>7. IdInv'
    <2>1. Ordered(ops', queue', opid, cur')
      <3>1. NoTurn \notin ops \cup queue /\ NoTurn \notin Configs
        BY <1>0, InboxAssumption DEF Types, Items
      <3>2. QED
        BY <1>0, <1>1, <3>1 DEF IdInv, Ordered
    <2>2. QED
      BY <1>0, <1>1, <2>1, IdStep
  <1>8. PolInv'
    BY <1>0, <1>1, <1>2, PolKept
  <1>9. PlaceInv'
    BY <1>0, <1>1, <1>3, PlaceKept DEF PlaceInv, Types
  <1>10. CapInv' /\ DoneInv'
    BY <1>0, <1>1 DEF CapInv, Outs, DoneInv
  <1>11. ConsInv'
    <2>1. Subs \cap SeqSet(hist') = Subs \cap SeqSet(hist)
      BY <1>1, <1>5
    <2>2. QED
      BY <1>0, <1>1, <2>1 DEF ConsInv
  <1>12. OrderInv'
    <2>1. \A s \in Subs : sub[s] \in {"pending", "held"} => home[s] \in Subs /\ home[s] \in Afloat
      BY <1>0 DEF PlaceInv, Types
    <2>2. \A y \in Items : Control(y)' => Control(y) /\ y \in ops \cup queue
      BY <1>1, <1>2 DEF Control, Afloat
    <2>3. \A y \in Items : Coming(y)' => Coming(y) /\ OpOf(y) \in ops \cup queue
      BY <1>1, <1>3, <2>1, <2>2 DEF Coming, OpOf, Control, Afloat
    <2>4. \A y \in Items : Placed(y)' => Placed(y)
      <3>1. \A y \in Plain' : y \in Plain \/ y = cur
        BY <1>1, <1>5 DEF Plain, Insiders
      <3>2. QED
        BY <1>1, <1>4, <2>2, <3>1 DEF Placed
    <2>5. CASE SeqSet(hist') = SeqSet(hist)
      <3> DEFINE X == {}
      <3>1. SeqSet(hist') = SeqSet(hist) \cup X /\ X \in SUBSET Items /\ \A x \in X : FALSE
        BY <2>5
      <3> HIDE DEF X
      <3>2. QED
        BY <1>1, <1>2, <2>3, <2>4, <3>1, OrderRuns
    <2>6. CASE SeqSet(hist') = SeqSet(hist) \cup {cur}
      <3> DEFINE X == {cur}
      <3>1. SeqSet(hist') = SeqSet(hist) \cup X /\ X \in SUBSET Items /\ \A x \in X : x = cur
        BY <1>2, <2>6
      <3> HIDE DEF X
      <3>2. QED
        BY <1>1, <1>2, <1>4, <2>3, <2>4, <3>1, OrderRuns
    <2>7. QED
      BY <1>5, <2>5, <2>6
  <1>13. RiseInv'
    BY <1>0, <1>1, <1>3, <1>5 DEF RiseInv
  <1>14. QED
    BY <1>6, <1>7, <1>8, <1>9, <1>10, <1>11, <1>12, <1>13 DEF InboxInv

LEMMA StartTurnKeeps == ASSUME InboxInv, StartTurn PROVE InboxInv'
  <1>0. Types /\ IdInv /\ PolInv /\ PlaceInv /\ CapInv /\ DoneInv /\ ConsInv /\ OrderInv /\ RiseInv
    BY DEF InboxInv
  <1>1. /\ bpc = "popped" /\ cur \in Subs
        /\ UNCHANGED <<sub, home, passed, chk, inboxes, openIn, pend, held, pol, cons,
                       opid, nextOp, gen, confs, ops, queue, open, cur, cut, stale, done, reqs, owed,
                       acc, accepted, inside>>
        /\ bpc' \in {"close", "loop"}
        /\ hist' = hist \/ (held[cur] # {} /\ hist' = Append(hist, CHOOSE s \in held[cur] : TRUE))
    BY DEF StartTurn, subVars, inboxVars, opVars, accVars
  <1>2. CASE hist' = hist
    <2>1. ~done
      BY <1>0, <1>1 DEF DoneInv
    <2>2. QED
      BY <1>0, <1>1, <1>2, <2>1, MoveStep DEF Types, BpcStates
  <1>3. CASE held[cur] # {} /\ hist' = Append(hist, CHOOSE s \in held[cur] : TRUE)
    <2> DEFINE s == CHOOSE x \in held[cur] : TRUE
    <2>1. s \in held[cur] /\ hist' = Append(hist, s)
      BY <1>3
    <2> HIDE DEF s
    <2>2. s \in Subs /\ sub[s] = "held" /\ home[s] = cur /\ s \in Items
      BY <1>0, <1>1, <2>1 DEF PlaceInv, Types, Items
    <2>3. /\ Unstarted(cur) /\ ~Unstarted(cur)'
          /\ \A t \in Subs : t # cur => (Unstarted(t)' <=> Unstarted(t))
          /\ Afloat' = Afloat /\ cur \notin ops /\ cur \notin queue
      <3>1. cur \notin ops /\ cur \notin queue
        BY <1>0 DEF IdInv, Ordered
      <3>2. QED
        BY <1>1, <3>1 DEF Unstarted, Afloat
    <2>4. Coming(s) /\ OpOf(s) = cur /\ cur # NoTurn
      BY <1>1, <2>2, <2>3, InboxAssumption DEF Coming, OpOf
    <2>5. /\ hist' \in Seq(Items) /\ HistInv'
          /\ SeqSet(hist') = SeqSet(hist) \cup {s}
      <3>1. \A x, y : Before(x, y)' <=> Before(x, y)
        BY <1>1 DEF Before, TakenInside
      <3>2. \A y \in SeqSet(hist) : Before(y, s)
        BY <1>0, <2>2, <2>4, ComesAfter
      <3>3. hist \in Seq(Items) /\ HistInv
        BY <1>0 DEF Types, RiseInv
      <3>4. Append(hist, s) \in Seq(Items) /\ SeqSet(Append(hist, s)) = SeqSet(hist) \cup {s}
        BY <2>2, <3>3, AppendDoes
      <3>5. HistInv'
        BY <1>0, <2>1, <2>2, <3>1, <3>2, <3>3, HistAppends
      <3>6. QED
        BY <2>1, <3>4, <3>5
    <2>6. Types'
      BY <1>0, <1>1, <2>5 DEF Types, BpcStates
    <2>7. IdInv'
      BY <1>0, <1>1, <2>4, IdStep DEF IdInv
    <2>8. PolInv'
      BY <1>0, <1>1, PolKept
    <2>9. PlaceInv'
      <3>1. \A t \in inboxes : t \in Afloat' /\ (Unstarted(t)' => Unstarted(t))
        BY <1>0, <2>3 DEF PlaceInv, Types
      <3>2. QED
        BY <1>0, <1>1, <3>1, PlaceKept
    <2>10. CapInv' /\ DoneInv'
      BY <1>0, <1>1 DEF CapInv, Outs, DoneInv
    <2>11. ConsInv'
      <3>1. s \notin cons[cur] /\ pol[cur] # 0
        BY <1>0, <1>1, <2>3 DEF ConsInv, PolInv, PolOver
      <3>2. s \in Constrained => passed[s] = pol[cur]
        BY <1>0, <2>2, <3>1 DEF ConsInv
      <3>3. \A x \in Subs \cap SeqSet(hist') :
               /\ home'[x] \in Subs \ ops' /\ pol'[home'[x]] # 0
               /\ x \in Constrained => passed'[x] = pol'[home'[x]]
        BY <1>0, <1>1, <2>2, <2>3, <2>5, <3>1, <3>2 DEF ConsInv
      <3>4. QED
        BY <1>0, <1>1, <3>3 DEF ConsInv
    <2>12. OrderInv'
      <3>1. \A x \in Subs : sub[x] \in {"pending", "held"} => home[x] \in Subs /\ home[x] \in Afloat
        BY <1>0 DEF PlaceInv, Types
      <3>2. \A y \in Items : Control(y)' <=> Control(y)
        BY <2>3 DEF Control
      <3>3. \A y \in Items : Coming(y)' => Coming(y)
        BY <1>1, <2>3, <3>1, <3>2 DEF Coming
      <3>4. \A y \in Items : Placed(y)' => Placed(y)
        <4>1. \A y \in Plain' : y \in Plain \/ y = s
          BY <1>1, <2>5 DEF Plain, Insiders
        <4>2. QED
          BY <1>1, <2>2, <3>2, <4>1 DEF Placed
      <3>5. ASSUME NEW y \in Items, Coming(y)' PROVE OpOf(y) \in ops \cup queue \/ acc[s] < acc[y]
        <4>1. CASE Control(y)
          BY <1>1, <4>1 DEF Control, Afloat, OpOf
        <4>2. CASE y \in Subs /\ sub[y] = "pending"
          <5>1. CASE home[y] = cur
            <6>1. y \in SeqSet(pend[cur])
              BY <1>0, <4>2, <5>1 DEF PlaceInv
            <6>2. QED
              BY <1>0, <1>1, <2>1, <2>3, <6>1 DEF RiseInv
          <5>2. CASE home[y] # cur
            BY <3>1, <4>2, <5>2 DEF OpOf, Afloat
          <5>3. QED
            BY <5>1, <5>2
        <4>3. CASE y \in Subs /\ sub[y] = "held" /\ Unstarted(home[y])'
          BY <1>1, <2>3, <3>1, <4>3 DEF OpOf, Afloat
        <4>4. QED
          BY <1>1, <3>2, <3>5, <4>1, <4>2, <4>3 DEF Coming
      <3> DEFINE X == {s}
      <3>6. SeqSet(hist') = SeqSet(hist) \cup X /\ X \in SUBSET Items /\ \A x \in X : x = s
        BY <2>2, <2>5
      <3> HIDE DEF X
      <3>7. QED
        BY <1>1, <2>4, <3>3, <3>4, <3>5, <3>6, OrderRuns
    <2>13. RiseInv'
      <3>1. \A t \in Subs : Unstarted(t)' => Unstarted(t)
        BY <2>3
      <3>2. QED
        BY <1>0, <1>1, <2>5, <3>1 DEF RiseInv
    <2>14. QED
      BY <2>6, <2>7, <2>8, <2>9, <2>10, <2>11, <2>12, <2>13 DEF InboxInv
  <1>4. QED
    BY <1>1, <1>2, <1>3

\* The inbox goes into the history; nothing else changes.
LEMMA DrainStep ==
    ASSUME InboxInv, bpc \in {"loop", "answered"}, CanDrain, Drain,
           bpc' \in {"consumed", "loop", "checks"}, bpc' = "consumed" => reqs < MaxRequests,
           UNCHANGED <<home, passed, chk, inboxes, openIn, pol, cons, opid, nextOp, gen, confs,
                       ops, queue, open, cur, cut, stale, done, reqs, acc, accepted, inside>>
    PROVE  InboxInv'
  <1>0. Types /\ IdInv /\ PolInv /\ PlaceInv /\ CapInv /\ DoneInv /\ ConsInv /\ OrderInv /\ RiseInv
    BY DEF InboxInv
  <1> DEFINE P == SeqSet(pend[cur])
  <1>1. /\ held' = [held EXCEPT ![cur] = @ \cup P]
        /\ sub' = [s \in Subs |-> IF s \in P THEN "held" ELSE sub[s]]
        /\ hist' = hist \o pend[cur]
        /\ pend' = [pend EXCEPT ![cur] = <<>>]
        /\ owed' = (owed \/ pend[cur] # <<>>)
    BY DEF Drain
  <1>2. cur \in Subs /\ cur # NoTurn /\ cur \in inboxes /\ cur \notin ops /\ cur \notin queue
    BY <1>0, InboxAssumption DEF CanDrain, IdInv, Ordered, Types
  <1>3. P \subseteq Subs /\ pend[cur] \in Seq(Subs) /\ P \subseteq Items /\ pend[cur] \in Seq(Items)
    <2>1. pend[cur] \in Seq(Subs)
      BY <1>0, <1>2 DEF Types
    <2>2. Subs \subseteq Items
      BY DEF Items
    <2>3. QED
      BY <2>1, <2>2, SeqSetOf
  <1>4. \A s \in P : sub[s] = "pending" /\ home[s] = cur
    BY <1>0, <1>2 DEF PlaceInv
  <1>5. \A s \in Subs : sub[s] = "pending" /\ home[s] = cur => s \in P
    BY <1>0 DEF PlaceInv
  <1> HIDE DEF P
  <1>6. /\ \A s \in Subs : sub'[s] = IF s \in P THEN "held" ELSE sub[s]
        /\ sub' \in [Subs -> SubStates]
        /\ held' \in [Subs -> SUBSET Subs] /\ held'[cur] = held[cur] \cup P
        /\ \A t \in Subs : t # cur => held'[t] = held[t] /\ pend'[t] = pend[t]
        /\ pend'[cur] = <<>> /\ owed' \in BOOLEAN
    BY <1>0, <1>1, <1>2, <1>3 DEF Types, SubStates
  <1>7. pend' \in [Subs -> Seq(Subs)]
    <2>1. <<>> \in Seq(Subs) /\ pend \in [Subs -> Seq(Subs)]
      BY <1>0 DEF Types
    <2>2. QED
      BY <1>1, <2>1
  <1>8. /\ ~Unstarted(cur) /\ ~Unstarted(cur)'
        /\ \A t \in Subs : Unstarted(t)' <=> Unstarted(t)
        /\ Afloat' = Afloat
    BY <1>2 DEF Unstarted, Afloat
  <1>9. /\ \A x \in P : Coming(x) /\ OpOf(x) = cur
    BY <1>3, <1>4 DEF Coming, OpOf
  <1>10. /\ hist' \in Seq(Items) /\ HistInv'
         /\ SeqSet(hist') = SeqSet(hist) \cup P
    <2>1. \A x, y : Before(x, y)' <=> Before(x, y)
      BY DEF Before, TakenInside
    <2>2. \A y \in SeqSet(hist), x \in P : Before(y, x)
      BY <1>0, <1>3, <1>9, ComesAfter
    <2>3. hist \in Seq(Items) /\ HistInv /\ Rising(acc, pend[cur]) /\ Rising(acc', pend[cur])
      BY <1>0, <1>2 DEF Types, RiseInv
    <2>4. hist \o pend[cur] \in Seq(Items) /\ SeqSet(hist \o pend[cur]) = SeqSet(hist) \cup P
      BY <1>3, <2>3, ConcatDoes DEF P
    <2>5. HistInv'
      <3>1. \A x \in SeqSet(hist), y \in SeqSet(pend[cur]) : Before(x, y)'
        BY <2>1, <2>2 DEF P
      <3>2. QED
        BY <1>0, <1>1, <1>3, <2>1, <2>3, <3>1, HistConcat
    <2>6. QED
      BY <1>1, <2>4, <2>5
  <1>11. Types'
    BY <1>0, <1>6, <1>7, <1>10 DEF Types, BpcStates
  <1>12. IdInv'
    <2>1. \A s \in Subs : sub'[s] \in Outside => sub[s] \in Outside
      BY <1>6 DEF Outside
    <2>2. QED
      BY <1>0, <1>2, <2>1, IdStep DEF IdInv
  <1>13. PolInv'
    BY <1>0, PolKept
  <1>14. PlaceInv'
    <2>1. \A s \in Subs : home'[s] = NoTurn <=> sub'[s] \in {"new", "checking", "refused"}
      BY <1>0, <1>4, <1>6 DEF PlaceInv
    <2>2. \A s \in Subs : home'[s] # NoTurn => opid'[home'[s]] # 0
      BY <1>0 DEF PlaceInv
    <2>3. ASSUME NEW s \in Subs, sub'[s] = "pending"
          PROVE  home'[s] \in inboxes' /\ s \in SeqSet(pend'[home'[s]])
      <3>1. sub[s] = "pending" /\ home[s] # cur
        BY <1>5, <1>6, <2>3
      <3>2. home[s] \in inboxes /\ s \in SeqSet(pend[home[s]]) /\ home[s] \in Subs
        BY <1>0, <3>1 DEF PlaceInv, Types
      <3>3. QED
        BY <1>6, <3>1, <3>2
    <2>4. ASSUME NEW t \in Subs, NEW s \in SeqSet(pend'[t]) PROVE sub'[s] = "pending" /\ home'[s] = t
      <3>1. t # cur
        BY <1>6, <2>4, EmptySeqDoes
      <3>2. s \in SeqSet(pend[t]) /\ s \in Subs
        BY <1>0, <1>6, <2>4, <3>1, SeqSetOf DEF Types
      <3>3. sub[s] = "pending" /\ home[s] = t
        BY <1>0, <3>2 DEF PlaceInv
      <3>4. QED
        BY <1>4, <1>6, <3>1, <3>2, <3>3
    <2>5. ASSUME NEW s \in Subs, sub'[s] = "held" PROVE home'[s] \in inboxes' /\ s \in held'[home'[s]]
      <3>1. CASE s \in P
        BY <1>2, <1>4, <1>6, <3>1
      <3>2. CASE s \notin P
        <4>1. sub[s] = "held"
          BY <1>6, <2>5, <3>2
        <4>2. home[s] \in inboxes /\ s \in held[home[s]] /\ home[s] \in Subs
          BY <1>0, <4>1 DEF PlaceInv, Types
        <4>3. QED
          BY <1>6, <4>2
      <3>3. QED
        BY <3>1, <3>2
    <2>6. ASSUME NEW t \in Subs, NEW s \in held'[t] PROVE sub'[s] = "held" /\ home'[s] = t
      <3>1. CASE t = cur /\ s \in P
        BY <1>3, <1>4, <1>6, <3>1
      <3>2. CASE s \in held[t]
        <4>1. s \in Subs /\ sub[s] = "held" /\ home[s] = t
          BY <1>0, <3>2 DEF PlaceInv, Types
        <4>2. QED
          BY <1>6, <4>1
      <3>3. QED
        BY <1>6, <2>6, <3>1, <3>2
    <2>7. ASSUME NEW t \in inboxes'
          PROVE  t \in Afloat' /\ (Unstarted(t)' => \E s \in Subs : held'[t] = {s})
      <3>1. t \in Subs /\ t \in Afloat /\ (Unstarted(t) => \E s \in Subs : held[t] = {s})
        BY <1>0, <2>7 DEF PlaceInv, Types
      <3>2. CASE t = cur
        BY <1>8, <3>1, <3>2
      <3>3. CASE t # cur
        <4>1. held'[t] = held[t] /\ (Unstarted(t)' <=> Unstarted(t))
          BY <1>6, <1>8, <3>1, <3>3
        <4>2. QED
          BY <1>8, <3>1, <4>1
      <3>4. QED
        BY <3>2, <3>3
    <2>8. QED
      BY <2>1, <2>2, <2>3, <2>4, <2>5, <2>6, <2>7 DEF PlaceInv
  <1>15. CapInv'
    <2>1. \A s \in Subs : sub'[s] \in {"pending", "held"} => sub[s] \in {"pending", "held"}
      BY <1>4, <1>6
    <2>2. QED
      BY <1>0, <2>1, CapShrinks, InboxAssumption
  <1>16. DoneInv'
    <2>1. ~done /\ \A s \in Subs : sub'[s] # "lost"
      BY <1>0, <1>6 DEF DoneInv
    <2>2. QED
      BY <2>1 DEF DoneInv
  <1>17. ConsInv'
    <2>1. cons[cur] = {} /\ pol[cur] # 0
      BY <1>0, <1>2 DEF ConsInv, PolInv, PolOver
    <2>2. \A s \in Constrained : s \in P => passed[s] = pol[cur]
      BY <1>0, <1>3, <1>4, <2>1 DEF ConsInv
    <2>3. \A x \in Subs \cap SeqSet(hist') :
             /\ home'[x] \in Subs \ ops' /\ pol'[home'[x]] # 0
             /\ x \in Constrained => passed'[x] = pol'[home'[x]]
      BY <1>0, <1>2, <1>4, <1>10, <2>1, <2>2 DEF ConsInv
    <2>4. \A s \in Constrained : sub'[s] \in {"pending", "held"} =>
             \/ s \in cons'[home'[s]]
             \/ passed'[s] = pol'[home'[s]] /\ pol'[home'[s]] # 0
      <3>1. \A s \in Constrained : s \in Subs
        BY InboxAssumption
      <3>2. QED
        BY <1>0, <1>4, <1>6, <3>1 DEF ConsInv
    <2>5. \A s \in Subs : sub'[s] = "checking" =>
             chk'[s].turn \in Subs /\ chk'[s].policy # 0 /\ pol'[chk'[s].turn] = chk'[s].policy
      BY <1>0, <1>6 DEF ConsInv
    <2>6. QED
      BY <1>0, <2>3, <2>4, <2>5 DEF ConsInv
  <1>18. OrderInv'
    <2>1. \A x \in Subs : sub[x] \in {"pending", "held"} => home[x] \in Subs /\ home[x] \in Afloat
      BY <1>0 DEF PlaceInv, Types
    <2>2. \A y \in Items : Control(y)' <=> Control(y)
      BY <1>8 DEF Control
    <2>3. ASSUME NEW y \in Items, Coming(y)' PROVE Coming(y) /\ OpOf(y) \in ops \cup queue
      <3>1. CASE Control(y)
        BY <1>2, <3>1 DEF Coming, Control, Afloat, OpOf
      <3>2. CASE y \in Subs /\ sub'[y] = "pending"
        <4>1. sub[y] = "pending" /\ home[y] # cur
          BY <1>5, <1>6, <3>2
        <4>2. QED
          BY <2>1, <3>2, <4>1 DEF Coming, OpOf, Afloat
      <3>3. CASE y \in Subs /\ sub'[y] = "held" /\ Unstarted(home[y])'
        <4>1. y \notin P
          <5>1. Unstarted(home[y])' => home[y] # cur
            BY <1>8 DEF Unstarted
          <5>2. QED
            BY <1>4, <3>3, <5>1
        <4>2. sub[y] = "held" /\ home[y] \in Subs /\ home[y] \in Afloat
          BY <1>6, <2>1, <3>3, <4>1
        <4>3. Unstarted(home[y]) /\ home[y] # cur
          <5>1. Unstarted(home[y])' => Unstarted(home[y])
            BY <1>8, <4>2 DEF Unstarted
          <5>2. QED
            BY <1>8, <3>3, <5>1
        <4>4. QED
          BY <3>3, <4>2, <4>3 DEF Coming, OpOf, Afloat
      <3>4. QED
        BY <2>2, <2>3, <3>1, <3>2, <3>3 DEF Coming
    <2>4. \A y \in Items : Placed(y)' => Placed(y)
      <3>1. \A s \in Subs : sub'[s] \in {"pending", "held"} => sub[s] \in {"pending", "held"}
        BY <1>4, <1>6
      <3>2. \A x \in P : x \in Subs /\ sub[x] = "pending"
        BY <1>3, <1>4
      <3>3. \A y \in Plain' : y \in Plain \/ y \in P
        BY <1>10 DEF Plain, Insiders
      <3>4. QED
        BY <2>2, <3>1, <3>2, <3>3 DEF Placed
    <2>5. P \in SUBSET Items
      BY <1>3
    <2>6. QED
      BY <1>2, <1>9, <1>10, <2>3, <2>4, <2>5, OrderRuns
  <1>19. RiseInv'
    <2>1. ASSUME NEW t \in Subs
          PROVE  /\ Rising(acc', pend'[t])
                 /\ \A s \in held'[t], p \in SeqSet(pend'[t]) : Unstarted(t)' => acc'[s] < acc'[p]
      <3>1. CASE t = cur
        BY <1>6, <3>1, EmptySeqDoes
      <3>2. CASE t # cur
        BY <1>0, <1>6, <1>8, <3>2 DEF RiseInv
      <3>3. QED
        BY <3>1, <3>2
    <2>2. QED
      BY <1>10, <2>1 DEF RiseInv
  <1>20. QED
    BY <1>11, <1>12, <1>13, <1>14, <1>15, <1>16, <1>17, <1>18, <1>19 DEF InboxInv

LEMMA ConsumesKeep == ASSUME InboxInv, Consume \/ ConsumeLate PROVE InboxInv'
  <1>0. Types /\ DoneInv
    BY DEF InboxInv
  <1>1. /\ bpc \in {"loop", "answered"} /\ Drain
        /\ bpc' \in {"consumed", "loop", "checks"} /\ (bpc' = "consumed" => reqs < MaxRequests)
        /\ UNCHANGED <<home, passed, chk, inboxes, openIn, pol, cons, opid, nextOp, gen, confs,
                       ops, queue, open, cur, cut, stale, done, reqs, acc, accepted, inside>>
    BY DEF Consume, ConsumeLate, opVars, accVars
  <1>2. CASE CanDrain
    BY <1>1, <1>2, DrainStep
  <1>3. CASE ~CanDrain
    <2>1. UNCHANGED <<held, sub, hist, pend, owed>>
      BY <1>1, <1>3 DEF Drain
    <2>2. ~done /\ cur \in Subs
      BY <1>0, <1>1, TurnRuns DEF DoneInv
    <2>3. QED
      BY <1>0, <1>1, <2>1, <2>2, MoveStep DEF Types, BpcStates
  <1>4. QED
    BY <1>2, <1>3

\* Submissions leave an inbox: a request carries them, or they are taken back.
LEMMA LeaveStep ==
    ASSUME InboxInv, NEW G \in SUBSET Subs, NEW v \in {"sent", "removed"},
           \A s \in Subs : sub'[s] = IF s \in G THEN v ELSE sub[s],
           sub' \in [Subs -> SubStates], \A s \in G : sub[s] \in {"pending", "held"},
           pend' \in [Subs -> Seq(Subs)], held' \in [Subs -> SUBSET Subs],
           \A t \in Subs : /\ SeqSet(pend'[t]) = SeqSet(pend[t]) \ G
                           /\ Rising(acc, pend'[t])
                           /\ held'[t] = held[t] \ G
                           /\ Unstarted(t) => held'[t] = held[t],
           \/ UNCHANGED <<bpc, reqs, owed>>
           \/ bpc = "consumed" /\ bpc' = "response" /\ reqs' = reqs + 1 /\ owed' = FALSE,
           UNCHANGED <<home, passed, chk, inboxes, openIn, pol, cons, opid, nextOp, gen, confs,
                       ops, queue, open, cur, cut, stale, done, acc, accepted, inside, hist>>
    PROVE  InboxInv'
  <1>0. Types /\ IdInv /\ PolInv /\ PlaceInv /\ CapInv /\ DoneInv /\ ConsInv /\ OrderInv /\ RiseInv
    BY DEF InboxInv
  <1>1. bpc' = bpc \/ (bpc = "consumed" /\ bpc' = "response")
    OBVIOUS
  <1>2. Types'
    <2>1. CASE UNCHANGED <<bpc, reqs, owed>>
      BY <1>0, <2>1 DEF Types
    <2>2. CASE bpc = "consumed" /\ bpc' = "response" /\ reqs' = reqs + 1 /\ owed' = FALSE
      <3>1. reqs' \in 0..MaxRequests /\ bpc' \in BpcStates
        BY <1>0, <2>2, InboxAssumption DEF Types, BpcStates
      <3>2. QED
        BY <1>0, <2>2, <3>1 DEF Types
    <2>3. QED
      BY <2>1, <2>2
  <1>3. (\A t : Unstarted(t)' <=> Unstarted(t)) /\ Afloat' = Afloat
    BY <1>1 DEF Unstarted, Afloat
  <1>4. IdInv'
    <2>1. \A s \in Subs : sub'[s] \in Outside => sub[s] \in Outside
      BY DEF Outside
    <2>2. Ordered(ops', queue', opid, cur')
      BY <1>0 DEF IdInv
    <2>3. (bpc' = "idle" <=> cur' = NoTurn) /\ (cur' \notin Subs => bpc' \in {"idle", "popped"})
      BY <1>0, <1>1 DEF IdInv
    <2>4. QED
      BY <1>0, <2>1, <2>2, <2>3, IdStep
  <1>5. PolInv'
    BY <1>0, PolKept
  <1>6. PlaceInv'
    <2>1. \A s \in Subs : home'[s] = NoTurn <=> sub'[s] \in {"new", "checking", "refused"}
      BY <1>0 DEF PlaceInv
    <2>2. \A s \in Subs : home'[s] # NoTurn => opid'[home'[s]] # 0
      BY <1>0 DEF PlaceInv
    <2>3. ASSUME NEW s \in Subs, sub'[s] = "pending"
          PROVE  home'[s] \in inboxes' /\ s \in SeqSet(pend'[home'[s]])
      <3>1. sub[s] = "pending" /\ s \notin G
        BY <2>3
      <3>2. home[s] \in inboxes /\ s \in SeqSet(pend[home[s]]) /\ home[s] \in Subs
        BY <1>0, <3>1 DEF PlaceInv, Types
      <3>3. QED
        BY <3>1, <3>2
    <2>4. ASSUME NEW t \in Subs, NEW s \in SeqSet(pend'[t]) PROVE sub'[s] = "pending" /\ home'[s] = t
      <3>1. s \in SeqSet(pend[t]) /\ s \notin G
        BY <2>4
      <3>2. s \in Subs
        BY <1>0, <3>1, SeqSetOf DEF Types
      <3>3. QED
        BY <1>0, <3>1, <3>2 DEF PlaceInv
    <2>5. ASSUME NEW s \in Subs, sub'[s] = "held" PROVE home'[s] \in inboxes' /\ s \in held'[home'[s]]
      <3>1. sub[s] = "held" /\ s \notin G
        BY <2>5
      <3>2. home[s] \in inboxes /\ s \in held[home[s]] /\ home[s] \in Subs
        BY <1>0, <3>1 DEF PlaceInv, Types
      <3>3. QED
        BY <3>1, <3>2
    <2>6. ASSUME NEW t \in Subs, NEW s \in held'[t] PROVE sub'[s] = "held" /\ home'[s] = t
      <3>1. s \in held[t] /\ s \notin G /\ s \in Subs
        BY <1>0, <2>6 DEF Types
      <3>2. sub[s] = "held" /\ home[s] = t
        BY <1>0, <3>1 DEF PlaceInv
      <3>3. QED
        BY <3>1, <3>2
    <2>7. ASSUME NEW t \in inboxes'
          PROVE  t \in Afloat' /\ (Unstarted(t)' => \E s \in Subs : held'[t] = {s})
      <3>1. t \in Subs /\ t \in Afloat /\ (Unstarted(t) => \E s \in Subs : held[t] = {s})
        BY <1>0, <2>7 DEF PlaceInv, Types
      <3>2. (Unstarted(t)' <=> Unstarted(t)) /\ (Unstarted(t) => held'[t] = held[t])
        BY <1>3, <3>1
      <3>3. QED
        BY <1>3, <3>1, <3>2
    <2>8. QED
      BY <2>1, <2>2, <2>3, <2>4, <2>5, <2>6, <2>7 DEF PlaceInv
  <1>7. CapInv'
    BY <1>0, CapShrinks, InboxAssumption
  <1>8. DoneInv'
    <2>1. \A s \in Subs : sub'[s] # "lost"
      BY <1>0 DEF DoneInv
    <2>2. CASE bpc = "consumed"
      BY <1>0, <1>1, <2>1, <2>2 DEF DoneInv
    <2>3. CASE bpc' = bpc
      <3>1. done /\ bpc # "idle" => cur \notin openIn /\ Empty(cur)
        BY <1>0 DEF DoneInv
      <3>2. Empty(cur) => Empty(cur)'
        <4>1. cur \in inboxes => cur \in Subs /\ pend[cur] \in Seq(Subs) /\ pend'[cur] \in Seq(Subs)
          BY <1>0 DEF Types
        <4>2. cur \in inboxes => (pend[cur] = <<>> => pend'[cur] = <<>>) /\ (held[cur] = {} => held'[cur] = {})
          BY <4>1, NonemptySeq
        <4>3. QED
          BY <4>2 DEF Empty
      <3>3. QED
        BY <1>0, <2>1, <2>3, <3>1, <3>2 DEF DoneInv
    <2>4. QED
      BY <1>1, <2>2, <2>3
  <1>9. ConsInv'
    BY <1>0, ConsKept, InboxAssumption DEF ConsInv
  <1>10. OrderInv'
    <2>1. \A s \in Subs : sub'[s] = "held" => sub[s] = "held" /\ (Unstarted(home[s])' => Unstarted(home[s]))
      BY <1>3 DEF Unstarted
    <2>2. \A s \in Subs : sub'[s] = "pending" => sub[s] = "pending"
      OBVIOUS
    <2>3. QED
      BY <1>0, <2>1, <2>2, OrderMoves
  <1>11. RiseInv'
    <2>1. \A t \in Subs : \A s \in held'[t], p \in SeqSet(pend'[t]) : Unstarted(t)' => acc'[s] < acc'[p]
      BY <1>0, <1>3 DEF RiseInv
    <2>2. HistInv'
      BY <1>0, HistStays DEF RiseInv
    <2>3. QED
      BY <1>0, <2>1, <2>2 DEF RiseInv
  <1>12. QED
    BY <1>2, <1>4, <1>5, <1>6, <1>7, <1>8, <1>9, <1>10, <1>11 DEF InboxInv

LEMMA RequestKeeps == ASSUME InboxInv, Request PROVE InboxInv'
  <1>0. Types /\ IdInv /\ PlaceInv /\ RiseInv
    BY DEF InboxInv
  <1>1. /\ bpc = "consumed" /\ owed' = FALSE
        /\ sub' = [s \in Subs |-> IF s \in held[cur] THEN "sent" ELSE sub[s]]
        /\ held' = [held EXCEPT ![cur] = {}]
        /\ reqs' = reqs + 1 /\ bpc' = "response"
        /\ UNCHANGED <<home, passed, chk, inboxes, openIn, pend, pol, cons, opid, nextOp, gen, confs,
                       ops, queue, open, cur, cut, stale, done, acc, accepted, inside, hist>>
    BY DEF Request, opVars, accVars
  <1>2. cur \in Subs /\ cur # NoTurn /\ ~Unstarted(cur)
    <2>1. cur \in Subs /\ cur # NoTurn
      BY <1>1, TurnRuns
    <2>2. QED
      BY <1>0, <1>1, <2>1 DEF IdInv, Ordered, Unstarted
  <1> DEFINE G == held[cur]
  <1>3. G \in SUBSET Subs /\ \A s \in G : sub[s] = "held" /\ home[s] = cur
    BY <1>0, <1>2 DEF PlaceInv, Types
  <1>4. /\ \A s \in Subs : sub'[s] = IF s \in G THEN "sent" ELSE sub[s]
        /\ sub' \in [Subs -> SubStates]
        /\ held' \in [Subs -> SUBSET Subs] /\ held'[cur] = {}
        /\ \A t \in Subs : t # cur => held'[t] = held[t]
        /\ pend' \in [Subs -> Seq(Subs)]
    BY <1>0, <1>1, <1>2 DEF Types, SubStates, Settled
  <1>5. ASSUME NEW t \in Subs
        PROVE  /\ SeqSet(pend'[t]) = SeqSet(pend[t]) \ G
               /\ Rising(acc, pend'[t])
               /\ held'[t] = held[t] \ G
               /\ Unstarted(t) => held'[t] = held[t]
    <2>1. \A s \in SeqSet(pend[t]) : sub[s] = "pending"
      BY <1>0 DEF PlaceInv
    <2>2. SeqSet(pend[t]) \ G = SeqSet(pend[t])
      BY <1>3, <2>1
    <2>3. Rising(acc, pend'[t])
      BY <1>0, <1>1 DEF RiseInv
    <2>4. CASE t = cur
      BY <1>1, <1>2, <1>4, <2>2, <2>3, <2>4
    <2>5. CASE t # cur
      <3>1. \A s \in held[t] : home[s] = t
        BY <1>0 DEF PlaceInv
      <3>2. held'[t] = held[t]
        BY <1>4, <2>5
      <3>3. held[t] \ G = held[t]
        BY <1>3, <2>5, <3>1
      <3>4. SeqSet(pend'[t]) = SeqSet(pend[t]) \ G
        BY <1>1, <2>2
      <3>5. QED
        BY <2>3, <3>2, <3>3, <3>4
    <2>6. QED
      BY <2>4, <2>5
  <1> HIDE DEF G
  <1>6. QED
    BY <1>1, <1>3, <1>4, <1>5, LeaveStep

LEMMA RemovePendingKeeps == ASSUME InboxInv, NEW z \in Subs, RemovePending(z) PROVE InboxInv'
  <1>0. Types /\ IdInv /\ PlaceInv /\ RiseInv
    BY DEF InboxInv
  <1> DEFINE h == home[z]
  <1>1. /\ sub[z] = "pending" /\ h \in inboxes
        /\ sub' = [sub EXCEPT ![z] = "removed"]
        /\ pend' = [pend EXCEPT ![h] = Without(@, z)]
        /\ UNCHANGED <<home, passed, chk, inboxes, openIn, held, pol, cons, opid, nextOp, gen, confs,
                       ops, queue, open, cur, bpc, cut, stale, done, reqs, owed, acc, accepted, inside, hist>>
    BY DEF RemovePending, opVars, runVars, accVars
  <1>2. h \in Subs /\ z \in SeqSet(pend[h]) /\ pend[h] \in Seq(Subs)
    BY <1>0, <1>1 DEF PlaceInv, Types
  <1> HIDE DEF h
  <1> DEFINE w == Without(pend[h], z)
  <1>3. w \in Seq(Subs) /\ SeqSet(w) = SeqSet(pend[h]) \ {z} /\ Rising(acc, w)
    <2>1. Rising(acc, pend[h]) /\ pend[h] \in Seq(Items) /\ acc \in [Items -> Nat]
      <3>1. Rising(acc, pend[h])
        BY <1>0, <1>2 DEF RiseInv
      <3>2. pend[h] \in Seq(Items)
        BY <1>2 DEF Items
      <3>3. acc \in [Items -> Nat]
        BY <1>0 DEF Types
      <3>4. QED
        BY <3>1, <3>2, <3>3
    <2>2. SeqSet(w) = SeqSet(pend[h]) \ {z} /\ Rising(acc, w)
      BY ONLY <1>2, <2>1, WithoutDoes
    <2>3. w \in Seq(Subs)
      <3> DEFINE f == [x \in Subs |-> acc[x]]
      <3>1. f \in [Subs -> Nat]
        BY <2>1 DEF Items
      <3>2. \A x \in SeqSet(pend[h]) : acc[x] = f[x]
        BY <1>2, SeqSetOf
      <3> HIDE DEF f
      <3>3. Rising(f, pend[h])
        BY <2>1, <3>2, RisingSame
      <3>4. QED
        BY <1>2, <3>1, <3>3, WithoutDoes
    <2>4. QED
      BY <2>2, <2>3
  <1> HIDE DEF w
  <1>4. /\ pend' \in [Subs -> Seq(Subs)] /\ pend'[h] = w
        /\ \A t \in Subs : t # h => pend'[t] = pend[t]
    <2>1. pend' = [pend EXCEPT ![h] = w]
      BY <1>1 DEF w
    <2>2. pend \in [Subs -> Seq(Subs)]
      BY <1>0 DEF Types
    <2>3. QED
      BY <1>2, <1>3, <2>1, <2>2
  <1> DEFINE G == {z}
  <1>5. /\ G \in SUBSET Subs /\ \A s \in G : sub[s] \in {"pending", "held"}
        /\ \A s \in Subs : sub'[s] = IF s \in G THEN "removed" ELSE sub[s]
        /\ sub' \in [Subs -> SubStates] /\ held' \in [Subs -> SUBSET Subs]
    BY <1>0, <1>1 DEF Types, SubStates, Settled
  <1>6. ASSUME NEW t \in Subs
        PROVE  /\ SeqSet(pend'[t]) = SeqSet(pend[t]) \ G
               /\ Rising(acc, pend'[t])
               /\ held'[t] = held[t] \ G
               /\ Unstarted(t) => held'[t] = held[t]
    <2>1. z \notin held[t]
      BY <1>0, <1>1 DEF PlaceInv
    <2>2. CASE t = h
      BY <1>1, <1>3, <1>4, <2>1, <2>2
    <2>3. CASE t # h
      <3>1. z \notin SeqSet(pend[t]) /\ Rising(acc, pend[t])
        BY <1>0, <2>3 DEF PlaceInv, RiseInv, h
      <3>2. QED
        BY <1>1, <1>4, <2>1, <2>3, <3>1
    <2>4. QED
      BY <2>2, <2>3
  <1> HIDE DEF G
  <1>7. QED
    BY <1>1, <1>4, <1>5, <1>6, LeaveStep

LEMMA RemoveInitialKeeps == ASSUME InboxInv, NEW z \in Subs, RemoveInitial(z) PROVE InboxInv'
  <1>0. Types /\ IdInv /\ PolInv /\ PlaceInv /\ CapInv /\ DoneInv /\ ConsInv /\ OrderInv /\ RiseInv
    BY DEF InboxInv
  <1> DEFINE u == home[z]
  <1>1. /\ sub[z] = "held" /\ u \in inboxes /\ u \in ops \cup queue
        /\ UNCHANGED <<home, passed, chk, opid, nextOp, gen, confs, open, cur, bpc, cut, stale, done, reqs,
                       owed, acc, accepted, inside, hist, cuts>>
    BY DEF RemoveInitial, Behind, runVars, accVars
  <1>2. u \in Subs /\ z \in held[u] /\ Unstarted(u) /\ u # NoTurn
    BY <1>0, <1>1, InboxAssumption DEF PlaceInv, Types, Unstarted
  <1>3. held[u] = {z}
    <2>1. \E x \in Subs : held[u] = {x}
      BY <1>0, <1>1, <1>2 DEF PlaceInv
    <2>2. QED
      BY <1>2, <2>1
  <1>4. u # cur
    BY <1>0, <1>1 DEF IdInv, Ordered
  <1>5. CASE pend[u] # <<>>
    <2> DEFINE h == Head(pend[u])
               r == Tail(pend[u])
    <2>1. /\ sub' = [sub EXCEPT ![z] = "removed", ![h] = "held"]
          /\ held' = [held EXCEPT ![u] = {h}]
          /\ pend' = [pend EXCEPT ![u] = r]
          /\ UNCHANGED <<inboxes, openIn, pol, cons, ops, queue>>
      BY <1>5 DEF RemoveInitial
    <2> HIDE DEF u
    <2>2. pend[u] \in Seq(Subs) /\ Rising(acc, pend[u])
      BY <1>0, <1>2 DEF Types, RiseInv
    <2>3. /\ r \in Seq(Subs) /\ h \in Subs /\ SeqSet(pend[u]) = SeqSet(r) \cup {h}
          /\ Rising(acc, r) /\ \A y \in SeqSet(r) : acc[h] < acc[y]
      BY <1>5, <2>2, TailDoes
    <2> HIDE DEF h, r
    <2>4. sub[h] = "pending" /\ home[h] = u /\ h # z
      BY <1>0, <1>1, <1>2, <2>3 DEF PlaceInv
    <2>5. h \notin SeqSet(r)
      <3>1. acc[h] \in Nat
        BY <1>0, <2>3 DEF Types, Items
      <3>2. QED
        BY <2>3, <3>1
    <2>6. /\ sub' \in [Subs -> SubStates] /\ sub'[z] = "removed" /\ sub'[h] = "held"
          /\ \A s \in Subs : s # z /\ s # h => sub'[s] = sub[s]
      BY <1>0, <2>1, <2>3, <2>4 DEF Types, SubStates, Settled
    <2>7. /\ held' \in [Subs -> SUBSET Subs] /\ held'[u] = {h}
          /\ \A t \in Subs : t # u => held'[t] = held[t]
      BY <1>0, <1>2, <2>1, <2>3 DEF Types
    <2>8. /\ pend' \in [Subs -> Seq(Subs)] /\ pend'[u] = r
          /\ \A t \in Subs : t # u => pend'[t] = pend[t]
      <3>1. pend \in [Subs -> Seq(Subs)]
        BY <1>0 DEF Types
      <3>2. QED
        BY <1>2, <2>1, <2>3, <3>1
    <2>9. Types'
      BY <1>0, <1>1, <2>1, <2>6, <2>7, <2>8 DEF Types
    <2>10. (\A t : Unstarted(t)' <=> Unstarted(t)) /\ Afloat' = Afloat
      BY <1>1, <2>1 DEF Unstarted, Afloat
    <2>11. IdInv'
      <3>1. \A s \in Subs : sub'[s] \in Outside => sub[s] \in Outside
        BY <2>6 DEF Outside
      <3>2. QED
        BY <1>0, <1>1, <2>1, <3>1, IdStep DEF IdInv
    <2>12. PolInv'
      BY <1>0, <1>1, <2>1, PolKept
    <2>13. PlaceInv'
      <3>1. \A s \in Subs : home'[s] = NoTurn <=> sub'[s] \in {"new", "checking", "refused"}
        BY <1>0, <1>1, <2>4, <2>6 DEF PlaceInv
      <3>2. \A s \in Subs : home'[s] # NoTurn => opid'[home'[s]] # 0
        BY <1>0, <1>1 DEF PlaceInv
      <3>3. ASSUME NEW s \in Subs, sub'[s] = "pending"
            PROVE  home'[s] \in inboxes' /\ s \in SeqSet(pend'[home'[s]])
        <4>1. sub[s] = "pending" /\ s # h
          BY <2>6, <3>3
        <4>2. home[s] \in inboxes /\ s \in SeqSet(pend[home[s]]) /\ home[s] \in Subs
          BY <1>0, <4>1 DEF PlaceInv, Types
        <4>3. QED
          BY <1>1, <2>1, <2>3, <2>8, <4>1, <4>2
      <3>4. ASSUME NEW t \in Subs, NEW s \in SeqSet(pend'[t]) PROVE sub'[s] = "pending" /\ home'[s] = t
        <4>1. s \in SeqSet(pend[t]) /\ s # h
          <5>1. CASE t = u
            BY <2>3, <2>5, <2>8, <3>4, <5>1
          <5>2. CASE t # u
            BY <1>0, <2>4, <2>8, <3>4, <5>2 DEF PlaceInv
          <5>3. QED
            BY <5>1, <5>2
        <4>2. s \in Subs /\ sub[s] = "pending" /\ home[s] = t
          BY <1>0, <4>1, SeqSetOf DEF PlaceInv, Types
        <4>3. QED
          BY <1>1, <2>6, <4>1, <4>2
      <3>5. ASSUME NEW s \in Subs, sub'[s] = "held" PROVE home'[s] \in inboxes' /\ s \in held'[home'[s]]
        <4>1. CASE s = h
          BY <1>1, <2>1, <2>4, <2>7, <4>1 DEF u
        <4>2. CASE s # h
          <5>1. sub[s] = "held" /\ s # z
            BY <2>6, <3>5, <4>2
          <5>2. home[s] \in inboxes /\ s \in held[home[s]] /\ home[s] \in Subs
            BY <1>0, <5>1 DEF PlaceInv, Types
          <5>3. QED
            BY <1>1, <1>3, <2>1, <2>7, <5>1, <5>2
        <4>3. QED
          BY <4>1, <4>2
      <3>6. ASSUME NEW t \in Subs, NEW s \in held'[t] PROVE sub'[s] = "held" /\ home'[s] = t
        <4>1. CASE t = u
          BY <1>1, <2>4, <2>6, <2>7, <3>6, <4>1
        <4>2. CASE t # u
          <5>1. s \in Subs /\ sub[s] = "held" /\ home[s] = t
            BY <1>0, <2>7, <3>6, <4>2 DEF PlaceInv, Types
          <5>2. QED
            BY <1>1, <2>4, <2>6, <4>2, <5>1 DEF u
        <4>3. QED
          BY <4>1, <4>2
      <3>7. ASSUME NEW t \in inboxes'
            PROVE  t \in Afloat' /\ (Unstarted(t)' => \E s \in Subs : held'[t] = {s})
        <4>1. t \in Subs /\ t \in Afloat /\ (Unstarted(t) => \E s \in Subs : held[t] = {s})
          BY <1>0, <2>1, <3>7 DEF PlaceInv, Types
        <4>2. CASE t = u
          BY <2>3, <2>7, <2>10, <4>1, <4>2
        <4>3. CASE t # u
          <5>1. held'[t] = held[t] /\ (Unstarted(t)' <=> Unstarted(t))
            BY <2>7, <2>10, <4>1, <4>3
          <5>2. QED
            BY <2>10, <4>1, <5>1
        <4>4. QED
          BY <4>2, <4>3
      <3>8. QED
        BY <3>1, <3>2, <3>3, <3>4, <3>5, <3>6, <3>7 DEF PlaceInv
    <2>14. CapInv'
      <3>1. \A s \in Subs : sub'[s] \in {"pending", "held"} => sub[s] \in {"pending", "held"}
        BY <2>4, <2>6
      <3>2. QED
        BY <1>0, <3>1, CapShrinks, InboxAssumption
    <2>15. DoneInv'
      <3>1. \A s \in Subs : sub'[s] # "lost"
        BY <1>0, <2>6 DEF DoneInv
      <3>2. cur \in inboxes' => cur \in inboxes /\ pend'[cur] = pend[cur] /\ held'[cur] = held[cur]
        BY <1>0, <1>4, <2>1, <2>7, <2>8 DEF Types, u
      <3>3. QED
        BY <1>0, <1>1, <2>1, <3>1, <3>2, DoneKept
    <2>16. ConsInv'
      <3>1. \A s \in Subs : sub'[s] \in {"pending", "held"} => sub[s] \in {"pending", "held"}
        BY <2>4, <2>6
      <3>2. \A s \in Subs : sub'[s] = "checking" => sub[s] = "checking" /\ chk'[s] = chk[s]
        BY <1>1, <2>6
      <3>3. \A t \in Subs : cons'[t] \subseteq cons[t] /\ (cons'[t] # {} => t \in ops')
        BY <1>0, <2>1 DEF ConsInv
      <3>4. \A s \in Subs : sub'[s] \in {"pending", "held"} =>
               /\ sub[s] \in {"pending", "held"}
               /\ s \in cons[home[s]] => \/ s \in cons'[home[s]]
                                         \/ passed'[s] = pol'[home[s]] /\ pol'[home[s]] # 0
        BY <2>1, <3>1
      <3>5. QED
        BY <1>0, <1>1, <2>1, <3>2, <3>3, <3>4, ConsKept, InboxAssumption
    <2>17. OrderInv'
      <3>1. \A s \in Subs : sub'[s] = "pending" => sub[s] = "pending"
        BY <2>6
      <3>2. \A s \in Subs : sub'[s] = "held" =>
               \/ sub[s] = "pending"
               \/ sub[s] = "held" /\ (Unstarted(home[s])' => Unstarted(home[s]))
        <4>1. \A s \in Subs : Unstarted(home[s])' => Unstarted(home[s])
          BY <1>1, <2>1 DEF Unstarted
        <4>2. QED
          BY <2>4, <2>6, <4>1
      <3>3. QED
        BY <1>0, <1>1, <2>1, <3>1, <3>2, OrderMoves
    <2>18. RiseInv'
      <3>1. ASSUME NEW t \in Subs
            PROVE  /\ Rising(acc', pend'[t])
                   /\ \A s \in held'[t], p \in SeqSet(pend'[t]) : Unstarted(t)' => acc'[s] < acc'[p]
        <4>1. CASE t = u
          BY <1>1, <2>3, <2>7, <2>8, <4>1
        <4>2. CASE t # u
          BY <1>0, <1>1, <2>7, <2>8, <2>10, <4>2 DEF RiseInv
        <4>3. QED
          BY <4>1, <4>2
      <3>2. HistInv'
        BY <1>0, <1>1, HistStays DEF RiseInv
      <3>3. QED
        BY <1>0, <1>1, <3>1, <3>2 DEF RiseInv
    <2>19. QED
      BY <2>9, <2>11, <2>12, <2>13, <2>14, <2>15, <2>16, <2>17, <2>18 DEF InboxInv
  <1>6. CASE pend[u] = <<>>
    <2>1. /\ sub' = [sub EXCEPT ![z] = "removed"]
          /\ inboxes' = inboxes \ {u} /\ openIn' = openIn \ {u}
          /\ held' = [held EXCEPT ![u] = {}]
          /\ cons' = [cons EXCEPT ![u] = {}]
          /\ Drive(ops \ {u}, queue \ {u}, opid, gen, cons)
          /\ pend' = pend
      BY <1>6 DEF RemoveInitial
    <2> HIDE DEF u
    <2>2. \A s \in Subs : home[s] \in {u} /\ s \in Live(home[s]) <=> s = z
      <3>1. SeqSet(pend[u]) = {}
        BY <1>6, EmptySeqDoes
      <3>2. \A s \in Subs : home[s] = u /\ sub[s] \in {"pending", "held"} => s = z
        BY <1>0, <1>3, <3>1 DEF PlaceInv
      <3>3. \A s \in Subs : home[s] = u => sub[s] \notin {"new", "checking", "refused"}
        BY <1>0, <1>2 DEF PlaceInv
      <3>4. \A s \in Subs : home[s] = u /\ s \in Live(u) => sub[s] \in {"pending", "held"}
        BY <1>0, <3>3 DEF Live, Settled, Types, SubStates
      <3>5. home[z] = u /\ z \in Live(u)
        BY <1>1 DEF Live, Settled, u
      <3>6. QED
        BY <3>2, <3>4, <3>5
    <2> DEFINE T == {u}
               o == ops \ {u}
               q == queue \ {u}
    <2>3. DropTurns(T, "removed")
      <3>1. sub' = [s \in Subs |-> IF home[s] \in T /\ s \in Live(home[s]) THEN "removed" ELSE sub[s]]
        <4>1. sub \in [Subs -> SubStates]
          BY <1>0 DEF Types
        <4>2. QED
          BY <2>1, <2>2, <4>1
      <3>2. /\ pend' = [t \in Subs |-> IF t \in T THEN <<>> ELSE pend[t]]
            /\ held' = [t \in Subs |-> IF t \in T THEN {} ELSE held[t]]
            /\ cons' = [t \in Subs |-> IF t \in T THEN {} ELSE cons[t]]
        BY <1>0, <1>6, <2>1 DEF Types
      <3>3. QED
        BY <2>1, <3>1, <3>2 DEF DropTurns
    <2>4. o \in SUBSET ops /\ q \in SUBSET queue /\ Drive(o, q, opid, gen, cons) /\ T \in SUBSET Subs
      BY <1>2, <2>1
    <2>5. open' \in BOOLEAN /\ cut' \in BOOLEAN /\ stale' \in BOOLEAN
      BY <1>0, <1>1 DEF Types
    <2>6. /\ \A t \in Subs \ T : t \in ops => t \in o
          /\ \A t \in Subs \ T : t \in queue => t \in q
      OBVIOUS
    <2> HIDE DEF o, q, T
    <2>7. /\ Ordered(ops', queue', opid, cur)
          /\ PolInv' /\ PolSteady
          /\ ops' \cup queue' = o \cup q /\ ops' \subseteq o
          /\ pol' \in [Subs \cup Compactions -> Nat]
      BY <1>1, <2>4, LessOps
    <2>8. /\ \A t \in Subs \ T : t \in ops => t \in ops' \cup queue'
          /\ \A t \in Subs \ T : t \in ops /\ cons[t] # {} => t \in ops'
          /\ \A t \in Subs \ T : t \in queue => t \in queue'
      BY <2>4, <2>6, DriveKeepsTurns
    <2>9. QED
      BY <1>1, <2>3, <2>4, <2>5, <2>7, <2>8, DropStep
  <1>7. QED
    BY <1>5, <1>6

-----------------------------------------------------------------------------
(* The invariant is inductive, and implies what the run checks.            *)

LEMMA InitEstablishes == ASSUME Init PROVE InboxInv
  <1>1. /\ sub = [s \in Subs |-> "new"] /\ home = [s \in Subs |-> NoTurn]
        /\ passed = [s \in Subs |-> 0] /\ chk = [s \in Subs |-> NoCheck]
        /\ inboxes = {} /\ openIn = {}
        /\ pend = [t \in Subs |-> <<>>] /\ held = [t \in Subs |-> {}]
        /\ pol = [i \in Subs \cup Compactions |-> 0] /\ cons = [t \in Subs |-> {}]
        /\ opid = [i \in Items |-> 0] /\ nextOp = 0 /\ gen = 1
        /\ confs = [c \in Configs |-> 0]
        /\ ops = {} /\ queue = {} /\ open = TRUE
        /\ cur = NoTurn /\ bpc = "idle" /\ cut = FALSE /\ stale = FALSE /\ done = FALSE
        /\ reqs = 0 /\ owed = FALSE
        /\ acc = [i \in Items |-> 0] /\ accepted = 0 /\ hist = <<>>
        /\ inside = [c \in Compactions |-> NoTurn]
    BY DEF Init
  <1>2. NoTurn \notin Items /\ NoTurn \notin Subs /\ NoTurn \notin Configs /\ SeqSet(hist) = {}
    BY <1>1, InboxAssumption, EmptySeqDoes DEF Items
  <1>3. Types
    <2>1. /\ pend \in [Subs -> Seq(Subs)] /\ hist \in Seq(Items)
          /\ chk \in [Subs -> CheckRecords]
      BY <1>1, NoCheckIs
    <2>2. reqs \in 0..MaxRequests /\ bpc \in BpcStates
      BY <1>1, InboxAssumption DEF BpcStates
    <2>3. /\ sub \in [Subs -> SubStates]
          /\ home \in [Subs -> Subs \cup {NoTurn}] /\ passed \in [Subs -> Nat]
          /\ held \in [Subs -> SUBSET Subs]
          /\ pol \in [Subs \cup Compactions -> Nat] /\ cons \in [Subs -> SUBSET Subs]
          /\ opid \in [Items -> Nat] /\ confs \in [Configs -> Nat] /\ acc \in [Items -> Nat]
          /\ inside \in [Compactions -> Subs \cup {NoTurn}]
      BY <1>1 DEF SubStates
    <2>4. nextOp \in Nat /\ gen \in Nat \ {0} /\ accepted \in Nat
      BY <1>1
    <2>5. /\ openIn \subseteq inboxes /\ inboxes \subseteq Subs
          /\ ops \subseteq Items /\ queue \subseteq Items /\ cur \in Items \cup {NoTurn}
          /\ open \in BOOLEAN /\ cut \in BOOLEAN /\ stale \in BOOLEAN /\ done \in BOOLEAN /\ owed \in BOOLEAN
          /\ bpc # "consumed"
      BY <1>1
    <2>6. QED
      BY <2>1, <2>2, <2>3, <2>4, <2>5 DEF Types
  <1>4. IdInv
    BY <1>1, <1>2 DEF IdInv, Ordered, Items
  <1>5. PolInv
    BY <1>1, <1>2 DEF PolInv, PolOver, First
  <1>6. PlaceInv
    <2>1. \A t \in Subs : SeqSet(pend[t]) = {}
      BY <1>1, EmptySeqDoes
    <2>2. QED
      BY <1>1, <2>1 DEF PlaceInv
  <1>7. CapInv
    <2>1. Outs = {}
      BY <1>1 DEF Outs
    <2>2. QED
      BY <2>1, FS_EmptySet, InboxAssumption DEF CapInv
  <1>8. DoneInv
    BY <1>1 DEF DoneInv
  <1>9. ConsInv
    BY <1>1, <1>2, InboxAssumption DEF ConsInv
  <1>10. OrderInv
    <2>1. Insiders = {} /\ Plain = {}
      BY <1>1, <1>2 DEF Insiders, Plain
    <2>2. \A x \in Items : ~Placed(x) /\ ~Coming(x)
      BY <1>1, <1>2, <2>1 DEF Placed, Coming, Control, Afloat
    <2>3. QED
      BY <1>1, <1>2, <2>1, <2>2 DEF OrderInv
  <1>11. RiseInv
    BY <1>1, EmptySeqDoes DEF RiseInv, HistInv
  <1>12. QED
    BY <1>3, <1>4, <1>5, <1>6, <1>7, <1>8, <1>9, <1>10, <1>11 DEF InboxInv

LEMMA StutterKeeps == ASSUME InboxInv, UNCHANGED vars PROVE InboxInv'
  <1>1. UNCHANGED <<sub, home, passed, chk, inboxes, openIn, pend, held, pol, cons, opid, nextOp, gen,
                    confs, ops, queue, open, cur, bpc, cut, stale, done, reqs, owed, acc, accepted, inside, hist>>
    BY DEF vars, subVars, inboxVars, opVars, runVars, accVars
  <1>0. Types /\ IdInv /\ PolInv /\ PlaceInv
    BY DEF InboxInv
  <1>2. Types'
    BY <1>1, <1>0 DEF Types
  <1>3. IdInv'
    BY <1>1, <1>0 DEF IdInv
  <1>4. PolInv'
    BY <1>1, <1>0, PolKept
  <1>5. PlaceInv'
    BY <1>1, <1>0 DEF PlaceInv, Afloat, Unstarted
  <1>6. Types' /\ IdInv' /\ PolInv' /\ PlaceInv'
    BY <1>2, <1>3, <1>4, <1>5
  <1>7. CapInv' /\ DoneInv' /\ ConsInv'
    BY <1>1 DEF InboxInv, CapInv, Outs, DoneInv, Empty, ConsInv
  <1>8. OrderInv' /\ RiseInv'
    <2>1. OrderInv /\ RiseInv
      BY DEF InboxInv
    <2>2. \A t : Unstarted(t)' <=> Unstarted(t)
      BY <1>1 DEF Unstarted
    <2>3. \A s \in Subs : Unstarted(home[s])' => Unstarted(home[s])
      BY <1>1 DEF Unstarted
    <2>4. OrderInv'
      BY <1>0, <1>1, <2>1, <2>3, OrderMoves
    <2>5. RiseInv'
      BY <1>1, <2>1, <2>2, RiseKept
    <2>6. QED
      BY <2>4, <2>5
  <1>9. QED
    BY <1>6, <1>7, <1>8 DEF InboxInv

LEMMA NextKeeps == ASSUME InboxInv, [Next]_vars PROVE InboxInv'
  <1>1. ASSUME NEW s \in Subs, Submit(s) \/ Check(s) \/ RemovePending(s) \/ RemoveInitial(s)
        PROVE  InboxInv'
    BY <1>1, SubmitJoinsKeeps, SubmitChecksKeeps, SubmitStartsKeeps, SubmitRefusedKeeps,
       CheckRefusesKeeps, CheckPassesKeeps, CheckStaleKeeps, RemovePendingKeeps, RemoveInitialKeeps
       DEF Submit, Check
  <1>2. CASE OperationMoves
    BY <1>2, ConfigEndsKeeps, MaterializeKeeps, AdmissionFailsKeeps DEF OperationMoves
  <1>3. CASE TurnMoves
    BY <1>3, RunnerPopsKeeps, RunControlKeeps, StartTurnKeeps, ConsumesKeep, RequestKeeps, MovesKeep,
       InterruptKeeps, RetireTurnKeeps DEF TurnMoves
  <1>4. QED
    BY <1>1, <1>2, <1>3, EnqueueKeeps, CancelTurnKeeps, CancelExistingKeeps, CloseKeeps, StutterKeeps
       DEF Next

\* The inductive invariant holds in every reachable state.
THEOREM InboxCorrect == Spec => []InboxInv
  <1>1. Init => InboxInv
    BY InitEstablishes
  <1>2. InboxInv /\ [Next]_vars => InboxInv'
    BY NextKeeps
  <1>3. QED
    BY <1>1, <1>2, PTL DEF Spec

\* However submissions join, are taken back and are drained, each is in the
\* inbox its state says and no more are outstanding than the capacity allows.
THEOREM InboxTypeOK == Spec => []TypeOK
  <1>1. InboxInv => TypeOK
    <2> SUFFICES ASSUME InboxInv PROVE TypeOK
      OBVIOUS
    <2>0. Types /\ PlaceInv /\ CapInv
      BY DEF InboxInv
    <2>1. Outstanding <= MaxOutstanding
      BY <2>0 DEF CapInv, Outs, Outstanding
    <2>2. ASSUME NEW s \in Subs PROVE sub[s] = "pending" <=> \E t \in inboxes : s \in SeqSet(pend[t])
      BY <2>0 DEF PlaceInv, Types
    <2>3. ASSUME NEW s \in Subs PROVE sub[s] = "held" <=> \E t \in inboxes : s \in held[t]
      BY <2>0 DEF PlaceInv, Types
    <2>4. /\ sub \in [Subs -> {"new", "checking", "pending", "held"} \cup Settled]
          /\ home \in [Subs -> Subs \cup {NoTurn}] /\ passed \in [Subs -> Nat]
          /\ openIn \subseteq inboxes /\ inboxes \subseteq Subs
          /\ nextOp \in Nat /\ gen \in Nat /\ reqs \in 0..MaxRequests
          /\ ops \cup queue \subseteq Items /\ cur \in Items \cup {NoTurn}
          /\ {open, cut, stale, done, owed} \subseteq BOOLEAN
      BY <2>0 DEF Types, SubStates
    <2>5. QED
      BY <2>0, <2>1, <2>2, <2>3, <2>4 DEF TypeOK, Types, BpcStates
  <1>2. QED
    BY <1>1, InboxCorrect, PTL

\* No turn completes over an instruction it accepted: close_admission finds the
\* inbox empty and closes it in one critical section, and nothing joins after.
THEOREM NothingIsLost == Spec => []NoLostInstruction
  <1>1. InboxInv => NoLostInstruction
    BY DEF InboxInv, DoneInv, NoLostInstruction
  <1>2. QED
    BY <1>1, InboxCorrect, PTL

\* Work takes effect in the order of acceptance, a compaction executed inside a
\* turn excepted, which comes before what waits in that turn's inbox and before
\* no other work; each submission runs under the policy of its place among the
\* configuration changes.
THEOREM EffectsAreOrdered == Spec => []AcceptanceOrder
  <1>1. InboxInv => AcceptanceOrder
    <2> SUFFICES ASSUME InboxInv PROVE AcceptanceOrder
      OBVIOUS
    <2>0. Types /\ PolInv /\ ConsInv /\ OrderInv /\ RiseInv
      BY DEF InboxInv
    <2>1. \A i, j \in DOMAIN hist :
             i < j => acc[hist[i]] < acc[hist[j]] \/ TakenInside(hist[i], hist[j])
      BY <2>0 DEF RiseInv, HistInv, Before
    <2>2. ASSUME NEW s \in Subs, s \in SeqSet(hist), NEW c \in Configs, confs[c] # 0
          PROVE  confs[c] <= pol[home[s]] <=> acc[c] < acc[s]
      <3>1. home[s] \in Subs /\ pol[home[s]] # 0
        BY <2>0, <2>2 DEF ConsInv
      <3>2. confs[c] <= pol[home[s]] <=> opid[c] < opid[home[s]]
        BY <2>0, <2>2, <3>1 DEF PolInv, PolOver
      <3>3. /\ Placed(s) /\ Placed(c) /\ OpOf(s) = home[s] /\ OpOf(c) = c
            /\ s \in Items /\ c \in Items
        <4>1. s \in Plain
          BY <2>2, InboxAssumption DEF Plain, Insiders
        <4>2. QED
          BY <2>2, <4>1, InboxAssumption DEF Placed, OpOf, Items
      <3>4. opid[c] < opid[home[s]] => acc[c] < acc[s]
        BY <2>0, <3>3 DEF OrderInv
      <3>5. opid[home[s]] < opid[c] => acc[s] < acc[c]
        BY <2>0, <3>3 DEF OrderInv
      <3>6. /\ opid[c] \in Nat /\ opid[home[s]] \in Nat /\ opid[c] # opid[home[s]]
            /\ acc[c] \in Nat /\ acc[s] \in Nat
        <4>1. home[s] \in Items /\ home[s] # c
          BY <3>1, InboxAssumption DEF Items
        <4>2. opid[c] # 0
          BY <2>0, <3>3 DEF OrderInv
        <4>3. \A i, j \in Items : opid[i] = opid[j] /\ opid[i] # 0 => i = j
          BY DEF InboxInv, IdInv
        <4>4. QED
          BY <2>0, <3>3, <4>1, <4>2, <4>3 DEF Types
      <3>7. QED
        BY <3>2, <3>4, <3>5, <3>6
    <2>3. QED
      BY <2>1, <2>2 DEF AcceptanceOrder
  <1>2. QED
    BY <1>1, InboxCorrect, PTL

\* A constrained submission is executed only under a policy that passed its
\* constraint, whichever of the three places checked it.
THEOREM ConstraintsHold == Spec => []ConstraintHolds
  <1>1. InboxInv => ConstraintHolds
    BY InboxAssumption DEF InboxInv, ConsInv, ConstraintHolds
  <1>2. QED
    BY <1>1, InboxCorrect, PTL
=============================================================================
