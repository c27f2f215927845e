-------------------------- MODULE ImageTasksProofs --------------------------
(***************************************************************************)
(* Proofs about ImageTasks for any number of tasks of any kinds, of agent  *)
(* tasks, submissions, profile changes and faults.                         *)
(*                                                                         *)
(* The invariant says for each task who works on it and what its records   *)
(* may say, and for the queue of requests what the store will hold once    *)
(* they are through.  One lemma per action shows that it keeps all of it   *)
(* and that no ended task changes (Keeps).                                 *)
(***************************************************************************)
EXTENDS ImageTasks, SequenceTheorems, FiniteSetTheorems, TLAPS

\* A request to IndexedDB that changes the stored record of t.
Affects(w, t) == w.op # "scrub" /\ (w.op = "clear" \/ w.task = t)

\* Once the requests q are through, a store that is d now holds r for t.
Ends(q, d, t, r) ==
    \/ d[t] = r /\ \A i \in DOMAIN q : ~Affects(q[i], t)
    \/ \E i \in DOMAIN q : /\ Affects(q[i], t) /\ q[i].op # "clear" /\ q[i].rec = r
                           /\ \A j \in DOMAIN q : j > i => ~Affects(q[j], t)

\* No two first puts of the same task are under way.
Once(q) ==
    \A i, j \in DOMAIN q :
        q[i].op = "insert" /\ q[j].op = "insert" /\ q[i].task = q[j].task => i = j

Names(w, t) == w.op \notin {"scrub", "clear"} /\ w.task = t

Idle(t) == exec[t] = "idle" /\ recovery[t] = "idle" /\ t \notin timers /\ t \notin watchdog

\* An id that was not generated yet is known nowhere.
Fresh(t) ==
    /\ mem[t] = NoTask /\ db[t] = NoTask /\ stored[t] = NoTask
    /\ removing.list[t] = NoTask /\ t \notin removing.ids
    /\ Idle(t)
    /\ \A w \in Range(writes) : ~Names(w, t)

\* The first put of a task belongs to the submission that awaits it.
InsertInv ==
    /\ \A w \in Range(writes) : w.op = "insert" => w.task \in Tasks /\ exec[w.task] = "inserting"
    /\ Once(writes)

\* clearData awaits its own request, and what initStore read before it is spoiled.
ClearInv ==
    /\ \A w \in Range(writes) : w.op = "clear" => clearing
    /\ clearing => \A t \in Ids : stored[t] # NoTask => t \in spoiled

\* The list a suspended removal will set has lost the removed tasks.
RemovalInv == \A t \in removing.ids : removing.list[t] = NoTask

\* A task initStore has read and not yet shown is nowhere else on the page.
Loading(t) ==
    /\ page = "ready" => stored[t] = NoTask
    /\ stored[t] # NoTask =>
        /\ mem[t] = NoTask /\ removing.list[t] = NoTask /\ t \notin removing.ids
        /\ t \in Tasks => Idle(t)

\* Only queued jobs have a remote id, and only failed ones with an id are recoverable.
GoodRec(t, r) ==
    /\ r.remote => Kind[t] \in {"fal", "custom"}
    /\ r.recoverable => r.status = "error" /\ r.remote
GoodRecs(t) ==
    /\ GoodRec(t, mem[t]) /\ GoodRec(t, db[t]) /\ GoodRec(t, stored[t])
    /\ \A w \in Range(writes) : Names(w, t) => GoodRec(t, w.rec)

\* Who is going to end a task, and what state it is in for them.
Runner(t) ==
    /\ Running(t) => exec[t] # "idle" \/ t \in timers \/ recovery[t] # "idle"
    /\ mem[t].recoverable => t \in timers \/ recovery[t] # "idle"
    /\ Present(t) /\ (t \in timers \/ recovery[t] # "idle") => ~Settled(mem[t]) /\ mem[t].remote
    /\ Present(t) /\ exec[t] # "idle" /\ ~Running(t) => Kind[t] = "single"
    /\ Present(t) /\ exec[t] = "polling" => mem[t].remote
    /\ exec[t] = "polling" => Kind[t] \in {"fal", "custom"}
    /\ Running(t) /\ Kind[t] = "single" /\ exec[t] \in {"loading", "calling", "storing", "stalled"} =>
        t \in watchdog
    /\ t \in watchdog => Kind[t] = "single"

\* What the store will hold: the record in memory, or the one initStore shows next.
Store(t) ==
    /\ ~clearing /\ Present(t) => Ends(writes, db, t, mem[t])
    /\ stored[t] # NoTask => Ends(writes, db, t, stored[t])

\* At most one of them at a time, whatever happened to the task.
One(t) ==
    /\ t \in timers => exec[t] = "idle" /\ recovery[t] = "idle"
    /\ recovery[t] # "idle" => exec[t] = "idle"

IndInv ==
    /\ TypeOK /\ InsertInv /\ ClearInv /\ RemovalInv
    /\ \A t \in Ids : Loading(t)
    /\ \A t \in Tasks : One(t) /\ (t \notin used => Fresh(t))
    /\ \A t \in Tasks \ spoiled : GoodRecs(t) /\ Runner(t)
    /\ \A t \in Ids \ spoiled : Store(t)

\* What SettledStays says of one task.
Stays(t) == Present(t) /\ Settled(mem[t]) /\ mem'[t] # NoTask => mem'[t] = mem[t]

\* What every step is shown to do.
Keeps == IndInv' /\ \A t \in Ids \ spoiled' : Stays(t)

-----------------------------------------------------------------------------
(***************************************************************************)
(* Sequences of requests.                                                  *)
(***************************************************************************)
LEMMA RangeFacts ==
    ASSUME NEW S, NEW q \in Seq(S)
    PROVE  /\ \A i \in DOMAIN q : q[i] \in Range(q)
           /\ \A w \in Range(q) : w \in S /\ \E i \in DOMAIN q : q[i] = w
<1>1. DOMAIN q = 1..Len(q) /\ \A i \in 1..Len(q) : q[i] \in S
    BY LenProperties, ElementOfSeq
<1> QED
    BY <1>1 DEF Range

LEMMA AppendFacts ==
    ASSUME NEW S, NEW q \in Seq(S), NEW w \in S
    PROVE  /\ Append(q, w) \in Seq(S)
           /\ Len(q) \in Nat /\ DOMAIN q = 1..Len(q) /\ DOMAIN Append(q, w) = 1..(Len(q) + 1)
           /\ \A i \in 1..Len(q) : Append(q, w)[i] = q[i]
           /\ Append(q, w)[Len(q) + 1] = w
OBVIOUS

LEMMA ConcatFacts ==
    ASSUME NEW S, NEW q \in Seq(S), NEW p \in Seq(S)
    PROVE  /\ q \o p \in Seq(S)
           /\ Len(q) \in Nat /\ Len(p) \in Nat /\ DOMAIN q = 1..Len(q) /\ DOMAIN p = 1..Len(p)
           /\ DOMAIN (q \o p) = 1..(Len(q) + Len(p))
           /\ \A i \in 1..Len(q) : (q \o p)[i] = q[i]
           /\ \A i \in 1..Len(p) : (q \o p)[Len(q) + i] = p[i]
           /\ \A i \in 1..(Len(q) + Len(p)) : i \in 1..Len(q) \/ (i - Len(q)) \in 1..Len(p)
<1>1. /\ q \o p \in Seq(S) /\ Len(q \o p) = Len(q) + Len(p)
      /\ \A i \in 1 .. Len(q) + Len(p) : (q \o p)[i] = IF i <= Len(q) THEN q[i] ELSE p[i - Len(q)]
    BY ConcatProperties
<1>2. Len(q) \in Nat /\ Len(p) \in Nat /\ DOMAIN q = 1..Len(q) /\ DOMAIN p = 1..Len(p)
    BY LenProperties
<1>3. DOMAIN (q \o p) = 1..(Len(q) + Len(p))
    BY <1>1, LenProperties
<1>4. \A i \in 1..Len(p) : /\ Len(q) + i \in 1..(Len(q) + Len(p)) /\ ~(Len(q) + i <= Len(q))
                           /\ (Len(q) + i) - Len(q) = i
    BY <1>2
<1>5. \A i \in 1..Len(p) : (q \o p)[Len(q) + i] = p[i]
    BY <1>1, <1>2, <1>4
<1>6. \A i \in 1..Len(q) : (q \o p)[i] = q[i]
    BY <1>1, <1>2
<1> QED
    BY <1>1, <1>2, <1>3, <1>5, <1>6

LEMMA TailFacts ==
    ASSUME NEW S, NEW q \in Seq(S), q # <<>>
    PROVE  /\ Tail(q) \in Seq(S) /\ Head(q) \in S /\ Head(q) = q[1]
           /\ Len(q) \in Nat \ {0} /\ DOMAIN q = 1..Len(q) /\ DOMAIN Tail(q) = 1..(Len(q) - 1)
           /\ \A i \in 1..(Len(q) - 1) : Tail(q)[i] = q[i + 1]
<1>1. /\ Tail(q) \in Seq(S) /\ Head(q) \in S /\ Len(Tail(q)) = Len(q) - 1
      /\ \A i \in 1 .. Len(Tail(q)) : Tail(q)[i] = q[i + 1]
    BY HeadTailProperties
<1>2. Len(q) \in Nat \ {0} /\ DOMAIN q = 1..Len(q)
    BY EmptySeq, LenProperties
<1>3. DOMAIN Tail(q) = 1..(Len(q) - 1)
    BY <1>1, LenProperties
<1> QED
    BY <1>1, <1>2, <1>3

LEMMA RangeAppend ==
    ASSUME NEW S, NEW q \in Seq(S), NEW w \in S
    PROVE  Append(q, w) \in Seq(S) /\ Range(Append(q, w)) = Range(q) \cup {w}
<1>1. DOMAIN Append(q, w) = DOMAIN q \cup {Len(q) + 1}
    BY AppendFacts
<1> QED
    BY <1>1, AppendFacts DEF Range

LEMMA RangeConcat ==
    ASSUME NEW S, NEW q \in Seq(S), NEW p \in Seq(S)
    PROVE  q \o p \in Seq(S) /\ Range(q \o p) = Range(q) \cup Range(p)
<1> USE ConcatFacts
<1>1. Range(q) \subseteq Range(q \o p)
    BY DEF Range
<1>2. Range(p) \subseteq Range(q \o p)
  <2>1. \A i \in 1..Len(p) : Len(q) + i \in DOMAIN (q \o p)
    OBVIOUS
  <2> QED
    BY <2>1 DEF Range
<1>3. ASSUME NEW i \in DOMAIN (q \o p) PROVE (q \o p)[i] \in Range(q) \cup Range(p)
  <2>1. CASE i \in 1..Len(q)
    BY <2>1 DEF Range
  <2>2. CASE (i - Len(q)) \in 1..Len(p)
    <3>1. (q \o p)[Len(q) + (i - Len(q))] = p[i - Len(q)] /\ Len(q) + (i - Len(q)) = i
      BY <2>2
    <3> QED
      BY <2>2, <3>1 DEF Range
  <2> QED
    BY <2>1, <2>2
<1>4. Range(q \o p) \subseteq Range(q) \cup Range(p)
    BY <1>3 DEF Range
<1> QED
    BY <1>1, <1>2, <1>4

LEMMA RangeTail ==
    ASSUME NEW S, NEW q \in Seq(S), q # <<>>
    PROVE  /\ Tail(q) \in Seq(S) /\ Head(q) \in Range(q) /\ Head(q) \in S
           /\ Range(Tail(q)) \subseteq Range(q)
<1>1. \A i \in 1..(Len(q) - 1) : i + 1 \in DOMAIN q
    BY TailFacts
<1> QED
    BY <1>1, TailFacts DEF Range

\* SetToSeq lists a finite set, each element once.
LEMMA SetToSeqFacts ==
    ASSUME NEW S, IsFiniteSet(S)
    PROVE  /\ SetToSeq(S) \in Seq(S) /\ Range(SetToSeq(S)) = S
           /\ IsInjective(SetToSeq(S))
<1> DEFINE n == Cardinality(S)
           f == SetToSeq(S)
<1>1. n \in Nat /\ ExistsBijection(1..n, S)
    BY FS_CardinalityType
<1>2. \E g \in [1..n -> S] : IsInjective(g)
    BY <1>1 DEF ExistsBijection, Bijection, Injection
<1>3. f \in [1..n -> S] /\ IsInjective(f)
    BY <1>2 DEF SetToSeq
<1> HIDE DEF f
<1>4. f \in Injection(1..n, S)
    BY <1>3 DEF Injection
<1>5. Cardinality(1..n) = n
    BY <1>1, FS_Interval
<1>6. f \in Surjection(1..n, S)
    BY <1>4, <1>5, FS_Injection
<1>7. Range(f) = S
    BY <1>3, <1>6 DEF Surjection, Range
<1>8. f \in Seq(S)
    BY <1>1, <1>3, SeqDef
<1> USE DEF f
<1> QED
    BY <1>3, <1>7, <1>8

LEMMA OnceAppend ==
    ASSUME NEW S, NEW q \in Seq(S), NEW w \in S, Once(q),
           w.op = "insert" => \A v \in Range(q) : v.op = "insert" => v.task # w.task
    PROVE  Once(Append(q, w))
<1> SUFFICES ASSUME NEW i \in DOMAIN Append(q, w), NEW j \in DOMAIN Append(q, w),
                    Append(q, w)[i].op = "insert", Append(q, w)[j].op = "insert",
                    Append(q, w)[i].task = Append(q, w)[j].task
             PROVE  i = j
    BY DEF Once
<1>1. \A k \in DOMAIN Append(q, w) :
        (k \in DOMAIN q /\ Append(q, w)[k] = q[k] /\ q[k] \in Range(q))
        \/ (k = Len(q) + 1 /\ Append(q, w)[k] = w)
    BY AppendFacts, RangeFacts
<1> QED
    BY <1>1 DEF Once

LEMMA OnceConcat ==
    ASSUME NEW S, NEW q \in Seq(S), NEW p \in Seq(S), Once(q), \A v \in Range(p) : v.op # "insert"
    PROVE  Once(q \o p)
<1>1. \A k \in DOMAIN (q \o p) :
        (k \in DOMAIN q /\ (q \o p)[k] = q[k]) \/ (q \o p)[k].op # "insert"
  <2> TAKE k \in DOMAIN (q \o p)
  <2>1. CASE k \in 1..Len(q)
    BY <2>1, ConcatFacts
  <2>2. CASE (k - Len(q)) \in 1..Len(p)
    <3>1. (q \o p)[Len(q) + (k - Len(q))] = p[k - Len(q)] /\ Len(q) + (k - Len(q)) = k
      BY <2>2, ConcatFacts
    <3>2. p[k - Len(q)] \in Range(p)
      BY <2>2, ConcatFacts, RangeFacts
    <3> QED
      BY <3>1, <3>2
  <2> QED
    BY <2>1, <2>2, ConcatFacts
<1> QED
    BY <1>1 DEF Once

LEMMA OnceTail ==
    ASSUME NEW S, NEW q \in Seq(S), q # <<>>, Once(q)
    PROVE  /\ Once(Tail(q))
           /\ Head(q).op = "insert" =>
                \A v \in Range(Tail(q)) : v.op = "insert" => v.task # Head(q).task
<1>1. /\ \A i \in DOMAIN Tail(q) : /\ i \in Nat /\ i >= 1 /\ i + 1 \in DOMAIN q /\ i + 1 # 1
                                   /\ Tail(q)[i] = q[i + 1]
      /\ 1 \in DOMAIN q /\ Head(q) = q[1]
    BY TailFacts
<1>2. Once(Tail(q))
  <2> SUFFICES ASSUME NEW i \in DOMAIN Tail(q), NEW j \in DOMAIN Tail(q),
                      Tail(q)[i].op = "insert", Tail(q)[j].op = "insert",
                      Tail(q)[i].task = Tail(q)[j].task
               PROVE  i = j
    BY DEF Once
  <2>1. i + 1 = j + 1
    BY <1>1 DEF Once
  <2> QED
    BY <1>1, <2>1
<1>3. ASSUME Head(q).op = "insert", NEW v \in Range(Tail(q)), v.op = "insert"
      PROVE  v.task # Head(q).task
  <2>1. PICK i \in DOMAIN Tail(q) : Tail(q)[i] = v
    BY DEF Range
  <2> QED
    BY <1>1, <1>3, <2>1 DEF Once
<1> QED
    BY <1>2, <1>3

(***************************************************************************)
(* What the store will hold.                                               *)
(***************************************************************************)
\* A put is the last word on its task.
LEMMA EndsPut ==
    ASSUME NEW S, NEW q \in Seq(S), NEW w \in S, NEW d, NEW t, Names(w, t)
    PROVE  Ends(Append(q, w), d, t, w.rec)
<1>1. Affects(w, t) /\ w.op # "clear"
    BY DEF Names, Affects
<1>2. Len(q) + 1 \in DOMAIN Append(q, w) /\ Append(q, w)[Len(q) + 1] = w
    BY AppendFacts
<1>3. \A j \in DOMAIN Append(q, w) : ~(j > Len(q) + 1)
    BY AppendFacts
<1> QED
    BY <1>1, <1>2, <1>3 DEF Ends

\* Requests about other tasks do not matter.
LEMMA EndsOther ==
    ASSUME NEW S, NEW q \in Seq(S), NEW w \in S, NEW d, NEW t, NEW r, ~Affects(w, t), Ends(q, d, t, r)
    PROVE  Ends(Append(q, w), d, t, r)
<1>1. /\ \A k \in DOMAIN Append(q, w) : k \in DOMAIN q \/ k = Len(q) + 1
      /\ \A k \in DOMAIN q : k \in DOMAIN Append(q, w) /\ Append(q, w)[k] = q[k]
      /\ Append(q, w)[Len(q) + 1] = w
    BY AppendFacts
<1>2. CASE d[t] = r /\ \A i \in DOMAIN q : ~Affects(q[i], t)
    BY <1>1, <1>2 DEF Ends
<1>3. CASE \E i \in DOMAIN q : /\ Affects(q[i], t) /\ q[i].op # "clear" /\ q[i].rec = r
                               /\ \A j \in DOMAIN q : j > i => ~Affects(q[j], t)
    BY <1>1, <1>3 DEF Ends
<1> QED
    BY <1>2, <1>3 DEF Ends

LEMMA EndsOthers ==
    ASSUME NEW S, NEW q \in Seq(S), NEW p \in Seq(S), NEW d, NEW t, NEW r,
           \A w \in Range(p) : ~Affects(w, t), Ends(q, d, t, r)
    PROVE  Ends(q \o p, d, t, r)
<1>1. \A k \in DOMAIN q : k \in DOMAIN (q \o p) /\ (q \o p)[k] = q[k]
    BY ConcatFacts
<1>2. \A k \in DOMAIN (q \o p) : k \in DOMAIN q \/ ~Affects((q \o p)[k], t)
  <2> TAKE k \in DOMAIN (q \o p)
  <2>1. CASE k \in 1..Len(q)
    BY <2>1, ConcatFacts
  <2>2. CASE (k - Len(q)) \in 1..Len(p)
    <3>1. (q \o p)[Len(q) + (k - Len(q))] = p[k - Len(q)] /\ Len(q) + (k - Len(q)) = k
      BY <2>2, ConcatFacts
    <3>2. p[k - Len(q)] \in Range(p)
      BY <2>2, ConcatFacts, RangeFacts
    <3> QED
      BY <3>1, <3>2
  <2> QED
    BY <2>1, <2>2, ConcatFacts
<1>3. CASE d[t] = r /\ \A i \in DOMAIN q : ~Affects(q[i], t)
    BY <1>1, <1>2, <1>3 DEF Ends
<1>4. CASE \E i \in DOMAIN q : /\ Affects(q[i], t) /\ q[i].op # "clear" /\ q[i].rec = r
                               /\ \A j \in DOMAIN q : j > i => ~Affects(q[j], t)
    BY <1>1, <1>2, <1>4 DEF Ends
<1> QED
    BY <1>3, <1>4 DEF Ends

\* The one request about t among p is the last word on it.
LEMMA EndsOneOf ==
    ASSUME NEW S, NEW q \in Seq(S), NEW p \in Seq(S), IsInjective(p), NEW d, NEW t,
           NEW w \in Range(p), Names(w, t), \A v \in Range(p) : Affects(v, t) => v = w
    PROVE  Ends(q \o p, d, t, w.rec)
<1>1. PICK k \in DOMAIN p : p[k] = w
    BY DEF Range
<1>2. /\ Len(q) \in Nat /\ Len(p) \in Nat /\ k \in 1..Len(p) /\ k \in Nat
      /\ Len(q) + k \in DOMAIN (q \o p) /\ (q \o p)[Len(q) + k] = w
    BY <1>1, ConcatFacts
<1>3. ASSUME NEW j \in DOMAIN (q \o p), j > Len(q) + k PROVE ~Affects((q \o p)[j], t)
  <2>1. j - Len(q) \in 1..Len(p) /\ j - Len(q) # k
    BY <1>2, <1>3, ConcatFacts
  <2>2. (q \o p)[Len(q) + (j - Len(q))] = p[j - Len(q)] /\ Len(q) + (j - Len(q)) = j
    BY <1>2, <1>3, <2>1, ConcatFacts
  <2>3. p[j - Len(q)] \in Range(p) /\ p[j - Len(q)] # w
    BY <1>1, <2>1, ConcatFacts, RangeFacts DEF IsInjective
  <2> QED
    BY <2>2, <2>3
<1>4. Affects(w, t) /\ w.op # "clear"
    BY DEF Names, Affects
<1> QED
    BY <1>2, <1>3, <1>4 DEF Ends

\* A request is carried out, or concerns another task.
LEMMA EndsTail ==
    ASSUME NEW S, NEW q \in Seq(S), q # <<>>, NEW d, NEW e, NEW t, NEW r, Ends(q, d, t, r),
           Head(q).op # "clear",
           e[t] = IF Affects(Head(q), t) THEN Head(q).rec ELSE d[t]
    PROVE  Ends(Tail(q), e, t, r)
<1>1. /\ \A i \in DOMAIN Tail(q) : /\ i \in Nat /\ i >= 1 /\ i + 1 \in DOMAIN q
                                   /\ Tail(q)[i] = q[i + 1]
      /\ \A i \in DOMAIN q : i \in Nat /\ (i = 1 \/ (i - 1 \in DOMAIN Tail(q) /\ Tail(q)[i - 1] = q[i]))
      /\ 1 \in DOMAIN q /\ Head(q) = q[1]
    BY TailFacts
<1>2. CASE d[t] = r /\ \A i \in DOMAIN q : ~Affects(q[i], t)
    BY <1>1, <1>2 DEF Ends
<1>3. ASSUME NEW i \in DOMAIN q, Affects(q[i], t), q[i].op # "clear", q[i].rec = r,
             \A j \in DOMAIN q : j > i => ~Affects(q[j], t)
      PROVE  Ends(Tail(q), e, t, r)
  <2>1. CASE i = 1
    <3>1. \A j \in DOMAIN Tail(q) : j + 1 > 1 /\ ~Affects(Tail(q)[j], t)
      BY <1>1, <1>3, <2>1
    <3>2. e[t] = r
      BY <1>1, <1>3, <2>1
    <3> QED
      BY <3>1, <3>2 DEF Ends
  <2>2. CASE i # 1
    <3>1. i - 1 \in DOMAIN Tail(q) /\ Tail(q)[i - 1] = q[i]
      BY <1>1, <2>2
    <3>2. \A j \in DOMAIN Tail(q) : j > i - 1 => j + 1 > i /\ j + 1 \in DOMAIN q
      BY <1>1
    <3>3. \A j \in DOMAIN Tail(q) : j > i - 1 => ~Affects(Tail(q)[j], t)
      BY <1>1, <1>3, <3>2
    <3> QED
      BY <1>3, <3>1, <3>3 DEF Ends
  <2> QED
    BY <2>1, <2>2
<1> QED
    BY <1>2, <1>3 DEF Ends

LEMMA EndsEmpty ==
    ASSUME NEW d, NEW t
    PROVE  Ends(<<>>, d, t, d[t])
BY DEF Ends

-----------------------------------------------------------------------------
(***************************************************************************)
(* Types.                                                                  *)
(***************************************************************************)
ListTypes == /\ mem \in [Ids -> Records] /\ db \in [Ids -> Records]
             /\ writes \in Seq(WriteOps) /\ used \subseteq Tasks
InitTypes == page \in {"loading", "marking", "ready"} /\ stored \in [Ids -> Records]
RunnerTypes ==
    /\ exec \in [Tasks -> {"idle", "inserting", "loading", "calling", "polling", "storing", "stalled"}]
    /\ recovery \in [Tasks -> {"idle", "querying", "storing", "stalled"}]
    /\ watchdog \subseteq Tasks /\ timers \subseteq Tasks
EnvTypes == orphans \subseteq Tasks /\ faults \in Nat
UserTypes == removing \in [ids : SUBSET Ids, list : [Ids -> Records]] /\ clearing \in BOOLEAN

LEMMA TypeParts ==
    /\ TypeOK => ListTypes /\ InitTypes /\ RunnerTypes /\ UserTypes /\ spoiled \subseteq Ids /\ EnvTypes
    /\ ListTypes' /\ InitTypes' /\ RunnerTypes' /\ UserTypes' /\ spoiled' \subseteq Ids /\ EnvTypes'
         => TypeOK'
BY DEF TypeOK, EnvTypes, ListTypes, InitTypes, RunnerTypes, UserTypes

LEMMA TypeFrame ==
    ASSUME TypeOK
    PROVE  /\ UNCHANGED list => ListTypes'
           /\ UNCHANGED init => InitTypes'
           /\ UNCHANGED runner => RunnerTypes'
           /\ UNCHANGED user => UserTypes'
<1>1. UNCHANGED list => ListTypes'
    BY TypeParts DEF list, ListTypes
<1>2. UNCHANGED init => InitTypes'
    BY TypeParts DEF init, InitTypes
<1>3. UNCHANGED runner => RunnerTypes'
    BY TypeParts DEF runner, RunnerTypes
<1>4. UNCHANGED user => UserTypes'
    BY TypeParts DEF user, UserTypes
<1> QED
    BY <1>1, <1>2, <1>3, <1>4

\* The records a step writes.
LEMMA RecordFacts ==
    /\ NoTask \in Records
    /\ \A r \in Records : /\ r.remote \in BOOLEAN /\ r.recoverable \in BOOLEAN
                          /\ r.status \in {"absent", "running", "done", "error"}
                          /\ r = NoTask <=> r.status = "absent"
    /\ \A r \in Records, st \in {"running", "done", "error"}, b \in BOOLEAN :
         /\ [r EXCEPT !.status = st, !.recoverable = b] \in Records \ {NoTask}
         /\ [r EXCEPT !.status = st, !.recoverable = b].status = st
         /\ [r EXCEPT !.status = st, !.recoverable = b].recoverable = b
         /\ [r EXCEPT !.status = st, !.recoverable = b].remote = r.remote
    /\ \A r \in Records, st \in {"running", "done", "error"} :
         /\ [r EXCEPT !.status = st] \in Records \ {NoTask}
         /\ [r EXCEPT !.status = st].status = st
         /\ [r EXCEPT !.status = st].recoverable = r.recoverable
         /\ [r EXCEPT !.status = st].remote = r.remote
    /\ \A r \in Records \ {NoTask} :
         /\ [r EXCEPT !.remote = TRUE, !.recoverable = FALSE] \in Records \ {NoTask}
         /\ [r EXCEPT !.remote = TRUE, !.recoverable = FALSE].status = r.status
         /\ [r EXCEPT !.remote = TRUE, !.recoverable = FALSE].remote = TRUE
         /\ [r EXCEPT !.remote = TRUE, !.recoverable = FALSE].recoverable = FALSE
    /\ [status |-> "running", remote |-> FALSE, recoverable |-> FALSE] \in Records \ {NoTask}
<1>1. NoTask \in Records
    BY DEF Records
<1>2. \A r \in Records : /\ r.remote \in BOOLEAN /\ r.recoverable \in BOOLEAN
                         /\ r.status \in {"absent", "running", "done", "error"}
                         /\ r = NoTask <=> r.status = "absent"
  <2> TAKE r \in Records
  <2>1. CASE r = NoTask
    BY <2>1 DEF NoTask
  <2>2. CASE r \in [status : {"running", "done", "error"}, remote : BOOLEAN, recoverable : BOOLEAN]
    BY <2>2 DEF NoTask
  <2> QED
    BY <2>1, <2>2 DEF Records
<1>s. ASSUME NEW r \in Records
      PROVE  r = [status |-> r.status, remote |-> r.remote, recoverable |-> r.recoverable]
  <2>1. CASE r = NoTask
    BY <2>1 DEF NoTask
  <2>2. CASE r \in [status : {"running", "done", "error"}, remote : BOOLEAN, recoverable : BOOLEAN]
    BY <2>2
  <2> QED
    BY <2>1, <2>2 DEF Records
<1>r. ASSUME NEW st \in {"running", "done", "error"}, NEW a \in BOOLEAN, NEW b \in BOOLEAN
      PROVE  [status |-> st, remote |-> a, recoverable |-> b] \in Records \ {NoTask}
    BY DEF Records, NoTask
<1>3. \A r \in Records, st \in {"running", "done", "error"}, b \in BOOLEAN :
         /\ [r EXCEPT !.status = st, !.recoverable = b] \in Records \ {NoTask}
         /\ [r EXCEPT !.status = st, !.recoverable = b].status = st
         /\ [r EXCEPT !.status = st, !.recoverable = b].recoverable = b
         /\ [r EXCEPT !.status = st, !.recoverable = b].remote = r.remote
  <2> TAKE r \in Records, st \in {"running", "done", "error"}, b \in BOOLEAN
  <2>1. [r EXCEPT !.status = st, !.recoverable = b] = [status |-> st, remote |-> r.remote, recoverable |-> b]
    <3>1. r = [status |-> r.status, remote |-> r.remote, recoverable |-> r.recoverable]
      BY <1>s
    <3>2. [r EXCEPT !.status = st] = [status |-> st, remote |-> r.remote, recoverable |-> r.recoverable]
      BY <3>1
    <3>3. \A c : [r EXCEPT !.status = st, !.recoverable = c]
                 = [[r EXCEPT !.status = st] EXCEPT !.recoverable = c]
      OBVIOUS
    <3>4. \A x, c : [[status |-> st, remote |-> r.remote, recoverable |-> x] EXCEPT !.recoverable = c]
                    = [status |-> st, remote |-> r.remote, recoverable |-> c]
      OBVIOUS
    <3>5. \A c : [r EXCEPT !.status = st, !.recoverable = c]
                 = [status |-> st, remote |-> r.remote, recoverable |-> c]
      BY <3>2, <3>3, <3>4, Zenon
    <3> QED
      BY <3>5, Zenon
  <2>2. r.remote \in BOOLEAN
    BY <1>2
  <2> QED
    BY <1>r, <2>1, <2>2
<1>4. \A r \in Records, st \in {"running", "done", "error"} :
         /\ [r EXCEPT !.status = st] \in Records \ {NoTask}
         /\ [r EXCEPT !.status = st].status = st
         /\ [r EXCEPT !.status = st].recoverable = r.recoverable
         /\ [r EXCEPT !.status = st].remote = r.remote
  <2> TAKE r \in Records, st \in {"running", "done", "error"}
  <2>1. [r EXCEPT !.status = st] = [status |-> st, remote |-> r.remote, recoverable |-> r.recoverable]
    BY <1>s
  <2>2. r.remote \in BOOLEAN /\ r.recoverable \in BOOLEAN
    BY <1>2
  <2> QED
    BY <1>r, <2>1, <2>2
<1>5. \A r \in Records \ {NoTask} :
         /\ [r EXCEPT !.remote = TRUE, !.recoverable = FALSE] \in Records \ {NoTask}
         /\ [r EXCEPT !.remote = TRUE, !.recoverable = FALSE].status = r.status
         /\ [r EXCEPT !.remote = TRUE, !.recoverable = FALSE].remote = TRUE
         /\ [r EXCEPT !.remote = TRUE, !.recoverable = FALSE].recoverable = FALSE
    BY DEF Records, NoTask
<1>6. [status |-> "running", remote |-> FALSE, recoverable |-> FALSE] \in Records \ {NoTask}
    BY DEF Records, NoTask
<1> QED
    BY <1>1, <1>2, <1>3, <1>4, <1>5, <1>6

\* The requests a step makes.
LEMMA WriteFacts ==
    /\ \A op \in {"insert", "put", "mark", "delete"}, t \in Ids, r \in Records :
         /\ Put(op, t, r) \in WriteOps
         /\ Put(op, t, r).op = op /\ Put(op, t, r).task = t /\ Put(op, t, r).rec = r
    /\ Scrub \in WriteOps /\ Scrub.op = "scrub"
    /\ Clear \in WriteOps /\ Clear.op = "clear"
    /\ \A w \in WriteOps : w.op \notin {"scrub", "clear"} =>
         w.op \in {"insert", "put", "mark", "delete"} /\ w.task \in Ids /\ w.rec \in Records
BY DEF WriteOps, Put, Scrub, Clear

LEMMA UpdateType ==
    ASSUME TypeOK, NEW t \in Tasks, NEW r, Present(t) => r \in Records, UpdateTask(t, r)
    PROVE  ListTypes'
<1>1. ListTypes /\ t \in Ids
    BY TypeParts DEF Ids
<1>2. CASE ~Present(t)
    BY <1>1, <1>2 DEF UpdateTask, ListTypes
<1>3. CASE Present(t)
  <2>1. Put("put", t, r) \in WriteOps
    BY <1>1, <1>3, WriteFacts
  <2>2. writes' \in Seq(WriteOps)
    BY <1>1, <1>3, <2>1, RangeAppend DEF UpdateTask, ListTypes
  <2> QED
    BY <1>1, <1>3, <2>2 DEF UpdateTask, ListTypes
<1> QED
    BY <1>2, <1>3

\* The requests of a removal.
LEMMA DeletesFacts ==
    ASSUME NEW ids \in SUBSET Ids
    PROVE  /\ Deletes(ids) \in Seq(WriteOps)
           /\ Range(Deletes(ids)) = {Put("delete", t, NoTask) : t \in ids}
<1> DEFINE D == {Put("delete", t, NoTask) : t \in ids}
           f == [t \in ids |-> Put("delete", t, NoTask)]
<1>1. IsFiniteSet(Ids)
    BY TasksAssumption, FS_Union DEF Ids
<1>2. IsFiniteSet(ids)
    BY <1>1, FS_Subset
<1>3. f \in Surjection(ids, D)
    BY DEF Surjection
<1>4. IsFiniteSet(D)
  <2> HIDE DEF f, D
  <2> QED
    BY <1>2, <1>3, FS_Surjection
<1>5. D \subseteq WriteOps
  <2>1. NoTask \in Records
    BY RecordFacts
  <2> QED
    BY <2>1, WriteFacts
<1>6. SetToSeq(D) \in Seq(D) /\ Range(SetToSeq(D)) = D
  <2> HIDE DEF D
  <2> QED
    BY <1>4, SetToSeqFacts
<1>7. SetToSeq(D) \in Seq(WriteOps)
  <2> HIDE DEF D
  <2> QED
    BY <1>5, <1>6, SeqMonotonic
<1> QED
    BY <1>6, <1>7 DEF Deletes

\* The requests of markInterruptedOpenAIRunningTasks.
Marks == {Put("mark", t, Marked[t]) : t \in {x \in Ids : Interrupted(x)}}

LEMMA MarksFacts ==
    ASSUME TypeOK
    PROVE  /\ Marked \in [Ids -> Records]
           /\ Marks \subseteq WriteOps
           /\ SetToSeq(Marks) \in Seq(WriteOps)
           /\ Range(SetToSeq(Marks)) = Marks
           /\ IsInjective(SetToSeq(Marks))
<1> DEFINE I == {x \in Ids : Interrupted(x)}
           f == [t \in I |-> Put("mark", t, Marked[t])]
<1>1. IsFiniteSet(Ids)
    BY TasksAssumption, FS_Union DEF Ids
<1>2. IsFiniteSet(I)
    BY <1>1, FS_Subset
<1>3. f \in Surjection(I, Marks)
    BY DEF Surjection, Marks
<1>4. IsFiniteSet(Marks)
  <2> HIDE DEF f, I
  <2> QED
    BY <1>2, <1>3, FS_Surjection
<1>5. Marked \in [Ids -> Records]
  <2>1. \A t \in Ids : stored[t] \in Records
    BY TypeParts DEF InitTypes
  <2> QED
    BY <2>1, RecordFacts DEF Marked
<1>6. Marks \subseteq WriteOps
    BY <1>5, WriteFacts DEF Marks
<1>7. SetToSeq(Marks) \in Seq(Marks) /\ Range(SetToSeq(Marks)) = Marks /\ IsInjective(SetToSeq(Marks))
    BY <1>4, SetToSeqFacts
<1>8. SetToSeq(Marks) \in Seq(WriteOps)
    BY <1>6, <1>7, SeqMonotonic
<1> QED
    BY <1>5, <1>6, <1>7, <1>8

LEMMA FaultType ==
    ASSUME TypeOK, (\E k \in FaultKinds : Fault(k)) \/ NoFault
    PROVE  EnvTypes'
BY TypeParts DEF Fault, NoFault, EnvTypes

\* The steps of a task change its runners, and its record through UpdateTask.
LEMMA TaskStepType ==
    ASSUME TypeOK, NEW t \in Tasks, ExecStep(t) \/ RecoveryStep(t)
    PROVE  TypeOK'
<1>1. UNCHANGED <<init, user>>
    BY DEF ExecStep, RecoveryStep, CallApi, Enqueued, ApiResult, OutputStored, ExecFails,
           ExecDisconnected, Stall, WatchdogFires, TimerFires, RecoveryResult, RecoveryStored,
           RecoveryDisconnected, RecoveryStalls, RecoveryFails
<1>2. (\E k \in FaultKinds : Fault(k)) \/ NoFault
    BY DEF ExecStep, RecoveryStep, CallApi, Enqueued, ApiResult, OutputStored, ExecFails,
           ExecDisconnected, Stall, WatchdogFires, TimerFires, RecoveryResult, RecoveryStored,
           RecoveryDisconnected, RecoveryStalls, RecoveryFails, FaultKinds
<1>3. spoiled' \subseteq Ids
  <2>1. spoiled' = spoiled \/ spoiled' = spoiled \cup {t}
    BY DEF ExecStep, RecoveryStep, CallApi, Enqueued, ApiResult, OutputStored, ExecFails,
           ExecDisconnected, Stall, WatchdogFires, TimerFires, RecoveryResult, RecoveryStored,
           RecoveryDisconnected, RecoveryStalls, RecoveryFails
  <2> QED
    BY <2>1, TypeParts DEF Ids
<1>4. ListTypes'
  <2>1. mem[t] \in Records
    BY TypeParts DEF ListTypes, Ids
  <2>2. \A st \in {"done", "error"}, b \in BOOLEAN : Ended(t, st, b) \in Records
    BY <2>1, RecordFacts DEF Ended
  <2>3. mem[t].recoverable \in BOOLEAN
    BY <2>1, RecordFacts
  <2>4. Present(t) => [mem[t] EXCEPT !.remote = TRUE, !.recoverable = FALSE] \in Records
    BY <2>1, RecordFacts DEF Present
  <2>5. CASE UNCHANGED list
    BY <2>5, TypeFrame
  <2>6. CASE Enqueued(t)
    BY <2>4, <2>6, UpdateType DEF Enqueued
  <2>7. CASE OutputStored(t) /\ ~UNCHANGED list
    BY <2>2, <2>7, UpdateType DEF OutputStored
  <2>8. CASE ExecFails(t) /\ ~UNCHANGED list
    BY <2>2, <2>8, UpdateType DEF ExecFails
  <2>9. CASE ExecDisconnected(t) /\ ~UNCHANGED list
    BY <2>2, <2>9, UpdateType DEF ExecDisconnected
  <2>10. CASE WatchdogFires(t) /\ ~UNCHANGED list
    BY <2>2, <2>3, <2>10, UpdateType DEF WatchdogFires
  <2>11. CASE RecoveryStored(t)
    BY <2>2, <2>11, UpdateType DEF RecoveryStored
  <2>12. CASE RecoveryFails(t)
    BY <2>2, <2>12, UpdateType DEF RecoveryFails
  <2> QED
    BY <2>5, <2>6, <2>7, <2>8, <2>9, <2>10, <2>11, <2>12
       DEF ExecStep, RecoveryStep, CallApi, ApiResult, Stall, TimerFires, RecoveryResult,
           RecoveryDisconnected, RecoveryStalls
<1>5. RunnerTypes'
  <2>1. RunnerTypes
    BY TypeParts
  <2>2. CASE ExecStep(t)
    <3>1. recovery' = recovery /\ watchdog' \subseteq watchdog /\ timers' \subseteq timers \cup {t}
      BY <2>2 DEF ExecStep, CallApi, Enqueued, ApiResult, OutputStored, ExecFails,
                  ExecDisconnected, Stall, WatchdogFires
    <3>2. \E x \in {"idle", "calling", "polling", "storing", "stalled"} :
            exec' = [exec EXCEPT ![t] = x] \/ exec' = exec
      BY <2>2 DEF ExecStep, CallApi, Enqueued, ApiResult, OutputStored, ExecFails,
                  ExecDisconnected, Stall, WatchdogFires
    <3> QED
      BY <2>1, <3>1, <3>2 DEF RunnerTypes
  <2>3. CASE RecoveryStep(t)
    <3>1. exec' = exec /\ watchdog' = watchdog /\ timers' \subseteq timers \cup {t}
      BY <2>3 DEF RecoveryStep, TimerFires, RecoveryResult, RecoveryStored,
                  RecoveryDisconnected, RecoveryStalls, RecoveryFails
    <3>2. \E x \in {"idle", "querying", "storing", "stalled", recovery[t]} : recovery' = [recovery EXCEPT ![t] = x]
      BY <2>3 DEF RecoveryStep, TimerFires, RecoveryResult, RecoveryStored,
                  RecoveryDisconnected, RecoveryStalls, RecoveryFails
    <3> QED
      BY <2>1, <3>1, <3>2 DEF RunnerTypes
  <2> QED
    BY <2>2, <2>3
<1> QED
    BY <1>1, <1>2, <1>3, <1>4, <1>5, TypeParts, TypeFrame, FaultType

LEMMA SelectionsType ==
    ASSUME TypeOK, NEW ids \in Selections
    PROVE  /\ ids \subseteq Ids /\ \A t \in ids : Present(t)
           /\ Without(ids) \in [Ids -> Records]
<1>1. mem \in [Ids -> Records]
    BY TypeParts DEF ListTypes
<1>2. ids \subseteq Ids
    BY DEF Selections
<1>3. \A t \in ids : Present(t)
    BY DEF Selections, Present, NoTask
<1> QED
    BY <1>1, <1>2, <1>3, RecordFacts DEF Without

LEMMA UserStepType ==
    ASSUME TypeOK, UserStep
    PROVE  TypeOK'
<1>1. /\ ListTypes /\ InitTypes /\ RunnerTypes /\ UserTypes /\ spoiled \subseteq Ids
      /\ Tasks \subseteq Ids
    BY TypeParts DEF Ids
<1>2. ASSUME NEW t \in Tasks, Submit(t) PROVE TypeOK'
  <2> DEFINE r == [status |-> "running", remote |-> FALSE, recoverable |-> FALSE]
  <2>1. r \in Records /\ t \in Ids
    BY <1>1, RecordFacts
  <2> HIDE DEF r
  <2>2. Put("insert", t, r) \in WriteOps
    BY <2>1, WriteFacts
  <2>3. /\ mem' = [mem EXCEPT ![t] = r] /\ writes' = Append(writes, Put("insert", t, r))
        /\ used' = used \cup {t} /\ db' = db
    BY <1>2 DEF Submit, r
  <2>4. ListTypes'
    BY <1>1, <2>1, <2>2, <2>3, RangeAppend DEF ListTypes
  <2>5. RunnerTypes'
    BY <1>1, <1>2 DEF Submit, RunnerTypes
  <2> QED
    BY <1>1, <1>2, <2>4, <2>5, TypeParts, TypeFrame, FaultType DEF Submit
<1>3. CASE RemoveTasks
  <2>1. PICK ids \in Selections : mem' = Without(ids) /\ writes' = writes \o Deletes(ids)
    BY <1>3 DEF RemoveTasks
  <2>2. ListTypes'
    BY <1>1, <1>3, <2>1, SelectionsType, DeletesFacts, RangeConcat DEF ListTypes, RemoveTasks
  <2> QED
    BY <1>1, <1>3, <2>2, TypeParts, TypeFrame, FaultType DEF RemoveTasks
<1>4. CASE RemoveBegin
  <2>1. PICK ids \in Selections : removing' = [ids |-> ids, list |-> Without(ids)]
    BY <1>4 DEF RemoveBegin
  <2>2. UserTypes'
    BY <1>1, <1>4, <2>1, SelectionsType DEF UserTypes, RemoveBegin
  <2>3. ListTypes'
    BY <1>1, <1>4, RangeAppend, WriteFacts DEF ListTypes, RemoveBegin
  <2> QED
    BY <1>1, <1>4, <2>2, <2>3, TypeParts, TypeFrame, FaultType DEF RemoveBegin
<1>5. CASE ClearBegin
  <2>1. ListTypes'
    BY <1>1, <1>5, RangeAppend, WriteFacts DEF ListTypes, ClearBegin
  <2>2. UserTypes' /\ spoiled' \subseteq Ids
    BY <1>1, <1>5 DEF UserTypes, ClearBegin
  <2> QED
    BY <1>1, <1>5, <2>1, <2>2, TypeParts, TypeFrame, FaultType DEF ClearBegin
<1>6. ASSUME NEW t \in Tasks, ChangeProfile(t) PROVE TypeOK'
  <2>1. EnvTypes'
    BY <1>6, TypeParts DEF ChangeProfile, EnvTypes
  <2> QED
    BY <1>1, <1>6, <2>1, TypeParts, TypeFrame DEF ChangeProfile
<1> QED
    BY <1>2, <1>3, <1>4, <1>5, <1>6 DEF UserStep

\* The request at the head of the queue.
LEMMA HeadFacts ==
    ASSUME TypeOK, InsertInv, writes # <<>>
    PROVE  /\ Head(writes) \in WriteOps /\ Head(writes) \in Range(writes)
           /\ Tail(writes) \in Seq(WriteOps) /\ Range(Tail(writes)) \subseteq Range(writes)
           /\ Head(writes).op \notin {"scrub", "clear"} =>
                Head(writes).task \in Ids /\ Head(writes).rec \in Records
           /\ Head(writes).op = "insert" =>
                Head(writes).task \in Tasks /\ exec[Head(writes).task] = "inserting"
<1>1. writes \in Seq(WriteOps)
    BY TypeParts DEF ListTypes
<1>2. /\ Head(writes) \in WriteOps /\ Head(writes) \in Range(writes)
      /\ Tail(writes) \in Seq(WriteOps) /\ Range(Tail(writes)) \subseteq Range(writes)
    BY <1>1, RangeTail
<1> QED
    BY <1>2, WriteFacts DEF InsertInv

LEMMA PageStepType ==
    ASSUME TypeOK, InsertInv, PageStep
    PROVE  TypeOK'
<1>1. /\ ListTypes /\ InitTypes /\ RunnerTypes /\ UserTypes /\ spoiled \subseteq Ids
      /\ Tasks \subseteq Ids /\ NoTask \in Records
      /\ [t \in Ids |-> NoTask] \in [Ids -> Records]
    BY TypeParts, RecordFacts DEF Ids
<1>2. CASE CommitWrite
  <2> DEFINE w == Head(writes)
  <2>1. /\ writes # <<>> /\ writes' = Tail(writes) /\ mem' = mem /\ used' = used
        /\ UNCHANGED <<init, timers, recovery, user, spoiled>>
    BY <1>2 DEF CommitWrite
  <2>2. db' \in [Ids -> Records]
    <3>1. CASE w.op = "clear"
      BY <1>1, <1>2, <3>1 DEF CommitWrite
    <3>2. CASE w.op = "scrub"
      BY <1>1, <1>2, <3>2 DEF CommitWrite, ListTypes
    <3>3. CASE w.op \notin {"scrub", "clear"}
      <4>1. db' = [db EXCEPT ![w.task] = w.rec]
        BY <1>2, <3>3 DEF CommitWrite
      <4> QED
        BY <1>1, <2>1, <3>3, <4>1, HeadFacts DEF ListTypes
    <3> QED
      BY <3>1, <3>2, <3>3
  <2>3. ListTypes'
    BY <1>1, <2>1, <2>2, HeadFacts DEF ListTypes
  <2>4. RunnerTypes'
    <3>1. CASE w.op = "insert"
      <4>1. w.task \in Tasks /\ Execute(w.task)
        BY <1>2, <2>1, <3>1, HeadFacts DEF CommitWrite
      <4> QED
        BY <1>1, <2>1, <4>1 DEF Execute, RunnerTypes
    <3>2. CASE w.op # "insert"
      BY <1>1, <1>2, <2>1, <3>2 DEF CommitWrite, RunnerTypes
    <3> QED
      BY <3>1, <3>2
  <2> QED
    BY <1>1, <1>2, <2>1, <2>3, <2>4, TypeParts, TypeFrame, FaultType DEF CommitWrite
<1>3. CASE InsertFails
  <2>1. ListTypes'
    BY <1>1, <1>3, HeadFacts DEF ListTypes, InsertFails
  <2>2. RunnerTypes' /\ spoiled' \subseteq Ids
    BY <1>1, <1>3, HeadFacts DEF RunnerTypes, InsertFails
  <2>3. Fault("quota") /\ "quota" \in FaultKinds
    BY <1>3 DEF InsertFails, FaultKinds
  <2> QED
    BY <1>1, <1>3, <2>1, <2>2, <2>3, TypeParts, TypeFrame, FaultType DEF InsertFails
<1>4. CASE RemoveFinish
  <2>1. removing.ids \in SUBSET Ids /\ removing.list \in [Ids -> Records]
    BY <1>1 DEF UserTypes
  <2>2. ListTypes'
    BY <1>1, <1>4, <2>1, DeletesFacts, RangeConcat DEF ListTypes, RemoveFinish
  <2>3. NoRemoval \in [ids : SUBSET Ids, list : [Ids -> Records]]
    BY <1>1 DEF NoRemoval
  <2>4. UserTypes' /\ spoiled' \subseteq Ids
    BY <1>1, <1>4, <2>3 DEF UserTypes, RemoveFinish
  <2> QED
    BY <1>1, <1>4, <2>2, <2>4, TypeParts, TypeFrame, FaultType DEF RemoveFinish
<1>5. CASE ClearFinish
  <2>1. ListTypes' /\ UserTypes'
    BY <1>1, <1>5 DEF ListTypes, UserTypes, ClearFinish
  <2> QED
    BY <1>1, <1>5, <2>1, TypeParts, TypeFrame, FaultType DEF ClearFinish
<1>6. CASE Reload
  <2>1. ListTypes'
    BY <1>1, <1>6, EmptySeq DEF ListTypes, Reload
  <2>2. NoRemoval \in [ids : SUBSET Ids, list : [Ids -> Records]]
    BY <1>1 DEF NoRemoval
  <2>3. UserTypes' /\ InitTypes' /\ RunnerTypes'
    BY <1>1, <1>6, <2>2 DEF ListTypes, UserTypes, InitTypes, RunnerTypes, Reload
  <2>4. Fault("reload") /\ "reload" \in FaultKinds
    BY <1>6 DEF Reload, FaultKinds
  <2> QED
    BY <1>1, <1>6, <2>1, <2>3, <2>4, TypeParts, FaultType DEF Reload
<1>7. CASE InitMark
  <2>1. ListTypes' /\ InitTypes'
    BY <1>1, <1>7, MarksFacts, RangeConcat DEF ListTypes, InitTypes, InitMark, Marks
  <2> QED
    BY <1>1, <1>7, <2>1, TypeParts, TypeFrame, FaultType DEF InitMark
<1>8. CASE InitFinish
  <2>1. ListTypes' /\ InitTypes'
    BY <1>1, <1>8 DEF ListTypes, InitTypes, InitFinish
  <2>2. RunnerTypes' /\ spoiled' \subseteq Ids
    BY <1>1, <1>8 DEF RunnerTypes, InitFinish, Resumable
  <2> QED
    BY <1>1, <1>8, <2>1, <2>2, TypeParts, TypeFrame, FaultType DEF InitFinish
<1> QED
    BY <1>2, <1>3, <1>4, <1>5, <1>6, <1>7, <1>8 DEF PageStep

LEMMA TypeStep ==
    ASSUME TypeOK, InsertInv, [Next]_vars
    PROVE  TypeOK'
<1>1. CASE UNCHANGED vars
    BY <1>1, TypeParts, TypeFrame DEF vars, EnvTypes
<1>2. CASE \E t \in Tasks : ExecStep(t) \/ RecoveryStep(t)
    BY <1>2, TaskStepType
<1> QED
    BY <1>1, <1>2, UserStepType, PageStepType DEF Next

-----------------------------------------------------------------------------
(***************************************************************************)
(* The steps of one task: its execution, its watchdog and its recovery.    *)
(***************************************************************************)
SameRunners(x) ==
    /\ exec'[x] = exec[x] /\ recovery'[x] = recovery[x]
    /\ x \in timers' <=> x \in timers
    /\ x \in watchdog' <=> x \in watchdog

\* What updateTaskInStore does to the list, if it does anything.
LEMMA UpdateFacts ==
    ASSUME IndInv, TypeOK', NEW t \in Tasks, NEW r,
           UNCHANGED list \/ (UpdateTask(t, r) /\ (Present(t) => r \in Records \ {NoTask}))
    PROVE  /\ db' = db /\ used' = used
           /\ \A x \in Ids \ {t} : mem'[x] = mem[x]
           /\ mem'[t] = NoTask <=> mem[t] = NoTask
           /\ \A w \in Range(writes') : w \in Range(writes) \/ (Present(t) /\ w = Put("put", t, mem'[t]))
           /\ Once(writes')
           /\ \A x \in Ids \ {t} : \A v : Ends(writes, db, x, v) => Ends(writes', db', x, v)
           /\ Ends(writes, db, t, mem[t]) => Ends(writes', db', t, mem'[t])
<1>1. /\ TypeOK /\ Once(writes) /\ t \in Ids
      /\ mem \in [Ids -> Records] /\ writes \in Seq(WriteOps)
    BY TypeParts DEF IndInv, InsertInv, ListTypes, Ids
<1>2. CASE UNCHANGED list
    BY <1>1, <1>2 DEF list
<1>3. CASE UpdateTask(t, r) /\ ~Present(t)
    BY <1>1, <1>3 DEF UpdateTask
<1>4. CASE UpdateTask(t, r) /\ Present(t) /\ r \in Records \ {NoTask}
  <2> DEFINE w == Put("put", t, r)
  <2>1. /\ w \in WriteOps /\ w.op = "put" /\ w.task = t /\ w.rec = r
    BY <1>1, <1>4, WriteFacts
  <2>2. /\ mem' = [mem EXCEPT ![t] = r] /\ writes' = Append(writes, w)
        /\ db' = db /\ used' = used
    BY <1>4 DEF UpdateTask
  <2> HIDE DEF w
  <2>3. mem'[t] = r /\ \A x \in Ids \ {t} : mem'[x] = mem[x]
    BY <1>1, <2>2
  <2>4. Range(writes') = Range(writes) \cup {w}
    BY <1>1, <2>1, <2>2, RangeAppend
  <2>5. Once(writes')
    BY <1>1, <2>1, <2>2, OnceAppend
  <2>6. \A x \in Ids \ {t} : \A v : Ends(writes, db, x, v) => Ends(writes', db', x, v)
    <3>1. \A x \in Ids \ {t} : ~Affects(w, x)
      BY <2>1 DEF Affects
    <3> QED
      BY <1>1, <2>1, <2>2, <3>1, EndsOther
  <2>7. Ends(writes', db', t, mem'[t])
    <3>1. Names(w, t)
      BY <2>1 DEF Names
    <3> QED
      BY <1>1, <2>1, <2>2, <2>3, <3>1, EndsPut
  <2> QED
    BY <1>4, <2>2, <2>3, <2>4, <2>5, <2>6, <2>7 DEF Present, w
<1> QED
    BY <1>2, <1>3, <1>4

LEMMA TaskStepKeeps ==
    ASSUME IndInv, TypeOK', NEW t \in Tasks, NEW r, ~Idle(t),
           UNCHANGED list \/ (UpdateTask(t, r) /\ (Present(t) => r \in Records \ {NoTask})),
           UNCHANGED <<init, user>>, spoiled \subseteq spoiled',
           \A x \in Tasks \ {t} : SameRunners(x),
           exec[t] = "inserting" => exec'[t] = "inserting",
           One(t)',
           t \notin spoiled' => Runner(t)' /\ GoodRec(t, mem'[t]) /\ Stays(t)
    PROVE  Keeps
<1>1. /\ db' = db /\ used' = used
      /\ \A x \in Ids \ {t} : mem'[x] = mem[x]
      /\ mem'[t] = NoTask <=> mem[t] = NoTask
      /\ \A w \in Range(writes') : w \in Range(writes) \/ (Present(t) /\ w = Put("put", t, mem'[t]))
      /\ Once(writes')
    BY UpdateFacts
<1>2. /\ \A x \in Ids \ {t} : \A v : Ends(writes, db, x, v) => Ends(writes', db', x, v)
      /\ Ends(writes, db, t, mem[t]) => Ends(writes', db', t, mem'[t])
    BY UpdateFacts
<1>3. /\ TypeOK /\ InsertInv /\ ClearInv /\ RemovalInv /\ t \in Ids /\ Tasks \subseteq Ids
      /\ page' = page /\ stored' = stored /\ removing' = removing /\ clearing' = clearing
    BY DEF IndInv, Ids, init, user
<1>4. mem'[t] \in Records
    BY <1>3, TypeParts DEF TypeOK
<1> DEFINE p == Put("put", t, mem'[t])
<1>5. p.op = "put" /\ p.task = t /\ p.rec = mem'[t]
    BY <1>3, <1>4, WriteFacts
<1>6. \A w \in Range(writes') : w \in Range(writes) \/ (Present(t) /\ w = p)
    BY <1>1
<1> HIDE DEF p
<1>7. InsertInv'
  <2>1. \A w \in Range(writes') : w.op = "insert" => w.task \in Tasks /\ exec'[w.task] = "inserting"
    <3> TAKE w \in Range(writes')
    <3> HAVE w.op = "insert"
    <3>1. w \in Range(writes)
      BY <1>5, <1>6
    <3>2. w.task \in Tasks /\ exec[w.task] = "inserting"
      BY <1>3, <3>1 DEF InsertInv
    <3> QED
      BY <3>2 DEF SameRunners
  <2> QED
    BY <1>1, <2>1 DEF InsertInv
<1>8. ClearInv' /\ RemovalInv'
    BY <1>3, <1>5, <1>6 DEF ClearInv, RemovalInv
<1>9. \A x \in Ids : Loading(x)'
  <2> TAKE x \in Ids
  <2>1. Loading(x)
    BY DEF IndInv
  <2>2. CASE x = t
    <3>1. stored[t] = NoTask
      BY <1>3, <2>1, <2>2 DEF Loading
    <3> QED
      BY <1>3, <2>2, <3>1 DEF Loading
  <2>3. CASE x # t
    BY <1>1, <1>3, <2>1, <2>3 DEF Loading, Idle, SameRunners
  <2> QED
    BY <2>2, <2>3
<1>10. \A x \in Tasks : One(x)' /\ (x \notin used' => Fresh(x)')
  <2> TAKE x \in Tasks
  <2>1. One(x) /\ (x \notin used => Fresh(x))
    BY DEF IndInv
  <2>2. CASE x = t
    <3>1. x \in used
      BY <2>1, <2>2 DEF Fresh
    <3> QED
      BY <1>1, <2>2, <3>1
  <2>3. CASE x # t
    <3>1. One(x)'
      BY <2>1, <2>3 DEF One, SameRunners
    <3>2. ASSUME x \notin used PROVE Fresh(x)'
      <4>1. Fresh(x)
        BY <2>1, <3>2
      <4>2. \A w \in Range(writes') : ~Names(w, x)
        BY <1>5, <1>6, <2>3, <4>1 DEF Fresh, Names
      <4> QED
        BY <1>1, <1>3, <2>3, <4>1, <4>2 DEF Fresh, Idle, SameRunners
    <3> QED
      BY <1>1, <3>1, <3>2
  <2> QED
    BY <2>2, <2>3
<1>11. \A x \in Tasks \ spoiled' : GoodRecs(x)' /\ Runner(x)'
  <2> TAKE x \in Tasks \ spoiled'
  <2>1. GoodRecs(x) /\ Runner(x)
    BY DEF IndInv
  <2>2. CASE x = t
    <3>1. \A w \in Range(writes') : Names(w, x) => GoodRec(x, w.rec)
      BY <1>5, <1>6, <2>1, <2>2 DEF GoodRecs
    <3> QED
      BY <1>1, <1>3, <2>1, <2>2, <3>1 DEF GoodRecs
  <2>3. CASE x # t
    <3>1. \A w \in Range(writes') : Names(w, x) => GoodRec(x, w.rec)
      BY <1>5, <1>6, <2>1, <2>3 DEF GoodRecs, Names
    <3>2. GoodRecs(x)'
      BY <1>1, <1>3, <2>1, <2>3, <3>1 DEF GoodRecs
    <3>3. Runner(x)'
      BY <1>1, <1>3, <2>1, <2>3 DEF Runner, Running, Present, SameRunners
    <3> QED
      BY <3>2, <3>3
  <2> QED
    BY <2>2, <2>3
<1>12. \A x \in Ids \ spoiled' : Store(x)'
  <2> TAKE x \in Ids \ spoiled'
  <2>1. Store(x) /\ Loading(x)
    BY DEF IndInv
  <2>2. CASE x = t
    <3>1. stored[t] = NoTask
      BY <1>3, <2>1, <2>2 DEF Loading
    <3> QED
      BY <1>1, <1>2, <1>3, <2>1, <2>2, <3>1 DEF Store, Present
  <2>3. CASE x # t
    BY <1>1, <1>2, <1>3, <2>1, <2>3 DEF Store, Present
  <2> QED
    BY <2>2, <2>3
<1>13. \A x \in Ids \ spoiled' : Stays(x)
    BY <1>1 DEF Stays
<1> QED
    BY <1>7, <1>8, <1>9, <1>10, <1>11, <1>12, <1>13 DEF Keeps, IndInv

\* What is known of the task a step is about.
LEMMA TaskFacts ==
    ASSUME IndInv, NEW t \in Tasks
    PROVE  /\ TypeOK /\ One(t) /\ t \in Ids /\ mem[t] \in Records
           /\ RunnerTypes
           /\ mem[t].remote \in BOOLEAN /\ mem[t].recoverable \in BOOLEAN
           /\ mem[t].status \in {"absent", "running", "done", "error"}
           /\ Present(t) <=> mem[t].status # "absent"
           /\ t \notin spoiled => Runner(t) /\ GoodRec(t, mem[t])
<1>1. TypeOK /\ t \in Ids /\ RunnerTypes /\ mem[t] \in Records
    BY TypeParts DEF IndInv, ListTypes, Ids
<1>2. /\ mem[t].remote \in BOOLEAN /\ mem[t].recoverable \in BOOLEAN
      /\ mem[t].status \in {"absent", "running", "done", "error"}
      /\ Present(t) <=> mem[t].status # "absent"
  <2>1. \A r \in Records : /\ r.remote \in BOOLEAN /\ r.recoverable \in BOOLEAN
                           /\ r.status \in {"absent", "running", "done", "error"}
                           /\ r = NoTask <=> r.status = "absent"
    BY RecordFacts, Zenon
  <2> QED
    BY <1>1, <2>1, Zenon DEF Present
<1>3. One(t) /\ (t \notin spoiled => Runner(t) /\ GoodRec(t, mem[t]))
    BY DEF IndInv, GoodRecs
<1> QED
    BY <1>1, <1>2, <1>3

\* Steps that leave the list alone.
LEMMA QuietTaskKeeps ==
    ASSUME IndInv, TypeOK', NEW t \in Tasks, ~Idle(t), UNCHANGED <<list, init, user>>,
           spoiled \subseteq spoiled', \A x \in Tasks \ {t} : SameRunners(x),
           exec[t] = "inserting" => exec'[t] = "inserting",
           One(t)', t \notin spoiled' => Runner(t)'
    PROVE  Keeps
<1>1. mem' = mem
    BY DEF list
<1>2. t \notin spoiled' => GoodRec(t, mem'[t]) /\ Stays(t)
    BY <1>1, TaskFacts DEF Stays
<1> QED
    BY <1>2, TaskStepKeeps

LEMMA CallApiKeeps ==
    ASSUME IndInv, TypeOK', NEW t \in Tasks, CallApi(t)
    PROVE  Keeps
<1>1. /\ exec[t] = "loading" /\ exec' = [exec EXCEPT ![t] = "calling"]
      /\ UNCHANGED <<list, init, watchdog, timers, recovery, user, spoiled>>
    BY DEF CallApi
<1>2. exec'[t] = "calling" /\ ~Idle(t) /\ \A x \in Tasks \ {t} : SameRunners(x)
    BY <1>1, TaskFacts DEF RunnerTypes, Idle, SameRunners
<1>3. One(t)'
    BY <1>1, TaskFacts DEF One
<1>4. t \notin spoiled' => Runner(t)'
    BY <1>1, <1>2, TaskFacts DEF Runner, Running, Present, list
<1> QED
    BY <1>1, <1>2, <1>3, <1>4, QuietTaskKeeps

LEMMA EnqueuedKeeps ==
    ASSUME IndInv, TypeOK', NEW t \in Tasks, Enqueued(t)
    PROVE  Keeps
<1> DEFINE r == [mem[t] EXCEPT !.remote = TRUE, !.recoverable = FALSE]
<1>1. /\ exec[t] = "calling" /\ Kind[t] \in {"fal", "custom"} /\ exec' = [exec EXCEPT ![t] = "polling"]
      /\ UpdateTask(t, r)
      /\ UNCHANGED <<init, watchdog, timers, recovery, user, spoiled>>
    BY DEF Enqueued
<1>2. Present(t) => /\ r \in Records \ {NoTask} /\ r.status = mem[t].status
                    /\ r.remote = TRUE /\ r.recoverable = FALSE
    BY TaskFacts, RecordFacts DEF Present
<1> HIDE DEF r
<1>3. exec'[t] = "polling" /\ ~Idle(t) /\ \A x \in Tasks \ {t} : SameRunners(x)
    BY <1>1, TaskFacts DEF RunnerTypes, Idle, SameRunners
<1>4. One(t)'
    BY <1>1, TaskFacts DEF One
<1>5. mem'[t] = IF Present(t) THEN r ELSE mem[t]
    BY <1>1, TaskFacts DEF UpdateTask, TypeOK
<1>6. ASSUME t \notin spoiled PROVE Runner(t)' /\ GoodRec(t, mem'[t]) /\ Stays(t)
  <2>1. Runner(t) /\ GoodRec(t, mem[t]) /\ One(t)
    BY <1>6, TaskFacts
  <2>2. CASE ~Present(t)
    <3>1. mem'[t] = mem[t] /\ mem[t].status # "running" /\ mem[t] = NoTask
      BY <1>5, <2>2, TaskFacts DEF Present
    <3> QED
      BY <1>1, <1>3, <2>1, <2>2, <3>1 DEF Runner, Running, Present, Stays
  <2>3. CASE Present(t)
    <3>1. mem[t].status = "running"
      BY <1>1, <2>1, <2>3 DEF Runner, Running
    <3>2. mem'[t] = r /\ r.status = "running" /\ r.remote = TRUE /\ r.recoverable = FALSE
      BY <1>2, <1>5, <2>3, <3>1
    <3>3. Runner(t)'
      BY <1>1, <1>3, <2>1, <2>3, <3>1, <3>2 DEF Runner, Running, Present, One, Settled
    <3>4. GoodRec(t, mem'[t]) /\ Stays(t)
      BY <1>1, <3>1, <3>2 DEF GoodRec, Stays, Settled
    <3> QED
      BY <3>3, <3>4
  <2> QED
    BY <2>2, <2>3
<1> QED
    BY <1>1, <1>2, <1>3, <1>4, <1>6, TaskStepKeeps

LEMMA ApiResultKeeps ==
    ASSUME IndInv, TypeOK', NEW t \in Tasks, ApiResult(t)
    PROVE  Keeps
<1>1. /\ exec[t] = IF Kind[t] \in {"fal", "custom"} THEN "polling" ELSE "calling"
      /\ exec' = [exec EXCEPT ![t] = IF Running(t) THEN "storing" ELSE "idle"]
      /\ UNCHANGED <<list, init, watchdog, timers, recovery, user, spoiled>>
    BY DEF ApiResult, Answerable
<1>2. exec'[t] = (IF Running(t) THEN "storing" ELSE "idle")
    BY <1>1, TaskFacts DEF RunnerTypes
<1>3. ~Idle(t) /\ exec[t] # "inserting" /\ \A x \in Tasks \ {t} : SameRunners(x)
    BY <1>1, TaskFacts DEF RunnerTypes, Idle, SameRunners
<1>4. One(t)'
    BY <1>1, TaskFacts DEF One
<1>5. t \notin spoiled' => Runner(t)'
    BY <1>1, <1>2, TaskFacts DEF Runner, Running, Present, list
<1> QED
    BY <1>1, <1>3, <1>4, <1>5, QuietTaskKeeps

LEMMA EndedFacts ==
    ASSUME IndInv, NEW t \in Tasks, NEW st \in {"done", "error"}, NEW b \in BOOLEAN
    PROVE  /\ Ended(t, st, b) \in Records \ {NoTask}
           /\ Ended(t, st, b).status = st /\ Ended(t, st, b).recoverable = b
           /\ Ended(t, st, b).remote = mem[t].remote
<1>1. mem[t] \in Records
    BY TaskFacts
<1> DEFINE E(r, s, c) == [r EXCEPT !.status = s, !.recoverable = c]
<1>2. \A r \in Records, s \in {"running", "done", "error"}, c \in BOOLEAN :
         /\ E(r, s, c) \in Records \ {NoTask}
         /\ E(r, s, c).status = s
         /\ E(r, s, c).recoverable = c
         /\ E(r, s, c).remote = r.remote
    BY RecordFacts, Zenon
<1>3. st \in {"running", "done", "error"} /\ Ended(t, st, b) = E(mem[t], st, b)
    BY DEF Ended
<1> HIDE DEF E
<1>4. E(mem[t], st, b) \in Records \ {NoTask}
    BY <1>1, <1>2, <1>3, Zenon
<1>5. E(mem[t], st, b).status = st /\ E(mem[t], st, b).remote = mem[t].remote
    BY <1>1, <1>2, <1>3
<1>6. E(mem[t], st, b).recoverable = b
    BY <1>1, <1>2, <1>3
<1> QED
    BY <1>3, <1>4, <1>5, <1>6, Zenon

\* A running task ends and nobody works on it any longer.
LEMMA EndKeeps ==
    ASSUME IndInv, TypeOK', NEW t \in Tasks, NEW st \in {"done", "error"},
           UNCHANGED list \/ UpdateTask(t, Ended(t, st, FALSE)),
           Running(t) => UpdateTask(t, Ended(t, st, FALSE)),
           t \notin spoiled /\ Present(t) /\ Settled(mem[t]) => mem' = mem,
           t \notin spoiled /\ mem[t].recoverable => mem' # mem,
           UNCHANGED <<init, user, spoiled>>, ~Idle(t),
           \A x \in Tasks \ {t} : SameRunners(x),
           exec'[t] = "idle" /\ recovery'[t] = "idle" /\ t \notin timers' /\ exec[t] # "inserting",
           t \in watchdog' => t \in watchdog
    PROVE  Keeps
<1> DEFINE r == Ended(t, st, FALSE)
<1>1. /\ r \in Records \ {NoTask} /\ r.status = st /\ r.recoverable = FALSE /\ r.remote = mem[t].remote
    BY EndedFacts
<1>2. mem'[t] = mem[t] \/ (Present(t) /\ mem'[t] = r)
    BY TaskFacts DEF UpdateTask, list, TypeOK
<1>3. Running(t) => mem'[t] = r
    BY TaskFacts DEF UpdateTask, TypeOK, Running
<1>4. One(t)'
    BY DEF One
<1>5. ASSUME t \notin spoiled PROVE Runner(t)' /\ GoodRec(t, mem'[t]) /\ Stays(t)
  <2>1. Runner(t) /\ GoodRec(t, mem[t]) /\ One(t)
    BY <1>5, TaskFacts
  <2>2. mem'[t].status # "running" /\ (t \in watchdog' => Kind[t] = "single")
    BY <1>1, <1>2, <1>3, <2>1 DEF Running, Runner
  <2>3. ~mem'[t].recoverable
    <3>1. CASE mem'[t] = r
      BY <1>1, <3>1
    <3>2. CASE mem'[t] # r
      <4>1. mem' = mem
        <5>1. CASE UNCHANGED list
          BY <5>1 DEF list
        <5>2. CASE UpdateTask(t, r)
          BY <3>2, <5>2, TaskFacts DEF UpdateTask, TypeOK
        <5> QED
          BY <5>1, <5>2
      <4> QED
        BY <1>5, <4>1
    <3> QED
      BY <3>1, <3>2
  <2>4. Runner(t)'
    BY <2>2, <2>3 DEF Runner, Running
  <2>5. GoodRec(t, mem'[t])
    BY <1>1, <1>2, <2>1, <2>3 DEF GoodRec
  <2>6. Stays(t)
    BY <1>5 DEF Stays
  <2> QED
    BY <2>4, <2>5, <2>6
<1> HIDE DEF r
<1>6. UNCHANGED list \/ (UpdateTask(t, r) /\ (Present(t) => r \in Records \ {NoTask}))
    BY <1>1 DEF r
<1> QED
    BY <1>4, <1>5, <1>6, TaskStepKeeps

LEMMA OutputStoredKeeps ==
    ASSUME IndInv, TypeOK', NEW t \in Tasks, OutputStored(t)
    PROVE  Keeps
<1>1. /\ exec[t] = "storing" /\ exec' = [exec EXCEPT ![t] = "idle"]
      /\ watchdog' \subseteq watchdog /\ watchdog \subseteq watchdog' \cup {t}
      /\ UNCHANGED <<init, timers, recovery, user, spoiled>>
    BY DEF OutputStored
<1>2. /\ Running(t) => UpdateTask(t, Ended(t, "done", FALSE))
      /\ ~Running(t) => UNCHANGED list
    BY DEF OutputStored
<1>3. One(t) /\ recovery[t] = "idle" /\ t \notin timers
    BY <1>1, TaskFacts DEF One
<1>4. /\ exec'[t] = "idle" /\ recovery'[t] = "idle" /\ t \notin timers' /\ ~Idle(t)
      /\ \A x \in Tasks \ {t} : SameRunners(x)
    BY <1>1, <1>3, TaskFacts DEF RunnerTypes, Idle, SameRunners
<1>5. t \notin spoiled => ~mem[t].recoverable
    BY <1>3, TaskFacts DEF Runner
<1>6. Settled(mem[t]) => ~Running(t)
    BY DEF Settled, Running
<1>7. ~Running(t) => mem' = mem
    BY <1>2 DEF list
<1> QED
    BY <1>1, <1>2, <1>4, <1>5, <1>6, <1>7, EndKeeps

LEMMA ExecFailsKeeps ==
    ASSUME IndInv, TypeOK', NEW t \in Tasks, ExecFails(t)
    PROVE  Keeps
<1>1. /\ exec[t] \in {"loading", "calling", "polling", "storing"} /\ exec' = [exec EXCEPT ![t] = "idle"]
      /\ watchdog' = watchdog \ {t}
      /\ UNCHANGED <<init, timers, recovery, user, spoiled>>
    BY DEF ExecFails
<1>2. /\ Running(t) => UpdateTask(t, Ended(t, "error", FALSE))
      /\ ~Running(t) => UNCHANGED list
    BY DEF ExecFails
<1>3. One(t) /\ recovery[t] = "idle" /\ t \notin timers
    BY <1>1, TaskFacts DEF One
<1>4. /\ exec'[t] = "idle" /\ recovery'[t] = "idle" /\ t \notin timers' /\ ~Idle(t) /\ exec[t] # "inserting"
      /\ \A x \in Tasks \ {t} : SameRunners(x)
    BY <1>1, <1>3, TaskFacts DEF RunnerTypes, Idle, SameRunners
<1>5. t \notin spoiled => ~mem[t].recoverable
    BY <1>3, TaskFacts DEF Runner
<1>6. Settled(mem[t]) => ~Running(t)
    BY DEF Settled, Running
<1>7. ~Running(t) => mem' = mem
    BY <1>2 DEF list
<1> QED
    BY <1>1, <1>2, <1>4, <1>5, <1>6, <1>7, EndKeeps

LEMMA ExecDisconnectedKeeps ==
    ASSUME IndInv, TypeOK', NEW t \in Tasks, ExecDisconnected(t)
    PROVE  Keeps
<1> DEFINE r == Ended(t, "error", TRUE)
<1>1. /\ exec[t] = "polling" /\ exec' = [exec EXCEPT ![t] = "idle"] /\ watchdog' = watchdog \ {t}
      /\ UNCHANGED <<init, recovery, user, spoiled>>
      /\ timers \subseteq timers' /\ timers' \subseteq timers \cup {t}
    BY DEF ExecDisconnected
<1>2. /\ Running(t) \/ ~Present(t) => UpdateTask(t, r) /\ t \in timers'
      /\ ~(Running(t) \/ ~Present(t)) => UNCHANGED list /\ timers' = timers
    BY DEF ExecDisconnected
<1>3. /\ r \in Records \ {NoTask} /\ r.status = "error" /\ r.recoverable = TRUE /\ r.remote = mem[t].remote
    BY EndedFacts
<1> HIDE DEF r
<1>4. One(t) /\ recovery[t] = "idle" /\ t \notin timers
    BY <1>1, TaskFacts DEF One
<1>5. /\ exec'[t] = "idle" /\ recovery'[t] = "idle" /\ ~Idle(t)
      /\ \A x \in Tasks \ {t} : SameRunners(x)
    BY <1>1, <1>4, TaskFacts DEF RunnerTypes, Idle, SameRunners
<1>6. One(t)'
    BY <1>5 DEF One
<1>7. ASSUME t \notin spoiled PROVE Runner(t)' /\ GoodRec(t, mem'[t]) /\ Stays(t)
  <2>1. Runner(t) /\ GoodRec(t, mem[t])
    BY <1>7, TaskFacts
  <2>2. Kind[t] \in {"fal", "custom"} /\ (Present(t) => Running(t) /\ mem[t].remote)
    BY <1>1, <2>1 DEF Runner
  <2>3. CASE Present(t)
    <3>1. mem'[t] = r /\ t \in timers'
      BY <1>2, <2>2, <2>3, TaskFacts DEF UpdateTask, TypeOK
    <3>2. Runner(t)'
      BY <1>1, <1>3, <1>5, <2>2, <2>3, <3>1 DEF Runner, Running, Present, Settled
    <3>3. GoodRec(t, mem'[t]) /\ Stays(t)
      BY <1>3, <2>2, <2>3, <3>1 DEF GoodRec, Stays, Running, Settled
    <3> QED
      BY <3>2, <3>3
  <2>4. CASE ~Present(t)
    <3>1. mem'[t] = mem[t] /\ mem[t] = NoTask
      BY <1>2, <2>4 DEF UpdateTask, Present
    <3>2. NoTask.status = "absent" /\ ~NoTask.recoverable
      BY DEF NoTask
    <3>3. Runner(t)'
      BY <1>1, <1>5, <3>1, <3>2 DEF Runner, Running, Present
    <3> QED
      BY <2>1, <3>1, <3>3 DEF Stays
  <2> QED
    BY <2>3, <2>4
<1>8. UNCHANGED list \/ (UpdateTask(t, r) /\ (Present(t) => r \in Records \ {NoTask}))
    BY <1>2, <1>3
<1> QED
    BY <1>1, <1>5, <1>6, <1>7, <1>8, TaskStepKeeps

LEMMA StallKeeps ==
    ASSUME IndInv, TypeOK', NEW t \in Tasks, Stall(t)
    PROVE  Keeps
<1>1. /\ exec[t] \in {"calling", "polling"} /\ exec' = [exec EXCEPT ![t] = "stalled"]
      /\ UNCHANGED <<list, init, watchdog, timers, recovery, user, spoiled>>
    BY DEF Stall
<1>2. exec'[t] = "stalled" /\ ~Idle(t) /\ \A x \in Tasks \ {t} : SameRunners(x)
    BY <1>1, TaskFacts DEF RunnerTypes, Idle, SameRunners
<1>3. One(t)'
    BY <1>1, TaskFacts DEF One
<1>4. ASSUME t \notin spoiled' PROVE Runner(t)'
  <2>1. Runner(t) /\ mem' = mem
    BY <1>1, <1>4, TaskFacts DEF list
  <2> QED
    BY <1>1, <1>2, <2>1 DEF Runner, Running, Present
<1> QED
    BY <1>1, <1>2, <1>3, <1>4, QuietTaskKeeps

LEMMA WatchdogFiresKeeps ==
    ASSUME IndInv, TypeOK', NEW t \in Tasks, WatchdogFires(t)
    PROVE  Keeps
<1> DEFINE r == Ended(t, "error", mem[t].recoverable)
<1>1. /\ t \in watchdog /\ watchdog' = watchdog \ {t}
      /\ UNCHANGED <<init, exec, timers, recovery, user, spoiled>>
      /\ Running(t) => UpdateTask(t, r)
      /\ ~Running(t) => UNCHANGED list
    BY DEF WatchdogFires
<1>2. mem[t].recoverable \in BOOLEAN
    BY TaskFacts
<1>3. /\ r \in Records \ {NoTask} /\ r.status = "error" /\ r.recoverable = mem[t].recoverable
      /\ r.remote = mem[t].remote
    BY <1>2, EndedFacts
<1> HIDE DEF r
<1>4. ~Idle(t) /\ \A x \in Tasks \ {t} : SameRunners(x)
    BY <1>1 DEF Idle, SameRunners
<1>5. One(t)'
    BY <1>1, TaskFacts DEF One
<1>6. ASSUME t \notin spoiled PROVE Runner(t)' /\ GoodRec(t, mem'[t]) /\ Stays(t)
  <2>1. Runner(t) /\ GoodRec(t, mem[t])
    BY <1>6, TaskFacts
  <2>2. Kind[t] = "single" /\ ~mem[t].remote /\ ~mem[t].recoverable
    BY <1>1, <2>1 DEF Runner, GoodRec
  <2>3. CASE Running(t)
    <3>1. mem'[t] = r /\ Present(t)
      BY <1>1, <2>3, TaskFacts DEF UpdateTask, TypeOK, Running
    <3>2. recovery[t] = "idle" /\ t \notin timers
      BY <2>1, <2>2, <3>1 DEF Runner
    <3>3. Runner(t)'
      BY <1>1, <1>3, <2>1, <2>2, <3>1, <3>2 DEF Runner, Running, Present
    <3> QED
      BY <1>3, <2>2, <2>3, <3>1, <3>3 DEF GoodRec, Stays, Running, Settled
  <2>4. CASE ~Running(t)
    <3>1. mem' = mem
      BY <1>1, <2>4 DEF list
    <3>2. Runner(t)'
      BY <1>1, <2>1, <2>4, <3>1 DEF Runner, Running, Present
    <3> QED
      BY <2>1, <3>1, <3>2 DEF Stays
  <2> QED
    BY <2>3, <2>4
<1>7. UNCHANGED list \/ (UpdateTask(t, r) /\ (Present(t) => r \in Records \ {NoTask}))
    BY <1>1, <1>3
<1> QED
    BY <1>1, <1>4, <1>5, <1>6, <1>7, TaskStepKeeps

\* A recovery begins, goes on to its result, goes back to its timer, or stalls.
LEMMA RecoveryMoves ==
    ASSUME IndInv, TypeOK', NEW t \in Tasks,
           TimerFires(t) \/ RecoveryResult(t) \/ RecoveryDisconnected(t) \/ RecoveryStalls(t)
    PROVE  Keeps
<1>1. /\ t \in timers \/ recovery[t] # "idle"
      /\ UNCHANGED <<list, init, exec, watchdog, user, spoiled>>
      /\ \A x \in Tasks \ {t} : recovery'[x] = recovery[x] /\ (x \in timers' <=> x \in timers)
      /\ t \in timers' => recovery'[t] = "idle"
    BY TaskFacts DEF TimerFires, Wanted, RecoveryResult, RecoveryDisconnected, RecoveryStalls, RunnerTypes, One
<1>2. Present(t) /\ mem[t].remote /\ mem[t].status # "done" => t \in timers' \/ recovery'[t] # "idle"
    BY TaskFacts DEF TimerFires, Wanted, RecoveryResult, RecoveryDisconnected, RecoveryStalls, RunnerTypes, One
<1>3. exec[t] = "idle" /\ exec'[t] = "idle" /\ mem' = mem
    BY <1>1, TaskFacts DEF One, list
<1>4. ~Idle(t) /\ \A x \in Tasks \ {t} : SameRunners(x)
    BY <1>1 DEF Idle, SameRunners
<1>5. One(t)'
    BY <1>1, <1>3 DEF One
<1>6. ASSUME t \notin spoiled' PROVE Runner(t)'
  <2>1. Runner(t) /\ GoodRec(t, mem[t])
    BY <1>1, <1>6, TaskFacts
  <2>2. CASE Present(t)
    <3>1. ~Settled(mem[t]) /\ mem[t].remote
      BY <1>1, <2>1, <2>2 DEF Runner
    <3>2. t \in timers' \/ recovery'[t] # "idle"
      BY <1>2, <2>2, <3>1 DEF Settled
    <3> QED
      BY <1>1, <1>3, <2>1, <3>1, <3>2 DEF Runner, Running, Present
  <2>3. CASE ~Present(t)
    <3>1. mem[t].status = "absent" /\ ~mem[t].recoverable
      BY <2>1, <2>3, TaskFacts DEF GoodRec
    <3> QED
      BY <1>1, <1>3, <2>1, <2>3, <3>1 DEF Runner, Running, Present
  <2> QED
    BY <2>2, <2>3
<1> QED
    BY <1>1, <1>3, <1>4, <1>5, <1>6, QuietTaskKeeps

\* A recovery ends, with the images or without.
LEMMA RecoveryEnds ==
    ASSUME IndInv, TypeOK', NEW t \in Tasks, RecoveryStored(t) \/ RecoveryFails(t)
    PROVE  Keeps
<1>1. /\ recovery[t] # "idle" /\ recovery' = [recovery EXCEPT ![t] = "idle"]
      /\ timers' = timers \/ timers' = timers \ {t}
      /\ UNCHANGED <<init, exec, watchdog, user, spoiled>>
    BY DEF RecoveryStored, RecoveryFails
<1>2. PICK st \in {"done", "error"} : UpdateTask(t, Ended(t, st, FALSE))
    BY DEF RecoveryStored, RecoveryFails
<1>3. exec[t] = "idle" /\ t \notin timers
    BY <1>1, TaskFacts DEF One
<1>4. /\ exec'[t] = "idle" /\ recovery'[t] = "idle" /\ t \notin timers' /\ ~Idle(t) /\ exec[t] # "inserting"
      /\ \A x \in Tasks \ {t} : SameRunners(x)
    BY <1>1, <1>3, TaskFacts DEF RunnerTypes, Idle, SameRunners
<1>5. t \notin spoiled /\ Present(t) => ~Settled(mem[t])
    BY <1>1, TaskFacts DEF Runner
<1>6. ASSUME t \notin spoiled, mem[t].recoverable PROVE mem' # mem
  <2>1. Present(t)
    BY <1>6, TaskFacts DEF GoodRec
  <2>2. mem'[t] = Ended(t, st, FALSE)
    BY <1>2, <2>1, TaskFacts DEF UpdateTask, TypeOK
  <2>3. Ended(t, st, FALSE).recoverable = FALSE
    BY EndedFacts
  <2> QED
    BY <1>6, <2>2, <2>3
<1> QED
    BY <1>1, <1>2, <1>4, <1>5, <1>6, EndKeeps

LEMMA TaskActionKeeps ==
    ASSUME IndInv, TypeOK', NEW t \in Tasks, ExecStep(t) \/ RecoveryStep(t)
    PROVE  Keeps
BY CallApiKeeps, EnqueuedKeeps, ApiResultKeeps, OutputStoredKeeps, ExecFailsKeeps,
   ExecDisconnectedKeeps, StallKeeps, WatchdogFiresKeeps, RecoveryMoves, RecoveryEnds
   DEF ExecStep, RecoveryStep

-----------------------------------------------------------------------------
(***************************************************************************)
(* The steps of the user and of the page.                                  *)
(***************************************************************************)
LEMMA NoTaskFacts ==
    /\ NoTask.status = "absent" /\ ~NoTask.remote /\ ~NoTask.recoverable
    /\ \A t : GoodRec(t, NoTask)
    /\ NoRemoval.ids = {} /\ \A t \in Ids : NoRemoval.list[t] = NoTask
BY DEF NoTask, GoodRec, NoRemoval

LEMMA Parts ==
    ASSUME IndInv
    PROVE  /\ TypeOK /\ InsertInv /\ ClearInv /\ RemovalInv /\ Tasks \subseteq Ids
           /\ ListTypes /\ InitTypes /\ RunnerTypes /\ UserTypes /\ spoiled \subseteq Ids
           /\ \A x \in Ids : Loading(x)
           /\ \A x \in Tasks : One(x) /\ (x \notin used => Fresh(x))
           /\ \A x \in Tasks \ spoiled : GoodRecs(x) /\ Runner(x)
           /\ \A x \in Ids \ spoiled : Store(x)
BY TypeParts DEF IndInv, Ids

LEMMA SubmitKeeps ==
    ASSUME IndInv, TypeOK', NEW t \in Tasks, Submit(t)
    PROVE  Keeps
<1> DEFINE r == [status |-> "running", remote |-> FALSE, recoverable |-> FALSE]
           w == Put("insert", t, r)
<1>1. r \in Records /\ r.status = "running" /\ ~r.remote /\ ~r.recoverable
    BY RecordFacts
<1>2. /\ t \notin used /\ mem' = [mem EXCEPT ![t] = r] /\ writes' = Append(writes, w)
      /\ used' = used \cup {t} /\ exec' = [exec EXCEPT ![t] = "inserting"]
      /\ UNCHANGED <<db, init, watchdog, timers, recovery, user, spoiled>>
    BY DEF Submit
<1> HIDE DEF r
<1>3. /\ mem \in [Ids -> Records] /\ writes \in Seq(WriteOps) /\ RunnerTypes
      /\ Tasks \subseteq Ids /\ t \in Ids /\ InsertInv /\ ClearInv /\ RemovalInv
    BY Parts DEF ListTypes
<1>4. w \in WriteOps /\ w.op = "insert" /\ w.task = t /\ w.rec = r
    BY <1>1, <1>3, WriteFacts
<1> HIDE DEF w
<1>5. Fresh(t)
    BY <1>2, Parts
<1>6. /\ mem'[t] = r /\ \A x \in Ids \ {t} : mem'[x] = mem[x]
      /\ exec'[t] = "inserting" /\ \A x \in Tasks \ {t} : exec'[x] = exec[x]
      /\ db' = db /\ page' = page /\ stored' = stored /\ removing' = removing /\ clearing' = clearing
    BY <1>2, <1>3 DEF RunnerTypes, init, user
<1>7. Range(writes') = Range(writes) \cup {w}
    BY <1>2, <1>3, <1>4, RangeAppend
<1>8. InsertInv'
  <2>1. \A v \in Range(writes) : v.op = "insert" => v.task # t
    BY <1>5 DEF Fresh, Names
  <2>2. Once(writes')
    BY <1>2, <1>3, <1>4, <2>1, OnceAppend DEF InsertInv
  <2> QED
    BY <1>3, <1>4, <1>6, <1>7, <2>1, <2>2 DEF InsertInv
<1>9. ClearInv' /\ RemovalInv'
    BY <1>2, <1>3, <1>4, <1>6, <1>7 DEF ClearInv, RemovalInv
<1>10. \A x \in Ids : Loading(x)'
  <2> TAKE x \in Ids
  <2>1. CASE x = t
    BY <1>5, <1>6, <2>1 DEF Loading, Fresh
  <2>2. CASE x # t
    BY <1>2, <1>6, <2>2, Parts DEF Loading, Idle
  <2> QED
    BY <2>1, <2>2
<1>11. \A x \in Tasks : One(x)' /\ (x \notin used' => Fresh(x)')
  <2> TAKE x \in Tasks
  <2>1. CASE x = t
    BY <1>2, <1>5, <2>1 DEF One, Fresh, Idle
  <2>2. CASE x # t
    <3>1. One(x)'
      BY <1>2, <1>6, <2>2, Parts DEF One
    <3>2. ASSUME x \notin used' PROVE Fresh(x)'
      <4>1. Fresh(x)
        BY <1>2, <3>2, Parts
      <4>2. \A v \in Range(writes') : ~Names(v, x)
        BY <1>4, <1>7, <2>2, <4>1 DEF Fresh, Names
      <4> QED
        BY <1>2, <1>3, <1>6, <2>2, <4>1, <4>2 DEF Fresh, Idle
    <3> QED
      BY <3>1, <3>2
  <2> QED
    BY <2>1, <2>2
<1>12. \A x \in Tasks \ spoiled' : GoodRecs(x)' /\ Runner(x)'
  <2> TAKE x \in Tasks \ spoiled'
  <2>1. GoodRecs(x) /\ Runner(x)
    BY <1>2, Parts
  <2>2. CASE x = t
    <3>1. GoodRec(t, r)
      BY <1>1 DEF GoodRec
    <3>2. \A v \in Range(writes') : Names(v, x) => GoodRec(x, v.rec)
      BY <1>4, <1>7, <2>1, <2>2, <3>1 DEF GoodRecs
    <3>3. GoodRecs(x)'
      BY <1>6, <2>1, <2>2, <3>1, <3>2 DEF GoodRecs
    <3>4. Runner(x)'
      BY <1>1, <1>2, <1>5, <1>6, <2>2 DEF Runner, Running, Present, Fresh, Idle
    <3> QED
      BY <3>3, <3>4
  <2>3. CASE x # t
    <3>1. \A v \in Range(writes') : Names(v, x) => GoodRec(x, v.rec)
      BY <1>4, <1>7, <2>1, <2>3 DEF GoodRecs, Names
    <3>2. GoodRecs(x)'
      BY <1>3, <1>6, <2>1, <2>3, <3>1 DEF GoodRecs
    <3>3. Runner(x)'
      BY <1>2, <1>3, <1>6, <2>1, <2>3 DEF Runner, Running, Present
    <3> QED
      BY <3>2, <3>3
  <2> QED
    BY <2>2, <2>3
<1>13. \A x \in Ids \ spoiled' : Store(x)'
  <2> TAKE x \in Ids \ spoiled'
  <2>1. CASE x = t
    <3>1. Names(w, t)
      BY <1>4 DEF Names
    <3>2. Ends(writes', db', t, r)
      BY <1>2, <1>3, <1>4, <3>1, EndsPut
    <3> QED
      BY <1>5, <1>6, <2>1, <3>2 DEF Store, Fresh
  <2>2. CASE x # t
    <3>1. ~Affects(w, x)
      BY <1>4, <2>2 DEF Affects
    <3>2. \A v : Ends(writes, db, x, v) => Ends(writes', db', x, v)
      BY <1>2, <1>3, <1>4, <3>1, EndsOther
    <3> QED
      BY <1>2, <1>6, <2>2, <3>2, Parts DEF Store, Present
  <2> QED
    BY <2>1, <2>2
<1>14. \A x \in Ids \ spoiled' : Stays(x)
    BY <1>5, <1>6 DEF Stays, Present, Fresh
<1> QED
    BY <1>8, <1>9, <1>10, <1>11, <1>12, <1>13, <1>14 DEF Keeps, IndInv

\* Tasks leave the list, and their deletion is requested.
LEMMA DropKeeps ==
    ASSUME IndInv, TypeOK', NEW ids \in SUBSET Ids,
           writes' = writes \o Deletes(ids),
           \A x \in ids : mem'[x] = NoTask /\ stored[x] = NoTask /\ (x \in Tasks => x \in used),
           \A x \in Ids \ ids : x \notin spoiled' => mem'[x] = mem[x],
           \A x \in Ids : stored[x] # NoTask => mem'[x] = NoTask,
           \A x \in Tasks \ used : mem'[x] = NoTask,
           spoiled \subseteq spoiled', removing' \in {removing, NoRemoval},
           UNCHANGED <<db, used, init, runner, clearing>>
    PROVE  Keeps
<1>1. /\ mem \in [Ids -> Records] /\ writes \in Seq(WriteOps)
      /\ Tasks \subseteq Ids /\ InsertInv /\ ClearInv /\ RemovalInv
    BY Parts DEF ListTypes
<1>2. /\ db' = db /\ used' = used /\ page' = page /\ stored' = stored /\ clearing' = clearing
      /\ exec' = exec /\ watchdog' = watchdog /\ timers' = timers /\ recovery' = recovery
    BY DEF init, runner
<1>3. /\ Deletes(ids) \in Seq(WriteOps)
      /\ \A v \in Range(Deletes(ids)) :
           \E x \in ids : v = Put("delete", x, NoTask)
    BY DeletesFacts
<1>4. \A v \in Range(Deletes(ids)) : v.op = "delete" /\ v.task \in ids /\ v.rec = NoTask
  <2>1. \A x \in ids : LET p == Put("delete", x, NoTask)
                       IN  p.op = "delete" /\ p.task = x /\ p.rec = NoTask
    BY DEF Put
  <2> QED
    BY <1>3, <2>1
<1>5. Range(writes') = Range(writes) \cup Range(Deletes(ids))
    BY <1>1, <1>3, RangeConcat
<1>6. InsertInv'
  <2>1. Once(writes')
    BY <1>1, <1>3, <1>4, OnceConcat DEF InsertInv
  <2> QED
    BY <1>1, <1>2, <1>4, <1>5, <2>1 DEF InsertInv
<1>7. ClearInv'
    BY <1>1, <1>2, <1>4, <1>5 DEF ClearInv
<1>8. RemovalInv'
    BY <1>1, NoTaskFacts DEF RemovalInv
<1>9. \A x \in Ids : Loading(x)'
    BY <1>2, Parts, NoTaskFacts DEF Loading, Idle
<1>10. \A x \in Tasks : One(x)' /\ (x \notin used' => Fresh(x)')
  <2> TAKE x \in Tasks
  <2>1. One(x)'
    BY <1>2, Parts DEF One
  <2>2. ASSUME x \notin used PROVE Fresh(x)'
    <3>1. Fresh(x) /\ x \notin ids /\ mem'[x] = NoTask
      BY <2>2, Parts
    <3>2. \A v \in Range(writes') : ~Names(v, x)
      BY <1>4, <1>5, <3>1 DEF Fresh, Names
    <3> QED
      BY <1>1, <1>2, <3>1, <3>2, NoTaskFacts DEF Fresh, Idle
  <2> QED
    BY <1>2, <2>1, <2>2
<1>11. \A x \in Tasks \ spoiled' : GoodRecs(x)' /\ Runner(x)'
  <2> TAKE x \in Tasks \ spoiled'
  <2>1. GoodRecs(x) /\ Runner(x) /\ x \in Ids
    BY Parts
  <2>2. mem'[x] = NoTask \/ mem'[x] = mem[x]
    BY <2>1
  <2>3. \A v \in Range(writes') : Names(v, x) => GoodRec(x, v.rec)
    BY <1>4, <1>5, <2>1, NoTaskFacts DEF GoodRecs
  <2>4. GoodRecs(x)'
    BY <1>2, <2>1, <2>2, <2>3, NoTaskFacts DEF GoodRecs
  <2>5. Runner(x)'
    BY <1>2, <2>1, <2>2, NoTaskFacts DEF Runner, Running, Present
  <2> QED
    BY <2>4, <2>5
<1>12. \A x \in Ids \ spoiled' : Store(x)'
  <2> TAKE x \in Ids \ spoiled'
  <2>1. CASE x \in ids
    BY <1>2, <2>1 DEF Store, Present
  <2>2. CASE x \notin ids
    <3>1. \A v \in Range(Deletes(ids)) : ~Affects(v, x)
      BY <1>4, <2>2 DEF Affects
    <3>2. \A v : Ends(writes, db, x, v) => Ends(writes', db', x, v)
      BY <1>1, <1>2, <1>3, <3>1, EndsOthers
    <3> QED
      BY <1>2, <2>2, <3>2, Parts DEF Store, Present
  <2> QED
    BY <2>1, <2>2
<1>13. \A x \in Ids \ spoiled' : Stays(x)
    BY DEF Stays
<1> QED
    BY <1>6, <1>7, <1>8, <1>9, <1>10, <1>11, <1>12, <1>13 DEF Keeps, IndInv

LEMMA RemoveTasksKeeps ==
    ASSUME IndInv, TypeOK', RemoveTasks
    PROVE  Keeps
<1>1. PICK ids \in Selections : mem' = Without(ids) /\ writes' = writes \o Deletes(ids)
    BY DEF RemoveTasks
<1>2. UNCHANGED <<db, used, init, runner, user, spoiled>>
    BY DEF RemoveTasks
<1>3. ids \in SUBSET Ids /\ \A x \in ids : Present(x)
    BY Parts, SelectionsType
<1>4. \A x \in Ids : mem'[x] = IF x \in ids THEN NoTask ELSE mem[x]
    BY <1>1 DEF Without
<1>5. \A x \in ids : stored[x] = NoTask /\ (x \in Tasks => x \in used)
    BY <1>3, Parts DEF Present, Loading, Fresh
<1>6. \A x \in Ids : stored[x] # NoTask => mem'[x] = NoTask
    BY <1>4, Parts DEF Loading
<1>7. \A x \in Tasks \ used : mem'[x] = NoTask
    BY <1>4, Parts DEF Fresh
<1> QED
    BY <1>1, <1>2, <1>3, <1>4, <1>5, <1>6, <1>7, DropKeeps DEF user

LEMMA RemoveFinishKeeps ==
    ASSUME IndInv, TypeOK', RemoveFinish
    PROVE  Keeps
<1>1. /\ mem' = removing.list /\ writes' = writes \o Deletes(removing.ids) /\ removing' = NoRemoval
      /\ spoiled' = spoiled \cup {t \in Ids \ removing.ids : mem[t] # removing.list[t]}
      /\ UNCHANGED <<db, used, init, runner, clearing>>
    BY DEF RemoveFinish
<1>2. removing.ids \in SUBSET Ids
    BY Parts DEF UserTypes
<1>3. \A x \in removing.ids : mem'[x] = NoTask /\ stored[x] = NoTask /\ (x \in Tasks => x \in used)
    BY <1>1, <1>2, Parts DEF RemovalInv, Loading, Fresh
<1>4. \A x \in Ids \ removing.ids : x \notin spoiled' => mem'[x] = mem[x]
    BY <1>1
<1>5. /\ \A x \in Ids : stored[x] # NoTask => mem'[x] = NoTask
      /\ \A x \in Tasks \ used : mem'[x] = NoTask
    BY <1>1, Parts DEF Loading, Fresh
<1> QED
    BY <1>1, <1>2, <1>3, <1>4, <1>5, DropKeeps

\* A request that stores no record is made: the rewritten response of another
\* task, or the clearing of the store.
LEMMA RequestFacts ==
    ASSUME IndInv, NEW w \in {Scrub, Clear}, writes' = Append(writes, w), exec' = exec
    PROVE  /\ InsertInv' /\ w \in WriteOps /\ w.op \in {"scrub", "clear"}
           /\ Range(writes') = Range(writes) \cup {w}
           /\ \A t : ~Names(w, t)
           /\ w = Scrub => \A t : ~Affects(w, t)
<1>1. w \in WriteOps /\ w.op \in {"scrub", "clear"} /\ (w = Scrub => w.op = "scrub")
    BY WriteFacts
<1>2. writes \in Seq(WriteOps) /\ InsertInv
    BY Parts DEF ListTypes
<1>3. Range(writes') = Range(writes) \cup {w}
    BY <1>1, <1>2, RangeAppend
<1>4. Once(writes')
    BY <1>1, <1>2, OnceAppend DEF InsertInv
<1>5. InsertInv'
    BY <1>1, <1>2, <1>3, <1>4 DEF InsertInv
<1>6. \A t : ~Names(w, t)
    BY <1>1 DEF Names
<1>7. w = Scrub => \A t : ~Affects(w, t)
    BY <1>1 DEF Affects
<1> QED
    BY <1>1, <1>3, <1>5, <1>6, <1>7

LEMMA RemoveBeginKeeps ==
    ASSUME IndInv, TypeOK', RemoveBegin
    PROVE  Keeps
<1>1. PICK ids \in Selections : removing' = [ids |-> ids, list |-> Without(ids)]
    BY DEF RemoveBegin
<1>2. /\ writes' = Append(writes, Scrub) /\ mem' = mem /\ db' = db /\ used' = used
      /\ page' = page /\ stored' = stored /\ clearing' = clearing /\ spoiled' = spoiled
      /\ exec' = exec /\ watchdog' = watchdog /\ timers' = timers /\ recovery' = recovery
    BY DEF RemoveBegin, init, runner
<1>3. ids \in SUBSET Ids /\ \A x \in ids : Present(x)
    BY Parts, SelectionsType
<1>4. /\ removing'.ids = ids
      /\ \A x \in Ids : removing'.list[x] = IF x \in ids THEN NoTask ELSE mem[x]
    BY <1>1 DEF Without
<1>5. /\ InsertInv' /\ Scrub \in WriteOps /\ Scrub.op = "scrub"
      /\ Range(writes') = Range(writes) \cup {Scrub}
      /\ \A t : ~Names(Scrub, t) /\ ~Affects(Scrub, t)
    BY <1>2, RequestFacts, WriteFacts
<1>6. ClearInv' /\ RemovalInv'
    BY <1>2, <1>3, <1>4, <1>5, Parts DEF ClearInv, RemovalInv
<1>7. \A x \in Ids : Loading(x)'
    BY <1>2, <1>3, <1>4, Parts DEF Loading, Idle, Present
<1>8. \A x \in Tasks : One(x)' /\ (x \notin used' => Fresh(x)')
  <2> TAKE x \in Tasks
  <2>1. One(x)'
    BY <1>2, Parts DEF One
  <2>2. ASSUME x \notin used PROVE Fresh(x)'
    <3>1. Fresh(x) /\ x \in Ids
      BY <2>2, Parts
    <3>2. \A v \in Range(writes') : ~Names(v, x)
      BY <1>5, <3>1 DEF Fresh
    <3> QED
      BY <1>2, <1>3, <1>4, <3>1, <3>2 DEF Fresh, Idle, Present
  <2> QED
    BY <1>2, <2>1, <2>2
<1>9. \A x \in Tasks \ spoiled' : GoodRecs(x)' /\ Runner(x)'
    BY <1>2, <1>5, Parts DEF GoodRecs, Runner, Running, Present
<1>10. \A x \in Ids \ spoiled' : Store(x)'
  <2> TAKE x \in Ids \ spoiled'
  <2>1. writes \in Seq(WriteOps)
    BY Parts DEF ListTypes
  <2>2. \A v : Ends(writes, db, x, v) => Ends(writes', db', x, v)
    BY <1>2, <1>5, <2>1, EndsOther
  <2> QED
    BY <1>2, <2>2, Parts DEF Store, Present
<1>11. \A x \in Ids \ spoiled' : Stays(x)
    BY <1>2 DEF Stays
<1> QED
    BY <1>5, <1>6, <1>7, <1>8, <1>9, <1>10, <1>11 DEF Keeps, IndInv

LEMMA ClearBeginKeeps ==
    ASSUME IndInv, TypeOK', ClearBegin
    PROVE  Keeps
<1>1. /\ writes' = Append(writes, Clear) /\ mem' = mem /\ db' = db /\ used' = used
      /\ page' = page /\ stored' = stored /\ clearing' = TRUE /\ removing' = removing
      /\ spoiled' = spoiled \cup {t \in Ids : stored[t] # NoTask}
      /\ exec' = exec /\ watchdog' = watchdog /\ timers' = timers /\ recovery' = recovery
    BY DEF ClearBegin, init, runner
<1>2. /\ InsertInv' /\ Range(writes') = Range(writes) \cup {Clear}
      /\ \A t : ~Names(Clear, t)
    BY <1>1, RequestFacts
<1>3. ClearInv' /\ RemovalInv'
    BY <1>1, Parts DEF ClearInv, RemovalInv
<1>4. \A x \in Ids : Loading(x)'
    BY <1>1, Parts DEF Loading, Idle
<1>5. \A x \in Tasks : One(x)' /\ (x \notin used' => Fresh(x)')
    BY <1>1, <1>2, Parts DEF One, Fresh, Idle
<1>6. \A x \in Tasks \ spoiled' : GoodRecs(x)' /\ Runner(x)'
    BY <1>1, <1>2, Parts DEF GoodRecs, Runner, Running, Present
<1>7. \A x \in Ids \ spoiled' : Store(x)' /\ Stays(x)
    BY <1>1 DEF Store, Stays
<1> QED
    BY <1>2, <1>3, <1>4, <1>5, <1>6, <1>7 DEF Keeps, IndInv

LEMMA ClearFinishKeeps ==
    ASSUME IndInv, TypeOK', ClearFinish
    PROVE  Keeps
<1>1. /\ \A x \in Ids : mem'[x] = NoTask
      /\ db' = db /\ writes' = writes /\ used' = used
      /\ page' = page /\ stored' = stored /\ clearing' = FALSE /\ removing' = removing
      /\ spoiled' = spoiled
      /\ exec' = exec /\ watchdog' = watchdog /\ timers' = timers /\ recovery' = recovery
    BY DEF ClearFinish, init, runner
<1>2. \A w \in Range(writes) : w.op # "clear"
    BY DEF ClearFinish, AwaitsWrite, Range
<1>3. InsertInv' /\ ClearInv' /\ RemovalInv'
    BY <1>1, <1>2, Parts DEF InsertInv, ClearInv, RemovalInv
<1>4. \A x \in Ids : Loading(x)'
    BY <1>1, Parts DEF Loading, Idle
<1>5. \A x \in Tasks : One(x)' /\ (x \notin used' => Fresh(x)')
    BY <1>1, Parts DEF One, Fresh, Idle
<1>6. \A x \in Tasks \ spoiled' : GoodRecs(x)' /\ Runner(x)'
    BY <1>1, Parts, NoTaskFacts DEF GoodRecs, Runner, Running, Present
<1>7. \A x \in Ids \ spoiled' : Store(x)' /\ Stays(x)
    BY <1>1, Parts DEF Store, Stays, Present
<1> QED
    BY <1>3, <1>4, <1>5, <1>6, <1>7 DEF Keeps, IndInv

LEMMA ReloadKeeps ==
    ASSUME IndInv, TypeOK', Reload
    PROVE  Keeps
<1>1. /\ \A x \in Ids : mem'[x] = NoTask
      /\ db' = db /\ writes' = <<>> /\ used' = used
      /\ page' = "loading" /\ stored' = db /\ clearing' = FALSE /\ removing' = NoRemoval
      /\ spoiled' = spoiled
      /\ \A x \in Tasks : exec'[x] = "idle" /\ recovery'[x] = "idle"
      /\ watchdog' = {} /\ timers' = {}
    BY DEF Reload
<1>2. Range(writes') = {} /\ Once(writes')
    BY <1>1 DEF Range, Once
<1>3. InsertInv' /\ ClearInv' /\ RemovalInv'
    BY <1>1, <1>2, NoTaskFacts DEF InsertInv, ClearInv, RemovalInv
<1>4. \A x \in Tasks : Idle(x)'
    BY <1>1 DEF Idle
<1>5. \A x \in Ids : Loading(x)'
    BY <1>1, <1>4, NoTaskFacts DEF Loading
<1>6. \A x \in Tasks : One(x)' /\ (x \notin used' => Fresh(x)')
    BY <1>1, <1>2, <1>4, Parts, NoTaskFacts DEF One, Fresh
<1>7. \A x \in Tasks \ spoiled' : GoodRecs(x)' /\ Runner(x)'
    BY <1>1, <1>2, Parts, NoTaskFacts DEF GoodRecs, Runner, Running, Present
<1>8. \A x \in Ids \ spoiled' : Store(x)' /\ Stays(x)
    BY <1>1, EndsEmpty DEF Store, Stays, Present
<1> QED
    BY <1>3, <1>5, <1>6, <1>7, <1>8 DEF Keeps, IndInv

\* The task a first put is about waits for nothing but the put.
LEMMA InsertingFacts ==
    ASSUME IndInv, NEW h \in Tasks, exec[h] = "inserting"
    PROVE  /\ h \in used /\ h \notin timers /\ recovery[h] = "idle"
           /\ stored[h] = NoTask
<1>1. h \in Ids /\ Loading(h) /\ One(h) /\ (h \notin used => Fresh(h))
    BY Parts
<1>2. ~Idle(h)
    BY DEF Idle
<1> QED
    BY <1>1, <1>2 DEF Loading, One, Fresh

\* The oldest request is through, or refused.
LEMMA DequeueFacts ==
    ASSUME IndInv, writes # <<>>, writes' = Tail(writes),
           IF Head(writes).op = "insert"
           THEN \A x \in Tasks \ {Head(writes).task} : exec'[x] = exec[x]
           ELSE exec' = exec
    PROVE  /\ InsertInv' /\ Range(writes') \subseteq Range(writes)
           /\ Head(writes) \in Range(writes) /\ writes \in Seq(WriteOps)
           /\ Head(writes).op = "insert" =>
                Head(writes).task \in Tasks /\ exec[Head(writes).task] = "inserting"
           /\ Head(writes).op \notin {"scrub", "clear"} => Head(writes).task \in Ids
<1>1. writes \in Seq(WriteOps) /\ TypeOK /\ InsertInv
    BY Parts DEF ListTypes
<1>2. /\ Head(writes) \in Range(writes) /\ Range(writes') \subseteq Range(writes)
      /\ Head(writes).op = "insert" =>
           Head(writes).task \in Tasks /\ exec[Head(writes).task] = "inserting"
      /\ Head(writes).op \notin {"scrub", "clear"} => Head(writes).task \in Ids
    BY <1>1, HeadFacts
<1>3. /\ Once(writes')
      /\ Head(writes).op = "insert" =>
           \A v \in Range(writes') : v.op = "insert" => v.task # Head(writes).task
    BY <1>1, OnceTail DEF InsertInv
<1>4. \A v \in Range(writes') : v.op = "insert" => v.task \in Tasks /\ exec'[v.task] = "inserting"
    BY <1>1, <1>2, <1>3 DEF InsertInv
<1>5. InsertInv'
    BY <1>3, <1>4 DEF InsertInv
<1> QED
    BY <1>1, <1>2, <1>5

LEMMA InsertFailsKeeps ==
    ASSUME IndInv, TypeOK', InsertFails
    PROVE  Keeps
<1> DEFINE h == Head(writes).task
<1>1. /\ writes # <<>> /\ Head(writes).op = "insert" /\ writes' = Tail(writes)
      /\ exec' = [exec EXCEPT ![h] = "idle"] /\ spoiled' = spoiled \cup {h}
      /\ mem' = mem /\ db' = db /\ used' = used /\ page' = page /\ stored' = stored
      /\ removing' = removing /\ clearing' = clearing
      /\ watchdog' = watchdog /\ timers' = timers /\ recovery' = recovery
    BY DEF InsertFails, init, user
<1>2. \A x \in Tasks \ {h} : exec'[x] = exec[x]
    BY <1>1, Parts DEF RunnerTypes
<1>3. /\ InsertInv' /\ Range(writes') \subseteq Range(writes)
      /\ h \in Tasks /\ exec[h] = "inserting" /\ writes \in Seq(WriteOps)
    BY <1>1, <1>2, DequeueFacts
<1> HIDE DEF h
<1>4. h \in used /\ h \notin timers /\ recovery[h] = "idle" /\ stored[h] = NoTask
    BY <1>3, InsertingFacts
<1>5. ClearInv' /\ RemovalInv'
    BY <1>1, <1>3, Parts DEF ClearInv, RemovalInv
<1>6. \A x \in Ids : Loading(x)'
    BY <1>1, <1>2, <1>4, Parts DEF Loading, Idle
<1>7. \A x \in Tasks : One(x)' /\ (x \notin used' => Fresh(x)')
    BY <1>1, <1>2, <1>3, <1>4, Parts DEF One, Fresh, Idle
<1>8. \A x \in Tasks \ spoiled' : GoodRecs(x)' /\ Runner(x)'
    BY <1>1, <1>2, <1>3, Parts DEF GoodRecs, Runner, Running, Present
<1>9. \A x \in Ids \ spoiled' : Store(x)' /\ Stays(x)
  <2> TAKE x \in Ids \ spoiled'
  <2>1. ~Affects(Head(writes), x) /\ Head(writes).op # "clear"
    BY <1>1 DEF Affects, h
  <2>2. \A v : Ends(writes, db, x, v) => Ends(writes', db', x, v)
    BY <1>1, <1>3, <2>1, EndsTail
  <2> QED
    BY <1>1, <2>2, Parts DEF Store, Present, Stays
<1> QED
    BY <1>3, <1>5, <1>6, <1>7, <1>8, <1>9 DEF Keeps, IndInv

LEMMA CommitWriteKeeps ==
    ASSUME IndInv, TypeOK', CommitWrite
    PROVE  Keeps
<1> DEFINE w == Head(writes)
<1>1. /\ writes # <<>> /\ writes' = Tail(writes)
      /\ mem' = mem /\ used' = used /\ page' = page /\ stored' = stored /\ spoiled' = spoiled
      /\ removing' = removing /\ clearing' = clearing /\ timers' = timers /\ recovery' = recovery
    BY DEF CommitWrite, init, user
<1>2. IF w.op = "insert" THEN Execute(w.task) ELSE exec' = exec /\ watchdog' = watchdog
    BY DEF CommitWrite
<1>3. w.op = "insert" => \A x \in Tasks \ {w.task} : /\ exec'[x] = exec[x]
                                                     /\ x \in watchdog' <=> x \in watchdog
    BY <1>2, Parts DEF Execute, RunnerTypes
<1>4. /\ InsertInv' /\ Range(writes') \subseteq Range(writes) /\ w \in Range(writes)
      /\ writes \in Seq(WriteOps)
      /\ w.op = "insert" => w.task \in Tasks /\ exec[w.task] = "inserting"
      /\ w.op \notin {"scrub", "clear"} => w.task \in Ids
    BY <1>1, <1>2, <1>3, DequeueFacts
<1>5. w.op = "insert" =>
        w.task \in used /\ w.task \notin timers /\ recovery[w.task] = "idle" /\ stored[w.task] = NoTask
    BY <1>4, InsertingFacts
<1>6. /\ w.op = "clear" => \A x \in Ids : db'[x] = NoTask
      /\ w.op # "clear" => \A x \in Ids : db'[x] = IF Affects(w, x) THEN w.rec ELSE db[x]
  <2>1. CASE w.op = "clear"
    BY <2>1 DEF CommitWrite
  <2>2. CASE w.op = "scrub"
    BY <2>2 DEF CommitWrite, Affects
  <2>3. CASE w.op \notin {"scrub", "clear"}
    <3>1. db' = [db EXCEPT ![w.task] = w.rec] /\ db \in [Ids -> Records]
      BY <2>3, Parts DEF CommitWrite, ListTypes
    <3> QED
      BY <1>4, <2>3, <3>1 DEF Affects
  <2> QED
    BY <2>1, <2>2, <2>3
<1> HIDE DEF w
<1>7. ClearInv' /\ RemovalInv'
    BY <1>1, <1>4, Parts DEF ClearInv, RemovalInv
<1>8. \A x \in Ids : Loading(x)'
  <2> TAKE x \in Ids
  <2>1. CASE w.op = "insert" /\ x = w.task
    BY <1>1, <1>5, <2>1 DEF Loading
  <2>2. CASE ~(w.op = "insert" /\ x = w.task)
    BY <1>1, <1>2, <1>3, <2>2, Parts DEF Loading, Idle
  <2> QED
    BY <2>1, <2>2
<1>9. \A x \in Tasks : One(x)' /\ (x \notin used' => Fresh(x)')
  <2> TAKE x \in Tasks
  <2>1. CASE w.op = "insert" /\ x = w.task
    BY <1>1, <1>5, <2>1 DEF One
  <2>2. CASE ~(w.op = "insert" /\ x = w.task)
    <3>1. One(x)'
      BY <1>1, <1>2, <1>3, <2>2, Parts DEF One
    <3>2. ASSUME x \notin used PROVE Fresh(x)'
      <4>1. Fresh(x) /\ x \in Ids
        BY <3>2, Parts
      <4>2. db'[x] = NoTask
        BY <1>4, <1>6, <4>1 DEF Fresh, Names, Affects
      <4>3. Idle(x)'
        BY <1>1, <1>2, <1>3, <2>2, <4>1 DEF Fresh, Idle
      <4> QED
        BY <1>1, <1>4, <4>1, <4>2, <4>3 DEF Fresh
    <3> QED
      BY <1>1, <3>1, <3>2
  <2> QED
    BY <2>1, <2>2
<1>10. \A x \in Tasks \ spoiled' : GoodRecs(x)' /\ Runner(x)'
  <2> TAKE x \in Tasks \ spoiled'
  <2>1. GoodRecs(x) /\ Runner(x) /\ x \in Ids
    BY <1>1, Parts
  <2>2. db'[x] \in {NoTask, db[x]} \/ (Names(w, x) /\ db'[x] = w.rec)
    BY <1>6, <2>1 DEF Names, Affects
  <2>3. GoodRec(x, db'[x])
    BY <1>4, <2>1, <2>2, NoTaskFacts DEF GoodRecs
  <2>4. GoodRecs(x)'
    BY <1>1, <1>4, <2>1, <2>3 DEF GoodRecs
  <2>5. Runner(x)'
    <3>1. CASE w.op = "insert" /\ x = w.task
      <4>1. /\ exec'[x] = (IF Present(x) THEN "loading" ELSE "idle") /\ exec[x] = "inserting"
            /\ watchdog' = IF Running(x) /\ Kind[x] = "single" THEN watchdog \cup {x} ELSE watchdog
        BY <1>2, <1>4, <3>1, Parts DEF Execute, RunnerTypes
      <4>2. Running(x) => Present(x)
        BY NoTaskFacts DEF Running, Present
      <4> QED
        BY <1>1, <1>5, <2>1, <3>1, <4>1, <4>2 DEF Runner, Running, Present
    <3>2. CASE ~(w.op = "insert" /\ x = w.task)
      <4>1. exec'[x] = exec[x] /\ (x \in watchdog' <=> x \in watchdog)
        BY <1>2, <1>3, <3>2
      <4> QED
        BY <1>1, <2>1, <4>1 DEF Runner, Running, Present
    <3> QED
      BY <3>1, <3>2
  <2> QED
    BY <2>4, <2>5
<1>11. \A x \in Ids \ spoiled' : Store(x)' /\ Stays(x)
  <2> TAKE x \in Ids \ spoiled'
  <2>1. CASE w.op = "clear"
    <3>1. clearing /\ stored[x] = NoTask
      BY <1>1, <1>4, <2>1, Parts DEF ClearInv
    <3> QED
      BY <1>1, <3>1 DEF Store, Stays
  <2>2. CASE w.op # "clear"
    <3>1. \A v : Ends(writes, db, x, v) => Ends(writes', db', x, v)
      BY <1>1, <1>4, <1>6, <2>2, EndsTail DEF w
    <3> QED
      BY <1>1, <3>1, Parts DEF Store, Present, Stays
  <2> QED
    BY <2>1, <2>2
<1> QED
    BY <1>4, <1>7, <1>8, <1>9, <1>10, <1>11 DEF Keeps, IndInv

LEMMA InitMarkKeeps ==
    ASSUME IndInv, TypeOK', InitMark
    PROVE  Keeps
<1> DEFINE m == SetToSeq(Marks)
<1>1. /\ page' = "marking" /\ stored' = Marked /\ writes' = writes \o m
      /\ mem' = mem /\ db' = db /\ used' = used
      /\ removing' = removing /\ clearing' = clearing /\ spoiled' = spoiled
      /\ exec' = exec /\ watchdog' = watchdog /\ timers' = timers /\ recovery' = recovery
    BY DEF InitMark, runner, user, Marks
<1>2. /\ m \in Seq(WriteOps) /\ Range(m) = Marks /\ IsInjective(m)
      /\ Marked \in [Ids -> Records] /\ writes \in Seq(WriteOps)
    BY Parts, MarksFacts DEF ListTypes
<1> HIDE DEF m
<1>3. \A v \in Marks : /\ v.op = "mark" /\ v.task \in Ids /\ Interrupted(v.task)
                        /\ v.rec = Marked[v.task] /\ v = Put("mark", v.task, Marked[v.task])
    BY DEF Marks, Put
<1>4. Range(writes') = Range(writes) \cup Marks
    BY <1>1, <1>2, RangeConcat
<1>5. \A x \in Ids : /\ Interrupted(x) => stored[x] # NoTask /\ x \in Tasks
                     /\ ~Interrupted(x) => Marked[x] = stored[x]
                     /\ Marked[x] # NoTask => stored[x] # NoTask
    BY NoTaskFacts DEF Interrupted, Marked
<1>6. InsertInv'
  <2>1. Once(writes')
    BY <1>1, <1>2, <1>3, OnceConcat, Parts DEF InsertInv
  <2> QED
    BY <1>1, <1>3, <1>4, <2>1, Parts DEF InsertInv
<1>7. ClearInv' /\ RemovalInv'
    BY <1>1, <1>3, <1>4, <1>5, Parts DEF ClearInv, RemovalInv
<1>8. \A x \in Ids : Loading(x)'
    BY <1>1, <1>5, Parts DEF Loading, Idle
<1>9. \A x \in Tasks : One(x)' /\ (x \notin used' => Fresh(x)')
  <2> TAKE x \in Tasks
  <2>1. One(x)'
    BY <1>1, Parts DEF One
  <2>2. ASSUME x \notin used PROVE Fresh(x)'
    <3>1. Fresh(x) /\ x \in Ids
      BY <2>2, Parts
    <3>2. ~Interrupted(x) /\ Marked[x] = NoTask
      BY <1>5, <3>1 DEF Fresh
    <3>3. \A v \in Range(writes') : ~Names(v, x)
      BY <1>3, <1>4, <3>1, <3>2 DEF Fresh, Names
    <3> QED
      BY <1>1, <3>1, <3>2, <3>3 DEF Fresh, Idle
  <2> QED
    BY <1>1, <2>1, <2>2
<1>10. \A x \in Tasks \ spoiled' : GoodRecs(x)' /\ Runner(x)'
  <2> TAKE x \in Tasks \ spoiled'
  <2>1. GoodRecs(x) /\ Runner(x) /\ x \in Ids /\ stored[x] \in Records
    BY <1>1, Parts DEF InitTypes
  <2>2. GoodRec(x, Marked[x])
    <3>1. CASE Interrupted(x)
      <4>1. Marked[x] = [stored[x] EXCEPT !.status = "error"]
        BY <2>1, <3>1 DEF Marked
      <4>2. Marked[x].remote = stored[x].remote /\ Marked[x].recoverable = stored[x].recoverable
        BY <2>1, <4>1 DEF Records, NoTask
      <4>3. ~stored[x].recoverable
        BY <2>1, <3>1 DEF GoodRecs, GoodRec, Interrupted
      <4> QED
        BY <2>1, <4>2, <4>3 DEF GoodRecs, GoodRec
    <3>2. CASE ~Interrupted(x)
      BY <1>5, <2>1, <3>2 DEF GoodRecs
    <3> QED
      BY <3>1, <3>2
  <2>3. \A v \in Range(writes') : Names(v, x) => GoodRec(x, v.rec)
    BY <1>3, <1>4, <2>1, <2>2 DEF GoodRecs, Names
  <2>4. GoodRecs(x)'
    BY <1>1, <2>1, <2>2, <2>3 DEF GoodRecs
  <2>5. Runner(x)'
    BY <1>1, <2>1 DEF Runner, Running, Present
  <2> QED
    BY <2>4, <2>5
<1>11. \A x \in Ids \ spoiled' : Store(x)' /\ Stays(x)
  <2> TAKE x \in Ids \ spoiled'
  <2>1. Store(x) /\ Loading(x)
    BY <1>1, Parts
  <2>2. CASE Interrupted(x)
    <3> DEFINE w == Put("mark", x, Marked[x])
    <3>1. w \in Marks /\ w.op = "mark" /\ w.task = x /\ w.rec = Marked[x]
      BY <2>2 DEF Marks, Put
    <3>2. \A v \in Marks : Affects(v, x) => v = w
      BY <1>3 DEF Affects
    <3> HIDE DEF w
    <3>3. Names(w, x)
      BY <3>1 DEF Names
    <3>4. Ends(writes', db', x, w.rec)
      BY <1>1, <1>2, <3>1, <3>2, <3>3, EndsOneOf
    <3>5. mem[x] = NoTask
      BY <1>5, <2>1, <2>2 DEF Loading
    <3> QED
      BY <1>1, <3>1, <3>4, <3>5 DEF Store, Present, Stays
  <2>3. CASE ~Interrupted(x)
    <3>1. \A v \in Marks : ~Affects(v, x)
      BY <1>3, <2>3 DEF Affects
    <3>2. \A v : Ends(writes, db, x, v) => Ends(writes', db', x, v)
      BY <1>1, <1>2, <3>1, EndsOthers
    <3> QED
      BY <1>1, <1>5, <2>1, <2>3, <3>2 DEF Store, Present, Stays
  <2> QED
    BY <2>2, <2>3
<1> QED
    BY <1>6, <1>7, <1>8, <1>9, <1>10, <1>11 DEF Keeps, IndInv

LEMMA InitFinishKeeps ==
    ASSUME IndInv, TypeOK', InitFinish
    PROVE  Keeps
<1>1. /\ page' = "ready" /\ mem' = stored
      /\ timers' = timers \cup {t \in Ids : Resumable(t)}
      /\ spoiled' = spoiled \cup {t \in Ids : stored[t].status = "running" /\ ~stored[t].remote}
      /\ \A x \in Ids : stored'[x] = NoTask
      /\ db' = db /\ writes' = writes /\ used' = used
      /\ exec' = exec /\ watchdog' = watchdog /\ recovery' = recovery
      /\ removing' = removing /\ clearing' = clearing
    BY DEF InitFinish, user
<1>2. \A x \in Ids : Resumable(x) =>
        /\ stored[x] # NoTask /\ x \in Tasks /\ stored[x].remote
        /\ stored[x].status = "running" \/ stored[x].recoverable
    BY NoTaskFacts DEF Resumable
<1>3. InsertInv' /\ ClearInv' /\ RemovalInv'
    BY <1>1, Parts DEF InsertInv, ClearInv, RemovalInv
<1>4. \A x \in Ids : Loading(x)'
    BY <1>1 DEF Loading
<1>5. \A x \in Tasks : One(x)' /\ (x \notin used' => Fresh(x)')
  <2> TAKE x \in Tasks
  <2>1. One(x) /\ Loading(x) /\ x \in Ids /\ (x \notin used => Fresh(x))
    BY Parts
  <2>2. One(x)'
    BY <1>1, <1>2, <2>1 DEF One, Loading, Idle
  <2>3. x \notin used => Fresh(x)'
    BY <1>1, <1>2, <2>1 DEF Fresh, Idle
  <2> QED
    BY <1>1, <2>2, <2>3
<1>6. \A x \in Tasks \ spoiled' : GoodRecs(x)' /\ Runner(x)'
  <2> TAKE x \in Tasks \ spoiled'
  <2>1. GoodRecs(x) /\ Runner(x) /\ Loading(x) /\ x \in Ids
    BY <1>1, Parts
  <2>2. GoodRecs(x)'
    BY <1>1, <2>1, NoTaskFacts DEF GoodRecs
  <2>3. CASE stored[x] = NoTask
    <3>1. mem'[x] = NoTask /\ NoTask.status # "running" /\ ~NoTask.recoverable
      BY <1>1, <2>3, NoTaskFacts
    <3>2. Runner(x)'
      BY <1>1, <2>1, <3>1 DEF Runner, Running, Present
    <3> QED
      BY <2>2, <3>2
  <2>4. CASE stored[x] # NoTask
    <3>1. Idle(x) /\ GoodRec(x, stored[x])
      BY <2>1, <2>4 DEF Loading, GoodRecs
    <3>2. stored[x].status = "running" => Resumable(x)
      BY <1>1, <2>1 DEF Resumable
    <3>3. stored[x].recoverable => Resumable(x)
      BY <3>1 DEF GoodRec, Resumable
    <3>4. Resumable(x) => ~Settled(stored[x]) /\ stored[x].remote
      BY <1>2, <2>1, <3>1 DEF Settled, GoodRec
    <3>5. x \in timers' <=> Resumable(x)
      BY <1>1, <2>1, <3>1 DEF Idle
    <3>6. exec'[x] = "idle" /\ recovery'[x] = "idle" /\ x \notin watchdog'
      BY <1>1, <3>1 DEF Idle
    <3> QED
      BY <1>1, <2>2, <3>2, <3>3, <3>4, <3>5, <3>6 DEF Runner, Running, Present
  <2> QED
    BY <2>2, <2>3, <2>4
<1>7. \A x \in Ids \ spoiled' : Store(x)' /\ Stays(x)
    BY <1>1, Parts DEF Store, Loading, Present, Stays
<1> QED
    BY <1>3, <1>4, <1>5, <1>6, <1>7 DEF Keeps, IndInv

-----------------------------------------------------------------------------
(***************************************************************************)
(* The theorems.                                                           *)
(***************************************************************************)
LEMMA IndInit ==
    ASSUME Init
    PROVE  IndInv
<1>1. /\ mem \in [Ids -> Records] /\ db = mem /\ writes = <<>> /\ page = "ready"
      /\ stored = [t \in Ids |-> NoTask] /\ used = {}
      /\ exec = [t \in Tasks |-> "idle"] /\ recovery = [t \in Tasks |-> "idle"]
      /\ watchdog = {} /\ timers = {} /\ removing = NoRemoval /\ clearing = FALSE
      /\ orphans = {} /\ spoiled = {} /\ faults = 0 /\ \A t \in Tasks : mem[t] = NoTask
      /\ Tasks \subseteq Ids
    BY DEF Init, Ids
<1>2. TypeOK
  <2>1. NoRemoval \in [ids : SUBSET Ids, list : [Ids -> Records]]
    BY RecordFacts DEF NoRemoval
  <2>2. writes \in Seq(WriteOps)
    BY <1>1, EmptySeq
  <2>3. stored \in [Ids -> Records]
    BY <1>1, RecordFacts
  <2> QED
    BY <1>1, <2>1, <2>2, <2>3 DEF TypeOK
<1>3. Range(writes) = {} /\ Once(writes)
    BY <1>1 DEF Range, Once
<1>4. InsertInv /\ ClearInv /\ RemovalInv
    BY <1>1, <1>3, NoTaskFacts DEF InsertInv, ClearInv, RemovalInv
<1>5. \A t \in Ids : Loading(t)
    BY <1>1 DEF Loading
<1>6. \A t \in Tasks : Idle(t) /\ One(t) /\ Fresh(t)
    BY <1>1, <1>3, NoTaskFacts DEF Idle, One, Fresh
<1>7. \A t \in Tasks : GoodRecs(t) /\ Runner(t)
    BY <1>1, <1>3, <1>6, NoTaskFacts DEF GoodRecs, Runner, Running, Present, Idle
<1>8. \A t \in Ids : Store(t)
    BY <1>1, EndsEmpty DEF Store
<1> QED
    BY <1>2, <1>4, <1>5, <1>6, <1>7, <1>8 DEF IndInv

\* The settings are no part of the invariant.
LEMMA FrameKeeps ==
    ASSUME IndInv, TypeOK', UNCHANGED <<list, init, runner, user, spoiled>>
    PROVE  Keeps
<1>1. IndInv'
    BY Parts
       DEF IndInv, list, init, runner, user, InsertInv, ClearInv, RemovalInv, Loading, Idle, One,
           Fresh, GoodRecs, Runner, Running, Present, Store
<1> QED
    BY <1>1 DEF Keeps, Stays, list

LEMMA IndStep ==
    ASSUME IndInv, [Next]_vars
    PROVE  Keeps
<1>1. TypeOK'
    BY Parts, TypeStep
<1>2. CASE UNCHANGED vars
    BY <1>1, <1>2, FrameKeeps DEF vars
<1>3. CASE \E t \in Tasks : ExecStep(t) \/ RecoveryStep(t)
    BY <1>1, <1>3, TaskActionKeeps
<1>4. CASE UserStep
    BY <1>1, <1>4, SubmitKeeps, RemoveTasksKeeps, RemoveBeginKeeps, ClearBeginKeeps, FrameKeeps
       DEF UserStep, ChangeProfile
<1>5. CASE PageStep
    BY <1>1, <1>5, CommitWriteKeeps, InsertFailsKeeps, RemoveFinishKeeps, ClearFinishKeeps, ReloadKeeps,
       InitMarkKeeps, InitFinishKeeps DEF PageStep
<1> QED
    BY <1>2, <1>3, <1>4, <1>5 DEF Next

\* The inductive invariant: who works on a task, what its records may say, and
\* what the store will hold once the requests handed to IndexedDB are through
\* (store.ts: submitTask, executeTask, updateTaskInStore, initStore).
THEOREM IndInvariant == Spec => []IndInv
<1>1. IndInv /\ [Next]_vars => IndInv'
    BY IndStep DEF Keeps
<1> QED
    BY IndInit, <1>1, PTL DEF Spec

\* Every variable keeps its type.
THEOREM TypeCorrect == Spec => []TypeOK
<1>1. IndInv => TypeOK
    BY DEF IndInv
<1> QED
    BY IndInvariant, <1>1, PTL

\* The execution of a task, its recovery and the timer of one exclude each
\* other, spoiled or not: a timer is set when executeTask ends or initStore
\* finds nobody, and recoverFalTask and recoverCustomTask consume it.
THEOREM OneRunnerCorrect == Spec => []OneRunner
<1>1. IndInv => OneRunner
    BY DEF IndInv, One, OneRunner
<1> QED
    BY IndInvariant, <1>1, PTL

\* Every task shown as running, or as failed but recoverable, has somebody who
\* will end it, or a call that hangs, whatever was removed, cleared, reloaded or
\* answered late.
THEOREM UnsettledHasRunnerCorrect == Spec => []UnsettledHasRunner
<1>1. ASSUME IndInv PROVE UnsettledHasRunner
  <2> SUFFICES ASSUME NEW t \in Tasks \ spoiled, Present(t), ~Settled(mem[t])
               PROVE  \/ exec[t] \notin {"idle", "stalled"} \/ t \in watchdog
                      \/ t \in timers \/ recovery[t] \notin {"idle", "stalled"} \/ Hangs(t)
    BY DEF UnsettledHasRunner
  <2>1. Runner(t) /\ mem[t].status \in {"absent", "running", "done", "error"}
        /\ mem[t].status # "absent"
    BY <1>1, TaskFacts
  <2>2. mem[t].status = "running" \/ mem[t].recoverable
    BY <2>1 DEF Settled
  <2> QED
    BY <2>1, <2>2 DEF Runner, Running, Hangs
<1> QED
    BY IndInvariant, <1>1, PTL

\* Once its requests are through, the stored record of a task is the one in
\* memory: what the user sees is what initStore reads after a reload.
THEOREM StoredMatchesMemoryCorrect == Spec => []StoredMatchesMemory
<1>1. ASSUME IndInv PROVE StoredMatchesMemory
  <2> SUFFICES ASSUME ~clearing, NEW t \in Ids \ spoiled, Present(t),
                      \A i \in DOMAIN writes :
                          writes[i].op = "scrub" \/ (writes[i].op # "clear" /\ writes[i].task # t)
               PROVE  db[t] = mem[t]
    BY DEF StoredMatchesMemory
  <2>1. Ends(writes, db, t, mem[t])
    BY <1>1, Parts DEF Store
  <2>2. \A i \in DOMAIN writes : ~Affects(writes[i], t)
    BY DEF Affects
  <2> QED
    BY <2>1, <2>2 DEF Ends
<1> QED
    BY IndInvariant, <1>1, PTL

\* A task that ended keeps its outcome as long as the page lives: every late
\* answer meets one of the two looks at the status in executeTask, and every
\* recovery works on a task that has not ended.
THEOREM SettledStaysCorrect == Spec => SettledStays
<1>1. IndInv /\ [Next]_vars =>
        [\A t \in Ids \ spoiled' :
            Present(t) /\ Settled(mem[t]) /\ mem'[t] # NoTask => mem'[t] = mem[t]]_vars
    BY IndStep DEF Keeps, Stays
<1> QED
    BY IndInvariant, <1>1, PTL DEF Spec, SettledStays
=============================================================================
