----------------------- MODULE ConversationStoreProofs -----------------------
(***************************************************************************)
(* The safety of the conversation store for any set of conversations and   *)
(* any number of edits, reloads and refused transactions.  The invariant   *)
(* has three parts: which transactions may be under way at the same time   *)
(* (InFlight), what they and the database hold of the list in memory       *)
(* (Fresh), and how the versions of a conversation the user never deleted  *)
(* are ordered between localStorage, database, transactions and memory     *)
(* (Ordered).                                                              *)
(***************************************************************************)
EXTENDS ConversationStore, TLAPS, SequenceTheorems

Transactions == [by : Writers, contents : Contents]

\* At most one transaction of each kind; each has its owner waiting for it.
InFlight ==
    /\ \A i \in DOMAIN writes :
        /\ writes[i].by = "clear" => clearing
        /\ writes[i].by = "init" => page = "replacing"
        /\ writes[i].by = "flush" => flushing
    /\ \A i, j \in DOMAIN writes : writes[i].by = writes[j].by => i = j
    /\ flushing => \E i \in DOMAIN writes : writes[i].by = "flush"
    /\ flushing => ready
    /\ ready => page \notin {"reading", "merging", "replacing"}
    /\ page = "replacing" => queued
    /\ clearing => erased = Conversations

\* The flush writes the list it takes for current, and the database holds the
\* list when nobody is at work.
Fresh ==
    /\ \A i \in DOMAIN writes : writes[i].by = "flush" /\ array = "writing" => writes[i].contents = mem
    /\ \A i \in DOMAIN writes : writes[i].by = "clear" => writes[i].contents = Empty
    /\ ready /\ ~flushing /\ ~clearing /\ ~refused => db = mem
    /\ page = "merging" => db = read \/ db = Empty

\* Versions only grow on the way from localStorage and the database to memory
\* and back.
Ordered ==
    /\ \A c \in Conversations \ erased :
        /\ mem[c] >= legacy[c]
        /\ \A i \in DOMAIN writes :
            /\ writes[i].contents[c] >= db[c] /\ writes[i].contents[c] >= legacy[c]
            /\ mem[c] >= writes[i].contents[c]
        /\ ready => mem[c] >= db[c] /\ db[c] >= legacy[c]
        /\ page = "merging" => read[c] = db[c]
        /\ pending /\ ~ready => local # None /\ local[c] >= legacy[c]
    /\ ~pending /\ ~ready => legacy = Empty

StoreInv == TypeOK /\ InFlight /\ Fresh /\ Ordered

-----------------------------------------------------------------------------
(***************************************************************************)
(* Facts about contents and transactions.                                  *)
(***************************************************************************)
LEMMA VersionsAreNumbers ==
  ASSUME NEW a \in Contents, NEW c \in Conversations
  PROVE  a[c] \in Nat /\ a[c] \in Versions
  BY ConversationBoundsAssumption DEF Versions, Contents

LEMMA EmptyType == Empty \in Contents /\ \A c \in Conversations : Empty[c] = 0
  BY ConversationBoundsAssumption DEF Empty, Contents, Versions

LEMMA MergeFacts ==
  ASSUME NEW a \in Contents, NEW b \in Contents
  PROVE  /\ Merge(a, b) \in Contents
         /\ \A c \in Conversations : Merge(a, b)[c] >= a[c] /\ Merge(a, b)[c] >= b[c]
         /\ Merge(a, b) = Empty => a = Empty /\ b = Empty
<1>1. \A c \in Conversations : Merge(a, b)[c] = IF b[c] # 0 /\ b[c] >= a[c] THEN b[c] ELSE a[c]
  BY DEF Merge
<1>2. Merge(a, b) \in Contents
  BY SMT DEF Merge, Contents
<1>3. \A c \in Conversations : Merge(a, b)[c] >= a[c] /\ Merge(a, b)[c] >= b[c]
  <2> TAKE c \in Conversations
  <2>1. a[c] \in Nat /\ b[c] \in Nat
    BY VersionsAreNumbers
  <2> QED BY <1>1, <2>1
<1>4. ASSUME Merge(a, b) = Empty PROVE a = Empty /\ b = Empty
  <2>1. \A c \in Conversations : a[c] = 0 /\ b[c] = 0
    <3> TAKE c \in Conversations
    <3>1. a[c] \in Nat /\ b[c] \in Nat /\ Merge(a, b)[c] = 0
      BY <1>4, EmptyType, VersionsAreNumbers
    <3> QED BY <1>3, <3>1
  <2> QED BY <2>1, SMT DEF Empty, Contents
<1> QED BY <1>2, <1>3, <1>4

LEMMA LoadedFacts ==
  ASSUME TypeOK
  PROVE  /\ Loaded \in Contents
         /\ \A c \in Conversations : Loaded[c] >= read[c] /\ Loaded[c] >= legacy[c] /\ Loaded[c] >= mem[c]
         /\ Loaded = Empty => read = Empty /\ mem = Empty
<1> DEFINE m == Merge(read, legacy)
<1>1. /\ m \in Contents /\ \A c \in Conversations : m[c] >= read[c] /\ m[c] >= legacy[c]
      /\ m = Empty => read = Empty
  BY MergeFacts DEF TypeOK
<1>2. Loaded = Merge(m, mem)
  BY DEF Loaded
<1> HIDE DEF m
<1>3. /\ Loaded \in Contents /\ \A c \in Conversations : Loaded[c] >= m[c] /\ Loaded[c] >= mem[c]
      /\ Loaded = Empty => m = Empty /\ mem = Empty
  BY <1>1, <1>2, MergeFacts DEF TypeOK
<1>4. \A c \in Conversations : Loaded[c] >= read[c] /\ Loaded[c] >= legacy[c]
  <2> TAKE c \in Conversations
  <2>1. read[c] \in Nat /\ legacy[c] \in Nat /\ m[c] \in Nat /\ Loaded[c] \in Nat
    BY <1>1, <1>3, VersionsAreNumbers DEF TypeOK
  <2> QED BY <1>1, <1>3, <2>1
<1> QED BY <1>1, <1>3, <1>4

LEMMA AppendFacts ==
  ASSUME NEW w \in Seq(Transactions), NEW x \in Transactions
  PROVE  /\ Append(w, x) \in Seq(Transactions)
         /\ DOMAIN w \subseteq DOMAIN Append(w, x) /\ Len(w) + 1 \in DOMAIN Append(w, x)
         /\ \A i \in DOMAIN w : Append(w, x)[i] = w[i]
         /\ Append(w, x)[Len(w) + 1] = x
         /\ \A i \in DOMAIN Append(w, x) : i \in DOMAIN w \/ i = Len(w) + 1
  BY SMT

LEMMA GrownBy ==
  ASSUME NEW w \in Seq(Transactions), NEW x \in Transactions
  PROVE  \A i \in DOMAIN Append(w, x) :
            \/ i \in DOMAIN w /\ Append(w, x)[i] = w[i] /\ i # Len(w) + 1
            \/ i = Len(w) + 1 /\ Append(w, x)[i] = x
<1>1. \A i \in DOMAIN w : i # Len(w) + 1
  BY SMT
<1> QED BY <1>1, AppendFacts

LEMMA TailFacts ==
  ASSUME NEW w \in Seq(Transactions), w # <<>>
  PROVE  /\ Tail(w) \in Seq(Transactions)
         /\ 1 \in DOMAIN w /\ Head(w) = w[1] /\ Head(w) \in Transactions
         /\ \A i \in DOMAIN Tail(w) : i + 1 \in DOMAIN w /\ Tail(w)[i] = w[i + 1] /\ i + 1 # 1
         /\ \A i \in DOMAIN w : i = 1 \/ (i - 1 \in DOMAIN Tail(w) /\ Tail(w)[i - 1] = w[i])
         /\ \A i \in DOMAIN Tail(w) : i \in Int
  BY SMT

LEMMA StoredVersions ==
  ASSUME NEW w \in Seq(Transactions), NEW i \in DOMAIN w, NEW c \in Conversations
  PROVE  w[i].contents[c] \in Nat
<1>1. w[i] \in Transactions
  BY SMT
<1>2. w[i].contents \in Contents
  BY <1>1 DEF Transactions
<1> QED BY <1>2, VersionsAreNumbers

LEMMA WriteType ==
  ASSUME NEW by \in Writers, NEW contents \in Contents
  PROVE  /\ Write(by, contents) \in Transactions
         /\ Write(by, contents).by = by /\ Write(by, contents).contents = contents
  BY DEF Write, Transactions

LEMMA HydrateType ==
  ASSUME NEW l \in Contents \cup {None}
  PROVE  /\ Hydrate(l) \in Contents
         /\ Hydrate(l) # Empty => l # None /\ Hydrate(l) = l
  BY EmptyType DEF Hydrate

LEMMA LocalCopyType ==
  ASSUME NEW k \in Contents
  PROVE  /\ LocalCopy(k) \in Contents \cup {None}
         /\ pending /\ ~ready => LocalCopy(k) = k
  BY DEF LocalCopy

\* A version list is not None.
LEMMA ContentsAreNotNone == \A k \in Contents : k # None
<1> SUFFICES ASSUME NEW k \in Contents, k = None PROVE FALSE
  OBVIOUS
<1>1. DOMAIN k = Conversations
  BY DEF Contents
<1>2. DOMAIN None = {}
  BY SMT DEF None
<1> QED BY <1>1, <1>2, ConversationsAssumption

LEMMA InitInv == Init => StoreInv
<1> SUFFICES ASSUME Init PROVE StoreInv
  OBVIOUS
<1>1. \A k \in [Conversations -> {0, 1}] : k \in Contents
  BY ConversationBoundsAssumption, SMT DEF Contents, Versions
<1>2. db \in Contents /\ local \in Contents \cup {None}
  BY <1>1 DEF Init
<1>3. Hydrate(local) \in Contents /\ (Hydrate(local) # Empty => local # None /\ Hydrate(local) = local)
  BY <1>2, HydrateType
<1>4. writes = <<>> /\ <<>> \in Seq([by : Writers, contents : Contents]) /\ DOMAIN <<>> = {}
  BY SMT DEF Init
<1>5. TypeOK
  <2>1. reloads \in 0 .. MaxReloads /\ refusals \in 0 .. MaxRefusals
    BY ConversationBoundsAssumption DEF Init
  <2> QED BY <1>2, <1>3, <1>4, <2>1, EmptyType DEF Init, TypeOK
<1>6. InFlight
  BY <1>4 DEF Init, InFlight
<1>7. Fresh
  BY <1>4 DEF Init, Fresh
<1>8. Ordered
  <2>1. ~pending /\ ~ready => legacy = Empty
    BY DEF Init
  <2>2. ASSUME NEW c \in Conversations
        PROVE  /\ mem[c] >= legacy[c]
               /\ pending /\ ~ready => local # None /\ local[c] >= legacy[c]
    <3>1. legacy[c] \in Nat /\ mem = legacy /\ legacy = Hydrate(local)
      BY <1>3, VersionsAreNumbers DEF Init
    <3>2. pending => local # None /\ local[c] = legacy[c]
      BY <1>3, <3>1 DEF Init
    <3> QED BY <3>1, <3>2
  <2> QED BY <1>4, <2>1, <2>2 DEF Init, Ordered
<1> QED BY <1>5, <1>6, <1>7, <1>8 DEF StoreInv

-----------------------------------------------------------------------------
(***************************************************************************)
(* Every assignment to agentConversations after which the list holds k.    *)
(***************************************************************************)
LEMMA SetInv ==
  ASSUME StoreInv, NEW k \in Contents, SetConversations(k),
         UNCHANGED <<read, legacy, migrated, flags, db, reloads, refusals>>,
         page' = page \/ (page = "rewriting" /\ page' = "ready"),
         erased' \subseteq Conversations, erased \subseteq erased',
         clearing' \in BOOLEAN, clearing' => clearing,
         clearing /\ ~clearing' => ~Awaits("clear"),
         \A c \in Conversations \ erased' : k[c] >= mem[c]
  PROVE  StoreInv'
<1> USE DEF StoreInv, flags
<1> DEFINE x == Write("flush", k)
<1>1. /\ x \in Transactions /\ x.by = "flush" /\ x.contents = k
      /\ writes \in Seq(Transactions)
  BY WriteType DEF Writers, TypeOK, Transactions
<1>2. mem' = k /\ local' = LocalCopy(k) /\ local' \in Contents \cup {None}
  BY LocalCopyType DEF SetConversations
<1>3. \A i \in DOMAIN writes : writes[i].by = "clear" => clearing'
  BY DEF InFlight, Awaits
<1>4. ASSUME NEW c \in Conversations \ erased'
      PROVE  /\ c \in Conversations \ erased /\ k[c] \in Nat /\ mem[c] \in Nat
             /\ legacy[c] \in Nat /\ db[c] \in Nat /\ k[c] >= mem[c] /\ k[c] >= legacy[c]
             /\ ready => k[c] >= db[c] /\ db[c] >= legacy[c]
  <2>1. c \in Conversations \ erased
    OBVIOUS
  <2>2. k[c] \in Nat /\ mem[c] \in Nat /\ legacy[c] \in Nat /\ db[c] \in Nat
    BY VersionsAreNumbers DEF TypeOK
  <2>3. k[c] >= mem[c] /\ mem[c] >= legacy[c] /\ (ready => mem[c] >= db[c] /\ db[c] >= legacy[c])
    BY <2>1 DEF Ordered
  <2> QED BY <2>1, <2>2, <2>3
<1>5. \A c \in Conversations \ erased' : pending' /\ ~ready' => local' # None /\ local'[c] >= legacy'[c]
  BY <1>2, <1>4, LocalCopyType, ContentsAreNotNone
<1>6. CASE ready /\ ~flushing
  <2>1. /\ array' = "writing" /\ flushing' = TRUE /\ queued' = FALSE /\ refused' = FALSE
        /\ writes' = Append(writes, x)
    BY <1>6 DEF SetConversations
  <2> HIDE DEF x
  <2>2. TypeOK'
    BY <1>1, <1>2, <2>1, AppendFacts DEF TypeOK, Transactions
  <2>3. \A i \in DOMAIN writes' :
            \/ i \in DOMAIN writes /\ writes'[i] = writes[i] /\ i # Len(writes) + 1
            \/ i = Len(writes) + 1 /\ writes'[i] = x
    BY <1>1, <2>1, GrownBy
  <2>4. Len(writes) + 1 \in DOMAIN writes' /\ writes'[Len(writes) + 1] = x
    BY <1>1, <2>1, AppendFacts
  <2>5. \A i \in DOMAIN writes : writes[i].by # "flush"
    BY <1>6 DEF InFlight
  <2>6. InFlight'
    <3>1. \A i, j \in DOMAIN writes' : writes'[i].by = writes'[j].by => i = j
      BY <1>1, <2>3, <2>5 DEF InFlight
    <3>2. \A i \in DOMAIN writes' :
            /\ writes'[i].by = "clear" => clearing'
            /\ writes'[i].by = "init" => page' = "replacing"
            /\ writes'[i].by = "flush" => flushing'
      BY <1>1, <1>3, <2>1, <2>3 DEF InFlight
    <3>3. ready' => page' \notin {"reading", "merging", "replacing"}
      BY DEF InFlight
    <3>4. page' # "replacing" /\ (clearing' => erased' = Conversations) /\ ready'
      BY <1>6 DEF InFlight
    <3>5. \E i \in DOMAIN writes' : writes'[i].by = "flush"
      BY <1>1, <2>4
    <3> QED BY <3>1, <3>2, <3>3, <3>4, <3>5 DEF InFlight
  <2>7. Fresh'
    <3>1. \A i \in DOMAIN writes' : writes'[i].by = "flush" => writes'[i].contents = mem'
      BY <1>1, <1>2, <2>3, <2>5
    <3>2. page' # "merging"
      BY <1>6 DEF InFlight
    <3>3. \A i \in DOMAIN writes' : writes'[i].by = "clear" => writes'[i].contents = Empty
      BY <1>1, <2>3 DEF Fresh
    <3> QED BY <2>1, <3>1, <3>2, <3>3 DEF Fresh
  <2>8. Ordered'
    <3>1. ASSUME NEW c \in Conversations \ erased', NEW i \in DOMAIN writes'
          PROVE  /\ writes'[i].contents[c] >= db'[c] /\ writes'[i].contents[c] >= legacy'[c]
                 /\ mem'[c] >= writes'[i].contents[c]
      <4>1. CASE i \in DOMAIN writes /\ writes'[i] = writes[i]
        <5>1. writes[i].contents[c] \in Nat
          BY <1>1, <4>1, StoredVersions
        <5>2. /\ writes[i].contents[c] >= db[c] /\ writes[i].contents[c] >= legacy[c]
              /\ mem[c] >= writes[i].contents[c]
          BY <1>4, <4>1 DEF Ordered
        <5> QED BY <1>2, <1>4, <4>1, <5>1, <5>2
      <4>2. CASE writes'[i] = x
        BY <1>1, <1>2, <1>4, <1>6, <4>2
      <4> QED BY <2>3, <4>1, <4>2
    <3>2. page' # "merging" /\ ready'
      BY <1>6 DEF InFlight
    <3> QED BY <1>2, <1>4, <1>5, <3>1, <3>2 DEF Ordered
  <2> QED BY <2>2, <2>6, <2>7, <2>8
<1>7. CASE ~(ready /\ ~flushing)
  <2>1. array' = "newer" /\ queued' = TRUE /\ UNCHANGED <<flushing, writes, refused>>
    BY <1>7 DEF SetConversations
  <2>2. TypeOK'
    BY <1>2, <2>1 DEF TypeOK
  <2>3. InFlight'
    BY <1>3, <2>1 DEF InFlight
  <2>4. Fresh'
    BY <1>7, <2>1 DEF Fresh
  <2>5. Ordered'
    <3>1. ASSUME NEW c \in Conversations \ erased', NEW i \in DOMAIN writes'
          PROVE  /\ writes'[i].contents[c] >= db'[c] /\ writes'[i].contents[c] >= legacy'[c]
                 /\ mem'[c] >= writes'[i].contents[c]
      <4>1. writes[i].contents[c] \in Nat
        BY <1>1, <2>1, StoredVersions
      <4>2. /\ writes[i].contents[c] >= db[c] /\ writes[i].contents[c] >= legacy[c]
            /\ mem[c] >= writes[i].contents[c]
        BY <1>4, <2>1 DEF Ordered
      <4> QED BY <1>2, <1>4, <2>1, <4>1, <4>2
    <3> QED BY <1>2, <1>4, <1>5, <3>1 DEF Ordered
  <2> QED BY <2>2, <2>3, <2>4, <2>5
<1> QED BY <1>6, <1>7

\* Contents growing as the code lets them grow.
LEMMA EditInv ==
  ASSUME StoreInv, NEW c \in Conversations, Edit(c)
  PROVE  StoreInv'
<1> DEFINE k == [mem EXCEPT ![c] = @ + 1]
<1>1. mem \in Contents /\ mem[c] \in Nat /\ mem[c] < MaxVersion
  BY VersionsAreNumbers DEF StoreInv, TypeOK, Edit
<1>2. mem[c] + 1 \in Versions
  BY <1>1, ConversationBoundsAssumption DEF Versions
<1>3. k \in Contents /\ \A d \in Conversations : k[d] = IF d = c THEN mem[c] + 1 ELSE mem[d]
  BY <1>1, <1>2 DEF Contents
<1>4. \A d \in Conversations : k[d] >= mem[d]
  <2> TAKE d \in Conversations
  <2>1. mem[d] \in Nat
    BY <1>1, VersionsAreNumbers
  <2> QED BY <1>1, <1>3, <2>1
<1> HIDE DEF k
<1>5. /\ SetConversations(k)
      /\ UNCHANGED <<page, read, legacy, migrated, flags, db, clearing, erased, reloads, refusals>>
  BY DEF Edit, k, loading
<1> QED BY <1>3, <1>4, <1>5, SetInv DEF StoreInv, TypeOK

LEMMA DeleteInv ==
  ASSUME StoreInv, NEW c \in Conversations, Delete(c)
  PROVE  StoreInv'
<1> DEFINE k == [mem EXCEPT ![c] = 0]
<1>1. mem \in Contents
  BY DEF StoreInv, TypeOK
<1>2. k \in Contents /\ \A d \in Conversations : k[d] = IF d = c THEN 0 ELSE mem[d]
  BY <1>1, ConversationBoundsAssumption DEF Contents, Versions
<1> HIDE DEF k
<1>3. /\ SetConversations(k) /\ erased' = erased \cup {c}
      /\ UNCHANGED <<page, read, legacy, migrated, flags, db, clearing, reloads, refusals>>
  BY DEF Delete, k, loading
<1>4. \A d \in Conversations \ erased' : k[d] >= mem[d]
  <2> TAKE d \in Conversations \ erased'
  <2>1. mem[d] \in Nat /\ d # c
    BY <1>1, <1>3, VersionsAreNumbers
  <2> QED BY <1>2, <2>1
<1> QED BY <1>2, <1>3, <1>4, SetInv DEF StoreInv, TypeOK

LEMMA ClearFinishInv ==
  ASSUME StoreInv, ClearFinish
  PROVE  StoreInv'
<1>1. /\ SetConversations(Empty) /\ clearing /\ clearing' = FALSE /\ ~Awaits("clear")
      /\ UNCHANGED <<page, read, legacy, migrated, flags, db, erased, reloads, refusals>>
  BY DEF ClearFinish, loading
<1>2. erased = Conversations
  BY <1>1 DEF StoreInv, InFlight
<1> QED BY <1>1, <1>2, EmptyType, SetInv DEF StoreInv, TypeOK

LEMMA OtherChangeInv ==
  ASSUME StoreInv, OtherChange
  PROVE  StoreInv'
<1>1. \A c \in Conversations : mem[c] >= mem[c]
  BY VersionsAreNumbers DEF StoreInv, TypeOK
<1>2. /\ SetConversations(mem)
      /\ UNCHANGED <<page, read, legacy, migrated, flags, db, clearing, erased, reloads, refusals>>
  BY DEF OtherChange, loading
<1> QED BY <1>1, <1>2, SetInv DEF StoreInv, TypeOK

-----------------------------------------------------------------------------
(***************************************************************************)
(* Transactions that are asked for and end.                                *)
(***************************************************************************)
LEMMA ClearBeginInv ==
  ASSUME StoreInv, ClearBegin
  PROVE  StoreInv'
<1> USE DEF StoreInv, loading, flags
<1> DEFINE x == Write("clear", Empty)
<1>1. x \in Transactions /\ x.by = "clear" /\ x.contents = Empty /\ writes \in Seq(Transactions)
  BY WriteType, EmptyType DEF Writers, TypeOK, Transactions
<1>2. /\ ~clearing /\ clearing' = TRUE /\ erased' = Conversations /\ writes' = Append(writes, x)
      /\ UNCHANGED <<mem, local, array, queued, flushing, refused, loading, flags, db, reloads, refusals>>
  BY DEF ClearBegin
<1> HIDE DEF x
<1>3. TypeOK'
  BY <1>1, <1>2, AppendFacts DEF TypeOK, Transactions
<1>4. \A i \in DOMAIN writes' : \/ i \in DOMAIN writes /\ writes'[i] = writes[i]
                                \/ i = Len(writes) + 1 /\ writes'[i] = x
  BY <1>1, <1>2, GrownBy
<1>5. \A i \in DOMAIN writes : writes[i].by # "clear" /\ i \in DOMAIN writes' /\ writes'[i] = writes[i]
  BY <1>1, <1>2, AppendFacts DEF InFlight
<1>6. InFlight'
  <2>1. \A i, j \in DOMAIN writes' : writes'[i].by = writes'[j].by => i = j
    BY <1>1, <1>4, <1>5 DEF InFlight
  <2>2. \A i \in DOMAIN writes' :
          /\ writes'[i].by = "clear" => clearing'
          /\ writes'[i].by = "init" => page' = "replacing"
          /\ writes'[i].by = "flush" => flushing'
    BY <1>1, <1>2, <1>4 DEF InFlight
  <2>3. flushing' => \E i \in DOMAIN writes' : writes'[i].by = "flush"
    BY <1>2, <1>5 DEF InFlight
  <2> QED BY <1>2, <2>1, <2>2, <2>3 DEF InFlight
<1>7. Fresh'
  BY <1>1, <1>2, <1>4 DEF Fresh
<1>8. Ordered'
  BY <1>2 DEF Ordered
<1> QED BY <1>3, <1>6, <1>7, <1>8

LEMMA InitReadInv ==
  ASSUME StoreInv, InitRead
  PROVE  StoreInv'
<1> USE DEF StoreInv, loading, flags, state
<1>1. TypeOK'
  BY DEF InitRead, TypeOK
<1>2. InFlight'
  BY DEF InitRead, InFlight
<1>3. Fresh'
  BY DEF InitRead, Fresh
<1>4. Ordered'
  BY DEF InitRead, Ordered
<1> QED BY <1>1, <1>2, <1>3, <1>4

LEMMA InitFinishInv ==
  ASSUME StoreInv, InitFinish
  PROVE  StoreInv'
<1> USE DEF StoreInv, loading, flags
<1>1. CASE migrated /\ array # "stored"
  <2>1. \A c \in Conversations : mem[c] >= mem[c]
    BY VersionsAreNumbers DEF TypeOK
  <2>2. /\ SetConversations(mem) /\ page = "rewriting" /\ page' = "ready"
        /\ UNCHANGED <<read, legacy, migrated, flags, db, clearing, erased, reloads, refusals>>
    BY <1>1 DEF InitFinish
  <2> QED BY <2>1, <2>2, SetInv DEF TypeOK
<1> SUFFICES ASSUME ~(migrated /\ array # "stored") PROVE StoreInv'
  BY <1>1
<1>2. TypeOK'
  BY LocalCopyType DEF InitFinish, TypeOK
<1>3. InFlight'
  BY DEF InitFinish, InFlight
<1>4. Fresh'
  BY DEF InitFinish, Fresh
<1>5. ASSUME pending, ~ready, NEW c \in Conversations \ erased
      PROVE  local' # None /\ local'[c] >= legacy'[c]
  <2>1. local # None /\ local[c] >= legacy[c] /\ mem[c] >= legacy[c]
    BY <1>5 DEF Ordered
  <2>2. LocalCopy(mem) = mem /\ mem # None
    BY <1>5, LocalCopyType, ContentsAreNotNone DEF TypeOK
  <2> QED BY <2>1, <2>2 DEF InitFinish
<1>6. Ordered'
  BY <1>5 DEF InitFinish, Ordered
<1> QED BY <1>2, <1>3, <1>4, <1>6

LEMMA ReloadInv ==
  ASSUME StoreInv, Reload
  PROVE  StoreInv'
<1> USE DEF StoreInv
<1>1. local \in Contents \cup {None}
  BY DEF TypeOK
<1>2. Hydrate(local) \in Contents /\ (Hydrate(local) # Empty => local # None /\ Hydrate(local) = local)
  BY <1>1, HydrateType
<1>3. writes' = <<>> /\ <<>> \in Seq([by : Writers, contents : Contents]) /\ DOMAIN <<>> = {}
  BY SMT DEF Reload
<1>4. TypeOK'
  <2>1. reloads' \in 0 .. MaxReloads
    BY ConversationBoundsAssumption DEF Reload, TypeOK
  <2>2. mem' \in Contents /\ legacy' \in Contents /\ read' \in Contents
    BY <1>2, EmptyType DEF Reload
  <2> QED BY <1>3, <2>1, <2>2 DEF Reload, TypeOK
<1>5. InFlight'
  BY <1>3 DEF Reload, InFlight
<1>6. Fresh'
  BY <1>3 DEF Reload, Fresh
<1>7. Ordered'
  <2>1. ~pending' /\ ~ready' => legacy' = Empty
    BY DEF Reload
  <2>2. ASSUME NEW c \in Conversations
        PROVE  /\ mem'[c] >= legacy'[c]
               /\ pending' /\ ~ready' => local' # None /\ local'[c] >= legacy'[c]
    <3>1. legacy'[c] \in Nat /\ mem' = legacy' /\ legacy' = Hydrate(local) /\ local' = local
      BY <1>2, VersionsAreNumbers DEF Reload
    <3>2. pending' => local # None /\ local[c] = legacy'[c]
      BY <1>2, <3>1 DEF Reload
    <3> QED BY <3>1, <3>2
  <2> QED BY <1>3, <2>1, <2>2 DEF Reload, Ordered
<1> QED BY <1>4, <1>5, <1>6, <1>7

LEMMA InitMergeInv ==
  ASSUME StoreInv, InitMerge
  PROVE  StoreInv'
<1> USE DEF StoreInv, flags
<1> DEFINE x == Write("init", Loaded)
<1>1. Loaded \in Contents
  BY LoadedFacts
<1>2. x \in Transactions /\ x.by = "init" /\ x.contents = Loaded /\ writes \in Seq(Transactions)
  BY <1>1, WriteType DEF Writers, TypeOK, Transactions
<1>3. /\ page = "merging" /\ page' = "replacing" /\ mem' = Loaded /\ local' = LocalCopy(Loaded)
      /\ array' = "newer" /\ queued' = TRUE /\ writes' = Append(writes, x)
      /\ UNCHANGED <<flushing, refused, read, legacy, migrated, flags, db, clearing, erased, reloads, refusals>>
  BY DEF InitMerge
<1> HIDE DEF x
<1>4. ~ready /\ ~flushing
  BY <1>3 DEF InFlight
<1>5. \A i \in DOMAIN writes : writes[i].by = "clear"
  <2> TAKE i \in DOMAIN writes
  <2>1. writes[i] \in Transactions
    BY <1>2, SMT
  <2>2. writes[i].by \in Writers
    BY <2>1 DEF Transactions
  <2>3. writes[i].by # "init" /\ writes[i].by # "flush"
    BY <1>3, <1>4 DEF InFlight
  <2> QED BY <2>2, <2>3 DEF Writers
<1>6. local' \in Contents \cup {None} /\ (pending /\ ~ready => local' = Loaded /\ local' # None)
  BY <1>1, <1>3, LocalCopyType, ContentsAreNotNone
<1>7. TypeOK'
  BY <1>1, <1>2, <1>3, <1>6, AppendFacts DEF TypeOK, Transactions
<1>8. \A i \in DOMAIN writes' : \/ i \in DOMAIN writes /\ writes'[i] = writes[i]
                                \/ i = Len(writes) + 1 /\ writes'[i] = x
  BY <1>2, <1>3, GrownBy
<1>9. InFlight'
  <2>1. \A i, j \in DOMAIN writes' : writes'[i].by = writes'[j].by => i = j
    BY <1>2, <1>5, <1>8 DEF InFlight
  <2>2. \A i \in DOMAIN writes' :
          /\ writes'[i].by = "clear" => clearing'
          /\ writes'[i].by = "init" => page' = "replacing"
          /\ writes'[i].by # "flush"
    BY <1>2, <1>3, <1>5, <1>8 DEF InFlight
  <2>3. clearing' => erased' = Conversations
    BY <1>3 DEF InFlight
  <2> QED BY <1>3, <1>4, <2>1, <2>2, <2>3 DEF InFlight
<1>10. Fresh'
  <2>1. \A i \in DOMAIN writes' : writes'[i].by = "clear" => writes'[i].contents = Empty
    BY <1>2, <1>8 DEF Fresh
  <2> QED BY <1>3, <1>4, <2>1 DEF Fresh
<1>11. Ordered'
  <2>1. ASSUME NEW c \in Conversations \ erased, NEW i \in DOMAIN writes'
        PROVE  /\ writes'[i].contents[c] >= db'[c] /\ writes'[i].contents[c] >= legacy'[c]
               /\ mem'[c] >= writes'[i].contents[c]
    <3>1. i \notin DOMAIN writes
      BY <1>5 DEF InFlight
    <3>2. writes'[i].contents = Loaded
      BY <1>2, <1>8, <3>1
    <3>3. read[c] = db[c] /\ Loaded[c] >= read[c] /\ Loaded[c] >= legacy[c] /\ Loaded[c] \in Nat
      BY <1>1, <1>3, LoadedFacts, VersionsAreNumbers DEF Ordered
    <3> QED BY <1>3, <3>2, <3>3
  <2>2. \A c \in Conversations \ erased : mem'[c] >= legacy'[c]
    BY <1>3, LoadedFacts
  <2>3. \A c \in Conversations \ erased : pending' /\ ~ready' => local' # None /\ local'[c] >= legacy'[c]
    BY <1>3, <1>6, LoadedFacts
  <2> QED BY <1>3, <1>4, <2>1, <2>2, <2>3 DEF Ordered
<1> QED BY <1>7, <1>9, <1>10, <1>11

LEMMA InitNothingInv ==
  ASSUME StoreInv, InitNothing
  PROVE  StoreInv'
<1> USE DEF StoreInv
<1> DEFINE x == Write("flush", mem)
           again == queued \/ array # "stored"
<1>1. x \in Transactions /\ x.by = "flush" /\ x.contents = mem /\ writes \in Seq(Transactions)
  BY WriteType DEF Writers, TypeOK, Transactions
<1>2. /\ page = "merging" /\ Loaded = Empty /\ legacy = Empty /\ local' = LocalCopy(mem)
      /\ ready' = TRUE /\ pending' = FALSE /\ migrated' = pending
      /\ UNCHANGED <<mem, db, read, legacy, clearing, erased, reloads, refusals>>
  BY DEF InitNothing, Enable
<1>3. again => /\ page' = "flushing" /\ array' = "writing" /\ flushing' = TRUE /\ queued' = FALSE
               /\ refused' = FALSE /\ writes' = Append(writes, x)
  BY DEF InitNothing, Enable
<1>4. ~again => page' = "rewriting" /\ UNCHANGED <<array, flushing, queued, refused, writes>>
  BY DEF InitNothing, Enable
<1> HIDE DEF x, again
<1>5. read = Empty /\ mem = Empty /\ db = Empty
  BY <1>2, LoadedFacts DEF Fresh
<1>6. ~ready /\ ~flushing
  BY <1>2 DEF InFlight
<1>7. \A i \in DOMAIN writes : writes[i].by # "init" /\ writes[i].by # "flush"
  BY <1>2, <1>6 DEF InFlight
<1>8. local' \in Contents \cup {None}
  BY <1>2, LocalCopyType DEF TypeOK
<1>9. \A c \in Conversations : mem[c] = 0 /\ legacy[c] = 0 /\ db[c] = 0
  BY <1>2, <1>5, EmptyType
<1>10. CASE again
  <2>1. TypeOK'
    <3>1. writes' \in Seq(Transactions)
      BY <1>1, <1>3, <1>10, AppendFacts
    <3> QED BY <1>2, <1>3, <1>8, <1>10, <3>1 DEF TypeOK, Transactions
  <2>2. \A i \in DOMAIN writes' : \/ i \in DOMAIN writes /\ writes'[i] = writes[i]
                                  \/ i = Len(writes) + 1 /\ writes'[i] = x
    BY <1>1, <1>3, <1>10, GrownBy
  <2>3. Len(writes) + 1 \in DOMAIN writes' /\ writes'[Len(writes) + 1] = x
    BY <1>1, <1>3, <1>10, AppendFacts
  <2>4. InFlight'
    <3>1. \A i, j \in DOMAIN writes' : writes'[i].by = writes'[j].by => i = j
      BY <1>1, <1>7, <2>2 DEF InFlight
    <3>2. \A i \in DOMAIN writes' :
            (writes'[i].by = "clear" => clearing') /\ writes'[i].by # "init"
      BY <1>1, <1>2, <1>7, <2>2 DEF InFlight
    <3>3. clearing' => erased' = Conversations
      BY <1>2 DEF InFlight
    <3>4. \E i \in DOMAIN writes' : writes'[i].by = "flush"
      BY <1>1, <2>3
    <3> QED BY <1>2, <1>3, <1>10, <3>1, <3>2, <3>3, <3>4 DEF InFlight
  <2>5. Fresh'
    BY <1>1, <1>2, <1>3, <1>7, <1>10, <2>2 DEF Fresh
  <2>6. Ordered'
    <3>1. ASSUME NEW c \in Conversations \ erased, NEW i \in DOMAIN writes'
          PROVE  writes'[i].contents[c] = 0
      <4>1. CASE i \in DOMAIN writes
        <5>1. writes[i].contents[c] \in Nat
          BY <1>1, <4>1, StoredVersions
        <5>2. mem[c] >= writes[i].contents[c]
          BY <4>1 DEF Ordered
        <5>3. writes'[i] = writes[i]
          BY <1>1, <1>3, <1>10, <4>1, AppendFacts
        <5> QED BY <1>9, <5>1, <5>2, <5>3
      <4>2. CASE writes'[i] = x
        BY <1>1, <1>9, <4>2
      <4> QED BY <2>2, <4>1, <4>2
    <3> QED BY <1>2, <1>3, <1>9, <1>10, <3>1 DEF Ordered
  <2> QED BY <2>1, <2>4, <2>5, <2>6
<1>11. CASE ~again
  <2>1. TypeOK'
    BY <1>2, <1>4, <1>8, <1>11 DEF TypeOK
  <2>2. InFlight'
    BY <1>2, <1>4, <1>6, <1>7, <1>11 DEF InFlight
  <2>3. Fresh'
    BY <1>2, <1>4, <1>5, <1>7, <1>11 DEF Fresh
  <2>4. Ordered'
    BY <1>2, <1>4, <1>9, <1>11 DEF Ordered
  <2> QED BY <2>1, <2>2, <2>3, <2>4
<1> QED BY <1>10, <1>11

\* What is left when the oldest transaction ends.
LEMMA RestOfWrites ==
  ASSUME StoreInv, writes # <<>>
  PROVE  /\ Tail(writes) \in Seq(Transactions) /\ Head(writes) \in Transactions
         /\ \A i \in DOMAIN Tail(writes) :
                /\ Tail(writes)[i].by # Head(writes).by
                /\ Tail(writes)[i].by = "clear" => clearing
                /\ Tail(writes)[i].by = "init" => page = "replacing"
                /\ Tail(writes)[i].by = "flush" => flushing
                /\ Tail(writes)[i].by = "clear" => Tail(writes)[i].contents = Empty
                /\ Tail(writes)[i].by = "flush" /\ array = "writing" => Tail(writes)[i].contents = mem
         /\ \A i, j \in DOMAIN Tail(writes) : Tail(writes)[i].by = Tail(writes)[j].by => i = j
         /\ flushing /\ Head(writes).by # "flush" => \E i \in DOMAIN Tail(writes) : Tail(writes)[i].by = "flush"
         /\ DOMAIN Tail(writes) = {} \/ erased = Conversations
<1> USE DEF StoreInv
<1>1. writes \in Seq(Transactions)
  BY DEF TypeOK, Transactions
<1> DEFINE t == Tail(writes)
<1>2. /\ t \in Seq(Transactions) /\ Head(writes) \in Transactions
      /\ 1 \in DOMAIN writes /\ Head(writes) = writes[1]
      /\ \A i \in DOMAIN t : i + 1 \in DOMAIN writes /\ t[i] = writes[i + 1] /\ i + 1 # 1
      /\ \A i \in DOMAIN writes : i = 1 \/ (i - 1 \in DOMAIN t /\ t[i - 1] = writes[i])
      /\ \A i \in DOMAIN t : i \in Int
  BY <1>1, TailFacts
<1> HIDE DEF t
<1>3. ASSUME NEW i \in DOMAIN t
      PROVE  /\ t[i].by # Head(writes).by
             /\ t[i].by = "clear" => clearing
             /\ t[i].by = "init" => page = "replacing"
             /\ t[i].by = "flush" => flushing
             /\ t[i].by = "clear" => t[i].contents = Empty
             /\ t[i].by = "flush" /\ array = "writing" => t[i].contents = mem
  BY <1>2 DEF InFlight, Fresh
<1>4. ASSUME NEW i \in DOMAIN t, NEW j \in DOMAIN t, t[i].by = t[j].by
      PROVE  i = j
  <2>1. i + 1 = j + 1
    BY <1>2, <1>4 DEF InFlight
  <2>2. i \in Int /\ j \in Int
    BY <1>2
  <2> QED BY <2>1, <2>2
<1>5. ASSUME flushing, Head(writes).by # "flush"
      PROVE  \E i \in DOMAIN t : t[i].by = "flush"
  <2>1. PICK i \in DOMAIN writes : writes[i].by = "flush"
    BY <1>5 DEF InFlight
  <2>2. i # 1
    BY <1>2, <1>5, <2>1
  <2> QED BY <1>2, <2>1, <2>2
<1>6. ASSUME NEW i \in DOMAIN t
      PROVE  erased = Conversations
  <2>1. t[i] \in Transactions
    BY <1>2, SMT
  <2>2. t[i].by \in Writers /\ Head(writes).by \in Writers
    BY <1>2, <2>1 DEF Transactions
  <2>3. /\ Head(writes).by = "clear" => clearing
        /\ Head(writes).by = "init" => page = "replacing"
        /\ Head(writes).by = "flush" => flushing
    BY <1>2 DEF InFlight
  <2>4. clearing => erased = Conversations
    BY DEF InFlight
  <2>5. ~(page = "replacing" /\ flushing)
    BY DEF InFlight
  <2> QED BY <1>3, <2>2, <2>3, <2>4, <2>5 DEF Writers
<1>7. DOMAIN t = {} \/ erased = Conversations
  BY <1>6
<1> QED BY <1>2, <1>3, <1>4, <1>5, <1>7 DEF t

LEMMA ClearedInv ==
  ASSUME StoreInv, Cleared
  PROVE  StoreInv'
<1> USE DEF StoreInv, loading, flags
<1>1. /\ writes # <<>> /\ Head(writes).by = "clear" /\ db' = Head(writes).contents /\ writes' = Tail(writes)
      /\ UNCHANGED <<mem, local, array, queued, flushing, refused, loading, flags, clearing, erased,
                     reloads, refusals>>
  BY DEF Cleared
<1>2. /\ writes' \in Seq(Transactions)
      /\ \A i \in DOMAIN writes' :
            /\ writes'[i].by = "clear" => clearing
            /\ writes'[i].by = "init" => page = "replacing"
            /\ writes'[i].by = "flush" => flushing
            /\ writes'[i].by = "clear" => writes'[i].contents = Empty
            /\ writes'[i].by = "flush" /\ array = "writing" => writes'[i].contents = mem
      /\ \A i, j \in DOMAIN writes' : writes'[i].by = writes'[j].by => i = j
      /\ flushing => \E i \in DOMAIN writes' : writes'[i].by = "flush"
  BY <1>1, RestOfWrites
<1>3. clearing /\ db' = Empty /\ erased = Conversations
  <2>1. 1 \in DOMAIN writes /\ Head(writes) = writes[1]
    BY <1>1, TailFacts DEF TypeOK, Transactions
  <2> QED BY <1>1, <2>1 DEF InFlight, Fresh
<1>4. TypeOK'
  BY <1>1, <1>2, <1>3, EmptyType DEF TypeOK, Transactions
<1>5. InFlight'
  BY <1>1, <1>2 DEF InFlight
<1>6. Fresh'
  BY <1>1, <1>2, <1>3 DEF Fresh
<1>7. Ordered'
  BY <1>1, <1>3 DEF Ordered
<1> QED BY <1>4, <1>5, <1>6, <1>7

LEMMA RefuseInv ==
  ASSUME StoreInv, Refuse
  PROVE  StoreInv'
<1> USE DEF StoreInv, flags
<1>1. /\ writes # <<>> /\ Head(writes).by # "clear" /\ writes' = Tail(writes)
      /\ refusals < MaxRefusals /\ refusals' = refusals + 1
      /\ UNCHANGED <<mem, local, queued, read, legacy, migrated, flags, db, clearing, erased, reloads>>
      /\ Head(writes).by = "init" => page' = "failed" /\ UNCHANGED <<flushing, array, refused>>
      /\ Head(writes).by # "init" =>
            /\ flushing' = FALSE /\ array' = "newer" /\ refused' = TRUE
            /\ page' = IF page = "flushing" THEN "failed" ELSE page
  BY DEF Refuse
<1>2. /\ writes' \in Seq(Transactions) /\ Head(writes) \in Transactions
      /\ \A i \in DOMAIN writes' :
            /\ writes'[i].by # Head(writes).by
            /\ writes'[i].by = "clear" => clearing
            /\ writes'[i].by = "init" => page = "replacing"
            /\ writes'[i].by = "flush" => flushing
            /\ writes'[i].by = "clear" => writes'[i].contents = Empty
      /\ \A i, j \in DOMAIN writes' : writes'[i].by = writes'[j].by => i = j
      /\ DOMAIN writes' = {} \/ erased = Conversations
  BY <1>1, RestOfWrites
<1>3. TypeOK'
  <2>1. refusals' \in 0 .. MaxRefusals
    BY <1>1, ConversationBoundsAssumption DEF TypeOK
  <2>2. writes' \in Seq([by : Writers, contents : Contents])
    BY <1>2 DEF Transactions
  <2> QED BY <1>1, <2>1, <2>2 DEF TypeOK
<1>4. 1 \in DOMAIN writes /\ Head(writes) = writes[1]
  BY <1>1, TailFacts DEF TypeOK, Transactions
<1>5. CASE Head(writes).by = "init"
  <2>1. page = "replacing" /\ ~ready /\ ~flushing
    BY <1>4, <1>5 DEF InFlight
  <2>2. page' = "failed" /\ UNCHANGED <<flushing, array, refused>>
    BY <1>1, <1>5
  <2>3. \A i \in DOMAIN writes' : writes'[i].by # "flush" /\ writes'[i].by # "init"
    BY <1>2, <1>5, <2>1
  <2>4. InFlight'
    <3>1. clearing' => erased' = Conversations
      BY <1>1 DEF InFlight
    <3> QED BY <1>1, <1>2, <2>1, <2>2, <2>3, <3>1 DEF InFlight
  <2>5. Fresh'
    BY <1>1, <1>2, <2>1, <2>2, <2>3 DEF Fresh
  <2>6. Ordered'
    BY <1>1, <1>2, <2>1, <2>2 DEF Ordered
  <2> QED BY <1>3, <2>4, <2>5, <2>6
<1>6. CASE Head(writes).by # "init"
  <2>1. Head(writes).by = "flush"
    BY <1>1, <1>2, <1>6 DEF Transactions, Writers
  <2>2. flushing /\ ready
    BY <1>4, <2>1 DEF InFlight
  <2>3. /\ flushing' = FALSE /\ array' = "newer" /\ refused' = TRUE
        /\ page' = IF page = "flushing" THEN "failed" ELSE page
    BY <1>1, <1>6
  <2>4. page' \notin {"reading", "merging", "replacing"}
    BY <2>2, <2>3 DEF InFlight
  <2>5. InFlight'
    <3>1. clearing' => erased' = Conversations
      BY <1>1 DEF InFlight
    <3>2. page # "replacing"
      BY <2>2 DEF InFlight
    <3>3. \A i \in DOMAIN writes' : writes'[i].by # "flush" /\ writes'[i].by # "init"
      BY <1>2, <2>1, <3>2
    <3> QED BY <1>1, <1>2, <2>3, <2>4, <3>1, <3>3 DEF InFlight
  <2>6. Fresh'
    BY <1>1, <1>2, <2>3, <2>4 DEF Fresh
  <2>7. Ordered'
    BY <1>1, <1>2, <2>2, <2>4 DEF Ordered
  <2> QED BY <1>3, <2>5, <2>6, <2>7
<1> QED BY <1>5, <1>6

\* The transaction is through and the list in memory is flushed again: by
\* initStore after its own write, by the flush loop when anything changed.
LEMMA WrittenAgain ==
  ASSUME StoreInv, writes # <<>>, Head(writes).by \in {"init", "flush"},
         db' = Head(writes).contents,
         writes' = Append(Tail(writes), Write("flush", mem)),
         array' = "writing", queued' = FALSE, flushing' = TRUE, ready' = TRUE,
         pending' \in BOOLEAN, migrated' \in BOOLEAN, refused' \in BOOLEAN,
         page' \in {"flushing", "rewriting", "ready", "failed"},
         local' \in Contents \cup {None},
         UNCHANGED <<mem, read, legacy, clearing, erased, reloads, refusals>>
  PROVE  StoreInv'
<1> USE DEF StoreInv
<1> DEFINE x == Write("flush", mem)
           t == Tail(writes)
<1>1. x \in Transactions /\ x.by = "flush" /\ x.contents = mem
  BY WriteType DEF Writers, TypeOK
<1>2. /\ t \in Seq(Transactions) /\ Head(writes) \in Transactions
      /\ \A i \in DOMAIN t :
            /\ t[i].by # Head(writes).by
            /\ t[i].by = "clear" => clearing
            /\ t[i].by = "init" => page = "replacing"
            /\ t[i].by = "flush" => flushing
            /\ t[i].by = "clear" => t[i].contents = Empty
      /\ \A i, j \in DOMAIN t : t[i].by = t[j].by => i = j
      /\ DOMAIN t = {} \/ erased = Conversations
  BY RestOfWrites
<1>3. 1 \in DOMAIN writes /\ Head(writes) = writes[1]
  BY TailFacts DEF TypeOK, Transactions
<1>4. writes' = Append(t, x)
  OBVIOUS
<1> HIDE DEF x, t
<1>5. \A i \in DOMAIN t : t[i].by # "init" /\ t[i].by # "flush"
  <2>1. Head(writes).by = "init" => page = "replacing" /\ ~flushing
    BY <1>3 DEF InFlight
  <2>2. Head(writes).by = "flush" => page # "replacing"
    BY <1>3 DEF InFlight
  <2> QED BY <1>2, <2>1, <2>2
<1>6. \A i \in DOMAIN writes' : \/ i \in DOMAIN t /\ writes'[i] = t[i]
                                \/ i = Len(t) + 1 /\ writes'[i] = x
  BY <1>1, <1>2, <1>4, GrownBy
<1>7. Len(t) + 1 \in DOMAIN writes' /\ writes'[Len(t) + 1] = x
  BY <1>1, <1>2, <1>4, AppendFacts
<1>8. db' \in Contents
  BY <1>2 DEF Transactions
<1>9. TypeOK'
  <2>1. writes' \in Seq(Transactions)
    <3>1. t \in Seq(Transactions) /\ x \in Transactions
      BY <1>1, <1>2
    <3>2. Append(t, x) \in Seq(Transactions)
      BY <3>1, AppendFacts, Zenon
    <3> QED BY <1>4, <3>2, Zenon
  <2> QED BY <1>8, <2>1 DEF TypeOK, Transactions
<1>10. InFlight'
  <2>1. \A i, j \in DOMAIN writes' : writes'[i].by = writes'[j].by => i = j
    BY <1>1, <1>2, <1>5, <1>6
  <2>2. \A i \in DOMAIN writes' : (writes'[i].by = "clear" => clearing') /\ writes'[i].by # "init"
    BY <1>1, <1>2, <1>5, <1>6
  <2>3. \E i \in DOMAIN writes' : writes'[i].by = "flush"
    BY <1>1, <1>7
  <2>4. clearing' => erased' = Conversations
    BY DEF InFlight
  <2> QED BY <2>1, <2>2, <2>3, <2>4 DEF InFlight
<1>11. Fresh'
  <2>1. \A i \in DOMAIN writes' :
          /\ writes'[i].by = "flush" => writes'[i].contents = mem'
          /\ writes'[i].by = "clear" => writes'[i].contents = Empty
    BY <1>1, <1>2, <1>5, <1>6
  <2> QED BY <2>1 DEF Fresh
<1>12. Ordered'
  <2>1. ASSUME NEW c \in Conversations \ erased
        PROVE  /\ mem[c] >= db'[c] /\ db'[c] >= legacy[c] /\ mem[c] >= legacy[c]
               /\ mem[c] \in Nat
    BY <1>3, VersionsAreNumbers DEF Ordered, TypeOK
  <2>2. ASSUME NEW c \in Conversations \ erased, NEW i \in DOMAIN writes'
        PROVE  writes'[i].contents = mem
    BY <1>1, <1>2, <1>6
  <2>3. ASSUME NEW c \in Conversations \ erased, NEW i \in DOMAIN writes'
        PROVE  /\ writes'[i].contents[c] >= db'[c] /\ writes'[i].contents[c] >= legacy'[c]
               /\ mem'[c] >= writes'[i].contents[c]
    BY <2>1, <2>2
  <2> QED BY <2>1, <2>3 DEF Ordered
<1> QED BY <1>9, <1>10, <1>11, <1>12

LEMMA InitReplacedInv ==
  ASSUME StoreInv, InitReplaced
  PROVE  StoreInv'
<1>1. writes # <<>> /\ Head(writes).by = "init"
  BY DEF InitReplaced
<1>2. queued
  <2>1. 1 \in DOMAIN writes /\ Head(writes) = writes[1]
    BY <1>1, TailFacts DEF StoreInv, TypeOK, Transactions
  <2> QED BY <1>1, <2>1 DEF StoreInv, InFlight
<1>3. /\ db' = Head(writes).contents /\ writes' = Append(Tail(writes), Write("flush", mem))
      /\ array' = "writing" /\ queued' = FALSE /\ flushing' = TRUE /\ ready' = TRUE
      /\ pending' = FALSE /\ migrated' = pending /\ refused' = FALSE /\ page' = "flushing"
      /\ UNCHANGED <<local, mem, read, legacy, clearing, erased, reloads, refusals>>
  BY <1>2 DEF InitReplaced, Enable
<1> QED BY <1>1, <1>3, WrittenAgain DEF StoreInv, TypeOK

LEMMA FlushedInv ==
  ASSUME StoreInv, Flushed
  PROVE  StoreInv'
<1> USE DEF StoreInv, flags
<1>1. /\ writes # <<>> /\ Head(writes).by = "flush" /\ db' = Head(writes).contents
      /\ UNCHANGED <<mem, local, refused, read, legacy, migrated, flags, clearing, erased, reloads, refusals>>
  BY DEF Flushed
<1>2. 1 \in DOMAIN writes /\ Head(writes) = writes[1]
  BY <1>1, TailFacts DEF TypeOK, Transactions
<1>3. flushing /\ ready /\ page \in {"flushing", "rewriting", "ready", "failed"}
  BY <1>1, <1>2 DEF InFlight, TypeOK
<1>4. CASE queued \/ array # "writing"
  <2>1. /\ array' = "writing" /\ queued' = FALSE /\ UNCHANGED <<flushing, page>>
        /\ writes' = Append(Tail(writes), Write("flush", mem))
    BY <1>4 DEF Flushed
  <2>2. flushing' = TRUE /\ ready' = TRUE /\ page' \in {"flushing", "rewriting", "ready", "failed"}
    BY <1>1, <1>3, <2>1 DEF TypeOK
  <2> QED BY <1>1, <2>1, <2>2, WrittenAgain DEF TypeOK
<1>5. CASE ~(queued \/ array # "writing")
  <2>1. /\ array' = "stored" /\ flushing' = FALSE /\ writes' = Tail(writes)
        /\ page' = IF page = "flushing" THEN "rewriting" ELSE page
        /\ UNCHANGED queued
    BY <1>5 DEF Flushed
  <2>2. /\ writes' \in Seq(Transactions) /\ Head(writes) \in Transactions
        /\ \A i \in DOMAIN writes' :
              /\ writes'[i].by # "flush"
              /\ writes'[i].by = "clear" => clearing
              /\ writes'[i].by = "init" => page = "replacing"
              /\ writes'[i].by = "clear" => writes'[i].contents = Empty
        /\ \A i, j \in DOMAIN writes' : writes'[i].by = writes'[j].by => i = j
        /\ DOMAIN writes' = {} \/ erased = Conversations
    BY <1>1, <2>1, RestOfWrites
  <2>3. db' = mem /\ db' \in Contents
    BY <1>1, <1>2, <1>5 DEF Fresh, TypeOK
  <2>4. page' \in {"rewriting", "ready", "failed"}
    BY <1>3, <2>1
  <2>5. TypeOK'
    BY <1>1, <2>1, <2>2, <2>3, <2>4 DEF TypeOK, Transactions
  <2>6. InFlight'
    <3>1. \A i \in DOMAIN writes' : writes'[i].by # "init"
      BY <1>3, <2>2
    <3>2. clearing' => erased' = Conversations
      BY <1>1 DEF InFlight
    <3> QED BY <1>1, <2>1, <2>2, <2>4, <3>1, <3>2 DEF InFlight
  <2>7. Fresh'
    BY <1>1, <2>2, <2>3, <2>4 DEF Fresh
  <2>8. Ordered'
    <3>1. ASSUME NEW c \in Conversations \ erased
          PROVE  mem[c] >= mem[c] /\ mem[c] >= legacy[c]
      BY VersionsAreNumbers DEF Ordered, TypeOK
    <3> QED BY <1>1, <1>3, <2>2, <2>3, <2>4, <3>1 DEF Ordered
  <2> QED BY <2>5, <2>6, <2>7, <2>8
<1> QED BY <1>4, <1>5

LEMMA StutterInv ==
  ASSUME StoreInv, UNCHANGED vars
  PROVE  StoreInv'
<1> USE DEF StoreInv, vars, state, loading, flags
<1>1. TypeOK'
  BY DEF TypeOK
<1>2. InFlight'
  BY DEF InFlight
<1>3. Fresh'
  BY DEF Fresh
<1>4. Ordered'
  BY DEF Ordered
<1> QED BY <1>1, <1>2, <1>3, <1>4

-----------------------------------------------------------------------------
(***************************************************************************)
(* The theorems.                                                           *)
(***************************************************************************)
LEMMA StepInv == StoreInv /\ [Next]_vars => StoreInv'
<1> SUFFICES ASSUME StoreInv, [Next]_vars PROVE StoreInv'
  OBVIOUS
<1> QED BY EditInv, DeleteInv, ClearBeginInv, ClearFinishInv, OtherChangeInv, InitReadInv, InitMergeInv, InitNothingInv,
           InitReplacedInv, InitFinishInv, FlushedInv, ClearedInv, RefuseInv, ReloadInv, StutterInv
        DEF Next

\* The inductive invariant holds in every reachable state of the store.
THEOREM StoreInvariant == Spec => []StoreInv
  BY InitInv, StepInv, PTL DEF Spec

\* Every variable of the conversation store has its type.
THEOREM StoreTypes == Spec => []TypeOK
<1>1. StoreInv => TypeOK
  BY DEF StoreInv
<1> QED BY <1>1, StoreInvariant, PTL

\* Whenever persistence is on and nothing is being written, the database holds
\* the list in memory: the single-flight flush loses no change.
THEOREM AtRestCorrect == Spec => []AtRestStored
<1>1. StoreInv => AtRestStored
  <2> SUFFICES ASSUME StoreInv, ready, writes = <<>>, ~clearing, ~refused PROVE db = mem
    BY DEF AtRestStored
  <2>1. ~flushing
    <3>1. DOMAIN <<>> = {}
      BY SMT
    <3> QED BY <3>1 DEF StoreInv, InFlight
  <2> QED BY <2>1 DEF StoreInv, Fresh
<1> QED BY <1>1, StoreInvariant, PTL

\* The migration from localStorage to IndexedDB keeps every conversation the
\* user did not delete, whatever the page does between its steps.
THEOREM LegacyCorrect == Spec => []LegacyKept
<1>1. StoreInv => LegacyKept
  <2> SUFFICES ASSUME StoreInv, NEW c \in Conversations \ erased
               PROVE  db[c] >= legacy[c] \/ (local # None /\ local[c] >= legacy[c])
    BY DEF LegacyKept
  <2>1. CASE ready
    BY <2>1 DEF StoreInv, Ordered
  <2>2. CASE ~ready /\ pending
    BY <2>2 DEF StoreInv, Ordered
  <2>3. CASE ~ready /\ ~pending
    <3>1. legacy[c] = 0 /\ db[c] \in Nat
      BY <2>3, EmptyType, VersionsAreNumbers DEF StoreInv, Ordered, TypeOK
    <3> QED BY <3>1
  <2> QED BY <2>1, <2>2, <2>3
<1> QED BY <1>1, StoreInvariant, PTL

\* No transaction takes the database back to an older version of a conversation
\* the user did not delete.
THEOREM NeverOlderCorrect == Spec => StoredNeverOlder
<1>1. StoreInv /\ [Next]_vars => [\A c \in Conversations \ erased' : db'[c] >= db[c]]_vars
  <2> SUFFICES ASSUME StoreInv, [Next]_vars, NEW c \in Conversations \ erased'
               PROVE  db'[c] >= db[c]
    OBVIOUS
  <2>1. db[c] \in Nat
    BY VersionsAreNumbers DEF StoreInv, TypeOK
  <2>2. ASSUME writes # <<>>, db' = Head(writes).contents, erased' = erased
        PROVE  db'[c] >= db[c]
    <3>1. 1 \in DOMAIN writes /\ Head(writes) = writes[1]
      BY <2>2, TailFacts DEF StoreInv, TypeOK, Transactions
    <3> QED BY <2>2, <3>1 DEF StoreInv, Ordered
  <2>3. CASE db' = db
    BY <2>1, <2>3
  <2>4. db' = db \/ (writes # <<>> /\ db' = Head(writes).contents /\ erased' = erased)
    BY DEF Next, Edit, Delete, ClearBegin, ClearFinish, OtherChange, InitRead, InitMerge, InitNothing, InitReplaced,
           InitFinish, Flushed, Cleared, Refuse, Reload, Enable, vars
  <2> QED BY <2>2, <2>3, <2>4
<1> QED BY <1>1, StoreInvariant, PTL DEF Spec, StoredNeverOlder

\* Neither loading nor anything else but a reload replaces a conversation in
\* memory by an older version of it.
THEOREM LoadCorrect == Spec => LoadKeepsChanges
<1>1. StoreInv /\ [Next]_vars =>
        [page' # "reading" => \A c \in Conversations \ erased' : mem'[c] >= mem[c]]_vars
  <2> SUFFICES ASSUME StoreInv, [Next]_vars, page' # "reading", NEW c \in Conversations \ erased'
               PROVE  mem'[c] >= mem[c]
    OBVIOUS
  <2>1. mem[c] \in Nat /\ mem \in Contents
    BY VersionsAreNumbers DEF StoreInv, TypeOK
  <2>2. CASE mem' = mem
    BY <2>1, <2>2
  <2>3. CASE \E d \in Conversations : Edit(d)
    <3>1. PICK d \in Conversations : Edit(d)
      BY <2>3
    <3>2. mem' = [mem EXCEPT ![d] = mem[d] + 1]
      BY <3>1 DEF Edit, SetConversations
    <3>3. mem'[c] = IF c = d THEN mem[c] + 1 ELSE mem[c]
      BY <2>1, <3>2 DEF Contents
    <3> QED BY <2>1, <3>3
  <2>4. CASE \E d \in Conversations : Delete(d)
    <3>1. PICK d \in Conversations : Delete(d)
      BY <2>4
    <3>2. mem' = [mem EXCEPT ![d] = 0] /\ c # d
      BY <3>1 DEF Delete, SetConversations
    <3> QED BY <2>1, <3>2 DEF Contents
  <2>5. CASE ClearFinish
    BY <2>5 DEF ClearFinish, StoreInv, InFlight
  <2>6. CASE InitMerge
    BY <2>6, LoadedFacts DEF InitMerge, StoreInv
  <2>7. ~Reload
    BY DEF Reload
  <2>8. CASE ClearBegin \/ OtherChange \/ InitRead \/ InitNothing \/ InitReplaced \/ InitFinish \/ Flushed \/ Cleared \/ Refuse
    BY <2>2, <2>8 DEF ClearBegin, OtherChange, SetConversations, InitRead, InitNothing, InitReplaced, InitFinish, Flushed, Cleared, Refuse,
                      Enable, state
  <2>9. CASE UNCHANGED vars
    BY <2>2, <2>9 DEF vars, state
  <2> QED BY <2>3, <2>4, <2>5, <2>6, <2>7, <2>8, <2>9 DEF Next
<1> QED BY <1>1, StoreInvariant, PTL DEF Spec, LoadKeepsChanges
=============================================================================
