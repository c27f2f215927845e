-------------------------- MODULE ConversationStore --------------------------
(***************************************************************************)
(* How the playground keeps its agent conversations (store.ts): in memory, *)
(* in IndexedDB (db) and, until they are migrated, in localStorage         *)
(* (local).  initStore merges the three when the page is loaded;           *)
(* afterwards every change starts flushAgentConversationsToIndexedDB       *)
(* (single flight).  The page may be reloaded, and IndexedDB may refuse a  *)
(* transaction, at any point.                                              *)
(*                                                                         *)
(* A set of conversations gives each id the version of its last edit       *)
(* (updatedAt), 0 when it is not there.  The store compares arrays by      *)
(* identity; array says whether the array in memory is                     *)
(* lastStoredAgentConversations, the one being written, or a newer one.    *)
(***************************************************************************)
EXTENDS Integers, Sequences

CONSTANTS
    Conversations,
    MaxVersion,  \* bound on the number of edits of a conversation
    MaxReloads,  \* bound on the number of page reloads of a behaviour
    MaxRefusals  \* bound on the number of refused transactions

ASSUME ConversationsAssumption == Conversations # {}
ASSUME ConversationBoundsAssumption ==
    MaxVersion \in Nat \ {0} /\ MaxReloads \in Nat /\ MaxRefusals \in Nat

VARIABLES
    mem,       \* agentConversations in memory
    db,        \* the agentConversations object store
    writes,    \* transactions on it, oldest first: who asked, and the new contents
    local,     \* the conversations in localStorage, None when the key is gone
    pending,   \* agentConversationMigrationPending
    ready,     \* agentConversationPersistenceReady
    queued,    \* agentConversationPersistQueued
    flushing,  \* agentConversationPersistRunning
    array,     \* which array is in memory
    page,      \* where initStore is
    read,      \* initStore's storedAgentConversations
    legacy,    \* initStore's legacyAgentConversations
    migrated,  \* initStore's shouldRewritePersistedLocalState
    clearing,  \* clearData, between its first await and the emptying of memory
    refused,   \* the last flush failed
    erased,    \* ids the user deleted or cleared at some time
    reloads, refusals

state   == <<mem, local, array, queued, flushing, writes, refused>>
loading == <<page, read, legacy, migrated>>
flags   == <<pending, ready>>
vars    == <<state, loading, flags, db, clearing, erased, reloads, refusals>>

Versions == 0 .. MaxVersion
Contents == [Conversations -> Versions]
Empty    == [c \in Conversations |-> 0]
None     == <<>>
Writers  == {"init", "flush", "clear"}

Write(by, contents) == [by |-> by, contents |-> contents]
Awaits(by) == \E i \in DOMAIN writes : writes[i].by = by

\* MUTANT: the second list always wins.
MergeByPosition(old, new) == [c \in Conversations |-> IF new[c] # 0 THEN new[c] ELSE old[c]]

\* mergeAgentConversationsForStorage: the second list wins a tie.
Merge(old, new) == [c \in Conversations |-> IF new[c] # 0 /\ new[c] >= old[c] THEN new[c] ELSE old[c]]

-----------------------------------------------------------------------------
(***************************************************************************)
(* Every assignment to agentConversations.  zustand's persist writes       *)
(* localStorage, where the conversations are only kept while they wait to  *)
(* be migrated (getPersistedState); the subscriber starts or queues a      *)
(* flush.                                                                  *)
(***************************************************************************)
\* MUTANT: the conversations are never written to localStorage.
LocalCopyNone(contents) == None

LocalCopy(contents) == IF pending /\ ~ready THEN contents ELSE None

SetConversations(contents) ==
    /\ mem' = contents
    /\ local' = LocalCopy(contents)
    /\ IF ready /\ ~flushing
       THEN /\ array' = "writing" /\ flushing' = TRUE /\ queued' = FALSE /\ refused' = FALSE
            /\ writes' = Append(writes, Write("flush", contents))
       ELSE array' = "newer" /\ queued' = TRUE /\ UNCHANGED <<flushing, writes, refused>>

\* A conversation is created, renamed, or a round of it changes.  The id of a
\* deleted one is not generated again.
Edit(c) ==
    /\ mem[c] < MaxVersion
    /\ c \in erased => mem[c] # 0
    /\ SetConversations([mem EXCEPT ![c] = @ + 1])
    /\ UNCHANGED <<loading, flags, db, clearing, erased, reloads, refusals>>

\* deleteAgentConversation.
Delete(c) ==
    /\ mem[c] # 0
    /\ SetConversations([mem EXCEPT ![c] = 0])
    /\ erased' = erased \cup {c}
    /\ UNCHANGED <<loading, flags, db, clearing, reloads, refusals>>

\* clearData: dbClearAgentConversations, and later the list in memory.  Bound:
\* it is used once, while there is something the user has not deleted.
ClearBegin ==
    /\ ~clearing /\ erased # Conversations
    /\ clearing' = TRUE
    /\ writes' = Append(writes, Write("clear", Empty))
    /\ erased' = Conversations
    /\ UNCHANGED <<mem, local, array, queued, flushing, refused, loading, flags, db, reloads, refusals>>

ClearFinish ==
    /\ clearing /\ ~Awaits("clear")
    /\ clearing' = FALSE
    /\ SetConversations(Empty)
    /\ UNCHANGED <<loading, flags, db, erased, reloads, refusals>>

\* Any other change of the store notifies the subscriber as well: a list that a
\* refused flush left unwritten is tried again.  (While a list is being written
\* this only repeats the write, which is left out.)
OtherChange ==
    /\ ready /\ ~flushing /\ array # "stored"
    /\ SetConversations(mem)
    /\ UNCHANGED <<loading, flags, db, clearing, erased, reloads, refusals>>

-----------------------------------------------------------------------------
(***************************************************************************)
(* initStore and the flush.                                                *)
(***************************************************************************)
\* storedAgentConversations arrives.
InitRead ==
    /\ page = "reading"
    /\ read' = db
    /\ page' = "merging"
    /\ UNCHANGED <<state, flags, db, legacy, migrated, clearing, erased, reloads, refusals>>

\* MUTANT: what changed in memory since initStore was called is not looked at.
LoadedEarly == Merge(read, legacy)

Loaded == Merge(Merge(read, legacy), mem)

\* The merged list goes to memory and to IndexedDB.  Nothing is flushed yet.
InitMerge ==
    /\ page = "merging" /\ (Loaded # Empty \/ legacy # Empty)
    /\ page' = "replacing"
    /\ mem' = Loaded
    /\ local' = LocalCopy(Loaded)
    /\ array' = "newer" /\ queued' = TRUE
    /\ writes' = Append(writes, Write("init", Loaded))
    /\ UNCHANGED <<flushing, refused, read, legacy, migrated, flags, db, clearing, erased, reloads, refusals>>

\* The rest of the conversation part of initStore, once persistence is on:
\* whatever changed meanwhile is flushed, and awaited.
Enable ==
    /\ ready' = TRUE /\ pending' = FALSE
    /\ migrated' = pending
    /\ IF queued \/ array # "stored"
       THEN /\ page' = "flushing"
            /\ array' = "writing" /\ flushing' = TRUE /\ queued' = FALSE /\ refused' = FALSE
       ELSE page' = "rewriting" /\ UNCHANGED <<array, flushing, queued, refused>>
    /\ UNCHANGED <<mem, read, legacy, clearing, erased, reloads, refusals>>

\* There is nothing to show: setState({agentConversationsLoaded: true}) only.
InitNothing ==
    /\ page = "merging" /\ Loaded = Empty /\ legacy = Empty
    /\ Enable
    /\ local' = LocalCopy(mem)
    /\ writes' = IF queued \/ array # "stored" THEN Append(writes, Write("flush", mem)) ELSE writes
    /\ UNCHANGED db

\* The transaction of initStore is through.
InitReplaced ==
    /\ writes # <<>> /\ Head(writes).by = "init"
    /\ db' = Head(writes).contents
    /\ Enable
    /\ writes' = IF queued \/ array # "stored" THEN Append(Tail(writes), Write("flush", mem)) ELSE Tail(writes)
    /\ UNCHANGED local

\* MUTANT: the loop ends without a look at what changed during the write.
FlushedOnce ==
    /\ writes # <<>> /\ Head(writes).by = "flush"
    /\ db' = Head(writes).contents
    /\ flushing' = FALSE
    /\ array' = IF array = "writing" THEN "stored" ELSE array
    /\ writes' = Tail(writes)
    /\ page' = IF page = "flushing" THEN "rewriting" ELSE page
    /\ UNCHANGED <<mem, local, queued, refused, read, legacy, migrated, flags, clearing, erased, reloads, refusals>>

\* A transaction of the flush is through: once more if anything changed.
Flushed ==
    /\ writes # <<>> /\ Head(writes).by = "flush"
    /\ db' = Head(writes).contents
    /\ IF queued \/ array # "writing"
       THEN /\ array' = "writing" /\ queued' = FALSE
            /\ writes' = Append(Tail(writes), Write("flush", mem))
            /\ UNCHANGED <<flushing, page>>
       ELSE /\ array' = "stored" /\ flushing' = FALSE
            /\ writes' = Tail(writes)
            /\ page' = IF page = "flushing" THEN "rewriting" ELSE page
            /\ UNCHANGED queued
    /\ UNCHANGED <<mem, local, refused, read, legacy, migrated, flags, clearing, erased, reloads, refusals>>

Cleared ==
    /\ writes # <<>> /\ Head(writes).by = "clear"
    /\ db' = Head(writes).contents
    /\ writes' = Tail(writes)
    /\ UNCHANGED <<mem, local, array, queued, flushing, refused, loading, flags, clearing, erased, reloads, refusals>>

\* MUTANT: the migrated conversations are left in localStorage.
InitFinishKept ==
    /\ page = "rewriting"
    /\ page' = "ready"
    /\ UNCHANGED <<state, read, legacy, migrated, flags, db, clearing, erased, reloads, refusals>>

\* After a migration setState({}) has localStorage written without them, and
\* notifies the subscriber.
InitFinish ==
    /\ page = "rewriting"
    /\ page' = "ready"
    /\ IF migrated /\ array # "stored"
       THEN SetConversations(mem)
       ELSE /\ local' = IF migrated THEN LocalCopy(mem) ELSE local
            /\ UNCHANGED <<mem, array, queued, flushing, writes, refused>>
    /\ UNCHANGED <<read, legacy, migrated, flags, db, clearing, erased, reloads, refusals>>

\* IndexedDB refuses a transaction: nothing of it is stored.  initStore ends
\* there with persistence still off; a flush ends and the next change tries again.
Refuse ==
    /\ writes # <<>> /\ Head(writes).by # "clear"
    /\ refusals < MaxRefusals
    /\ refusals' = refusals + 1
    /\ writes' = Tail(writes)
    /\ IF Head(writes).by = "init"
       THEN page' = "failed" /\ UNCHANGED <<flushing, array, refused>>
       ELSE /\ flushing' = FALSE /\ array' = "newer" /\ refused' = TRUE
            /\ page' = IF page = "flushing" THEN "failed" ELSE page
    /\ UNCHANGED <<mem, local, queued, read, legacy, migrated, flags, db, clearing, erased, reloads>>

\* MUTANT: localStorage is taken as it is, without a check that the key exists.
HydrateUnchecked(l) == l

\* mergePersistedState.
Hydrate(l) == IF l = None THEN Empty ELSE l

\* The page is loaded again; requests that were not committed are lost.
Reload ==
    /\ reloads < MaxReloads
    /\ reloads' = reloads + 1
    /\ mem' = Hydrate(local) /\ legacy' = Hydrate(local)
    /\ pending' = (Hydrate(local) # Empty) /\ ready' = FALSE
    /\ array' = "stored" /\ queued' = FALSE /\ flushing' = FALSE /\ refused' = FALSE
    /\ writes' = <<>>
    /\ page' = "reading" /\ read' = Empty /\ migrated' = FALSE
    /\ clearing' = FALSE
    /\ UNCHANGED <<db, local, erased, refusals>>

-----------------------------------------------------------------------------
\* The first page after an update from a version that kept the conversations in
\* localStorage, or any later one.
Init ==
    /\ db \in [Conversations -> {0, 1}]
    /\ local \in {None} \cup [Conversations -> {0, 1}]
    /\ mem = Hydrate(local) /\ legacy = Hydrate(local)
    /\ pending = (Hydrate(local) # Empty) /\ ready = FALSE
    /\ array = "stored" /\ queued = FALSE /\ flushing = FALSE /\ refused = FALSE
    /\ writes = <<>>
    /\ page = "reading" /\ read = Empty /\ migrated = FALSE
    /\ clearing = FALSE
    /\ erased = {}
    /\ reloads = 0 /\ refusals = 0

Next ==
    \/ \E c \in Conversations : Edit(c) \/ Delete(c)
    \/ ClearBegin \/ ClearFinish \/ OtherChange
    \/ InitRead \/ InitMerge \/ InitNothing \/ InitReplaced \/ InitFinish
    \/ Flushed \/ Cleared \/ Refuse \/ Reload

Spec == Init /\ [][Next]_vars

-----------------------------------------------------------------------------
\* Every variable has its type.
TypeOK ==
    /\ mem \in Contents /\ db \in Contents /\ read \in Contents /\ legacy \in Contents
    /\ local \in Contents \cup {None}
    /\ writes \in Seq([by : Writers, contents : Contents])
    /\ pending \in BOOLEAN /\ ready \in BOOLEAN /\ queued \in BOOLEAN /\ flushing \in BOOLEAN
    /\ migrated \in BOOLEAN /\ clearing \in BOOLEAN /\ refused \in BOOLEAN
    /\ array \in {"stored", "writing", "newer"}
    /\ page \in {"reading", "merging", "replacing", "flushing", "rewriting", "ready", "failed"}
    /\ erased \subseteq Conversations
    /\ reloads \in 0 .. MaxReloads /\ refusals \in 0 .. MaxRefusals

\* Whenever persistence is on and nothing is being written, the database holds
\* the conversations in memory: no change falls between two turns of the flush
\* loop, between initStore's own write and the first flush, or into the time
\* before persistence was on.  Only a refused flush waits for the next change.
AtRestStored ==
    ready /\ writes = <<>> /\ ~clearing /\ ~refused => db = mem

\* The migration is safe against a reload and against a refused transaction at
\* every point: what localStorage held when the page was loaded is in one of the
\* two durable stores, at that version or a newer one, unless the user deleted
\* it.  (An edit made while initStore writes is not yet as safe: it leaves
\* localStorage with the next change, before the flush has written it.)
LegacyKept ==
    \A c \in Conversations \ erased :
        db[c] >= legacy[c] \/ (local # None /\ local[c] >= legacy[c])

\* The database never goes back to an older version of a conversation the user
\* did not delete, whatever the order of initStore's write and the flushes.
StoredNeverOlder ==
    [][\A c \in Conversations \ erased' : db'[c] >= db[c]]_vars

\* Loading replaces the list in memory, and keeps what the user made while it
\* was loading (the test "keeps agent conversations created while initStore is
\* loading").
LoadKeepsChanges ==
    [][page' # "reading" => \A c \in Conversations \ erased' : mem'[c] >= mem[c]]_vars

-----------------------------------------------------------------------------
(***************************************************************************)
(* Liveness.  Transactions end and continuations run; edits, reloads and   *)
(* refusals are finite.                                                    *)
(***************************************************************************)
Fairness ==
    /\ WF_vars(InitRead) /\ WF_vars(InitMerge \/ InitNothing) /\ WF_vars(InitFinish)
    /\ WF_vars(InitReplaced) /\ WF_vars(Flushed) /\ WF_vars(Cleared) /\ WF_vars(ClearFinish)

FairSpec == Spec /\ Fairness

\* In the end the database holds what is in memory and localStorage nothing of
\* it, unless IndexedDB refused initStore's write or the last flush.
EventuallyMigrated ==
    <>[](page = "failed" \/ refused \/ (page = "ready" /\ db = mem /\ local = None))
=============================================================================
