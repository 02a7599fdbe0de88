------------------------------- MODULE VolumeCache -------------------------------
(***************************************************************************)
(* The daemon's map of volume names to ids, shared by the threads of all   *)
(* its connections, while volumes are removed and made again.              *)
(*                                                                         *)
(* A thread that finds no fresh id asks the database and then stores the   *)
(* answer: two steps, between which others may ask, store, and change the  *)
(* volumes.  Time passes in ticks and a stored id only has an age.         *)
(***************************************************************************)
EXTENDS Naturals, FiniteSets

CONSTANTS
    Threads, Names, Ids,
    TTL,          \* VOLUME_CACHE_TTL, in ticks
    MaxChanges,   \* bound of the model: volumes made and removed
    Existing,     \* the volumes there are at first: names to ids, or NoId
    NoId

ASSUME TTLAssumption == TTL \in Nat \ {0}

ASSUME IdsAssumption == NoId \notin Ids

ASSUME ExistingAssumption ==
    /\ Existing \in [Names -> Ids \cup {NoId}]
    /\ \A n, m \in Names : Existing[n] = Existing[m] => n = m \/ Existing[n] = NoId

VARIABLES
    volumes,   \* the database: names to ids, or NoId
    cache,     \* names to [id, age], age at most TTL
    thread,    \* what each thread is doing: [step, name, id]
    spent,     \* ids that volumes have had
    changes

cacheVars == <<volumes, cache, thread, spent, changes>>

Idle == [step |-> "idle", name |-> NoId, id |-> NoId]

CacheInit ==
    /\ volumes = Existing
    /\ cache = [n \in {} |-> NoId]
    /\ thread = [t \in Threads |-> Idle]
    /\ spent = {Existing[n] : n \in Names} \ {NoId} /\ changes = 0

-----------------------------------------------------------------------------

BrokenCached(n) == {c \in {cache[m] : m \in DOMAIN cache} : c.age < TTL}

\* The stored id of n, if it is fresh.
Cached(n) == {c \in {cache[m] : m \in DOMAIN cache \cap {n}} : c.age < TTL}

Does(t, r) == thread' = [thread EXCEPT ![t] = r]

\* A request under name n: what the map says, or else a query.
Request(t, n) ==
    /\ thread[t].step = "idle"
    /\ IF Cached(n) = {} THEN Does(t, [step |-> "query", name |-> n, id |-> NoId])
       ELSE \E c \in Cached(n) : Does(t, [step |-> "run", name |-> n, id |-> c.id])
    /\ UNCHANGED <<volumes, cache, spent, changes>>

Query(t) ==
    /\ thread[t].step = "query"
    /\ LET id == volumes[thread[t].name]
       IN Does(t, IF id = NoId THEN Idle ELSE [thread[t] EXCEPT !.step = "store", !.id = id])
    /\ UNCHANGED <<volumes, cache, spent, changes>>

StoreId(t) ==
    /\ thread[t].step = "store"
    /\ LET r == thread[t]
       IN /\ cache' = [m \in DOMAIN cache \cup {r.name} |->
                          IF m = r.name THEN [id |-> r.id, age |-> 0] ELSE cache[m]]
          /\ Does(t, [r EXCEPT !.step = "run"])
    /\ UNCHANGED <<volumes, spent, changes>>

\* The operation runs in the volume with the id it has.
Run(t) ==
    /\ thread[t].step = "run"
    /\ Does(t, Idle)
    /\ UNCHANGED <<volumes, cache, spent, changes>>

BrokenOlder(age) == age

Older(age) == IF age < TTL THEN age + 1 ELSE age

Tick ==
    /\ cache' = [m \in DOMAIN cache |-> [cache[m] EXCEPT !.age = Older(@)]]
    /\ UNCHANGED <<volumes, thread, spent, changes>>

Changes == changes < MaxChanges /\ changes' = changes + 1 /\ UNCHANGED <<cache, thread>>

\* create_volume: names are unique, ids are random.
Create(n) ==
    /\ Changes /\ volumes[n] = NoId
    /\ \E id \in Ids \ spent : volumes' = [volumes EXCEPT ![n] = id] /\ spent' = spent \cup {id}

RemoveVolume(n) ==
    /\ Changes /\ volumes[n] # NoId
    /\ volumes' = [volumes EXCEPT ![n] = NoId] /\ UNCHANGED spent

Serves(t) == Query(t) \/ StoreId(t) \/ Run(t)

CacheNext ==
    \/ \E t \in Threads : Serves(t) \/ \E n \in Names : Request(t, n)
    \/ Tick
    \/ \E n \in Names : Create(n) \/ RemoveVolume(n)

\* Time passes, and a thread that serves a request goes on.
CacheFairness == WF_cacheVars(Tick) /\ \A t \in Threads : WF_cacheVars(Serves(t))

CacheSpec == CacheInit /\ [][CacheNext]_cacheVars /\ CacheFairness

-----------------------------------------------------------------------------

\* A request under a name runs in a volume of that name or, when its id is
\* stale, in none: never in another volume that exists (resolve_volume).
RunsInItsVolume ==
    \A t \in Threads : thread[t].step = "run" =>
        \A n \in Names : volumes[n] = thread[t].id => n = thread[t].name

\* Once volumes are no longer made or removed, stale ids die out, also those
\* that slow threads store late, one after the other: from some time on every
\* request runs in the volume that has its name now (VOLUME_CACHE_TTL).
Settles ==
    <>[](\A t \in Threads : thread[t].step = "run" => thread[t].id = volumes[thread[t].name])

=============================================================================
