------------------------------ MODULE DaemonProofs ------------------------------
(***************************************************************************)
(* Theorems about the life of pgosd, for any number of processes, threads, *)
(* names and ids, started and killed at any moments.                       *)
(***************************************************************************)
EXTENDS Daemon, TLAPS

(***************************************************************************)
(* The strengthening for the socket.  Two processes that start at the same *)
(* time may act on what no longer holds, and nothing is known of them, the *)
(* crossed ones.  A process that starts alone knows the file, and once it  *)
(* has bound it nobody gets as far as removing it: who starts later finds  *)
(* that it answers, however many start over one another.                   *)
(***************************************************************************)
Steps == {"off", "stat", "connect", "remove", "bind", "bound", "listening", "serving",
          "failed", "dead"}

PathTypeOK ==
    /\ at \in [Daemons -> Steps]
    /\ file \in Daemons \cup {None, Stale, Foreign}

\* A process whose start overlaps with no other's is alone on its way.
Alone == \A d \in Starting \ crossed : \A e \in Starting : e = d

\* What such a process knows of the file.
Seen ==
    \A d \in Daemons \ crossed :
        /\ at[d] = "connect" => file \notin {None, Foreign}
        /\ at[d] = "remove" => file \notin {None, Foreign} \cup Listening
        /\ at[d] = "bind" => file = None

\* When it has bound the path, that stays its own and nobody is removing it.
Bound ==
    \A d \in Daemons \ crossed :
        at[d] \in {"bound", "listening", "serving"} =>
            file = d /\ \A e \in Daemons : at[e] # "remove"

\* No process gets past a file that is no socket.
Refused ==
    file = Foreign =>
        \A d \in Daemons : at[d] \notin {"connect", "remove", "bind", "bound", "listening"}

PathInv == PathTypeOK /\ Alone /\ Seen /\ Bound /\ Refused

LEMMA PathInit == StartInit => PathInv
BY LeftAssumption, FileAssumption
   DEF StartInit, PathInv, PathTypeOK, Alone, Seen, Bound, Refused, Steps, Starting

LEMMA MoveTypes ==
    ASSUME PathTypeOK, NEW d \in Daemons, NEW s \in Steps, Moves(d, s)
    PROVE  /\ at' \in [Daemons -> Steps]
           /\ at'[d] = s
           /\ \A e \in Daemons \ {d} : at'[e] = at[e]
           /\ crossed' = crossed
BY DEF PathTypeOK, Moves

\* A process on its way goes one step on, or any process ends, and the file stays.
LEMMA StaysKeeps ==
    ASSUME PathInv, NEW d \in Daemons, NEW s \in Steps, Moves(d, s), file' = file,
           d \in Starting \/ s \in {"dead", "failed"},
           s # "stat",
           s = "connect" => file \notin {None, Foreign},
           s = "remove" => file \notin Listening \cup {Foreign},
           s = "remove" /\ d \notin crossed => file # None,
           s = "bind" => file = None,
           s \in {"bound", "listening"} => file # Foreign,
           s \in {"bound", "listening", "serving"} => at[d] \in {"bound", "listening"}
    PROVE  PathInv'
<1>1. /\ at' \in [Daemons -> Steps] /\ at'[d] = s
      /\ \A e \in Daemons \ {d} : at'[e] = at[e]
      /\ crossed' = crossed
    BY MoveTypes DEF PathInv
<1>2. PathTypeOK'
    BY <1>1 DEF PathInv, PathTypeOK
<1>3. Alone'
    BY <1>1 DEF PathInv, Alone, Starting
<1>4. Refused'
    BY <1>1, FileAssumption DEF PathInv, Refused
<1>5. Bound'
    <2> SUFFICES ASSUME NEW e \in Daemons \ crossed,
                        at'[e] \in {"bound", "listening", "serving"}
                 PROVE  file = e /\ \A f \in Daemons : at'[f] # "remove"
        BY <1>1 DEF Bound
    <2>1. at[e] \in {"bound", "listening", "serving"}
        BY <1>1
    <2>2. file = e /\ \A f \in Daemons : at[f] # "remove"
        BY <2>1 DEF PathInv, Bound
    <2>3. s # "remove"
        <3>1. CASE e = d
            BY <1>1, <3>1
        <3>2. CASE e # d /\ at[e] \in {"listening", "serving"}
            BY <2>2, <3>2 DEF Listening
        <3>3. CASE e # d /\ at[e] = "bound" /\ s = "remove"
            BY <3>3 DEF PathInv, Alone, Starting
        <3> QED
            BY <2>1, <3>1, <3>2, <3>3
    <2> QED
        BY <1>1, <2>2, <2>3
<1>6. Seen'
    <2> SUFFICES ASSUME NEW e \in Daemons \ crossed
                 PROVE  /\ at'[e] = "connect" => file \notin {None, Foreign}
                        /\ at'[e] = "remove" => file \notin {None, Foreign} \cup Listening'
                        /\ at'[e] = "bind" => file = None
        BY <1>1 DEF Seen
    <2>1. CASE e = d
        <3>1. s = "remove" => Listening' \subseteq Listening
            BY <1>1 DEF Listening
        <3> QED
            BY <1>1, <2>1, <3>1
    <2>2. CASE e # d
        <3>1. at'[e] = at[e] /\ (at[e] = "remove" => e \in Starting)
            BY <1>1, <2>2 DEF Starting
        <3>2. at[e] = "remove" => d \notin Starting
            BY <2>2, <3>1 DEF PathInv, Alone
        <3>3. at[e] = "remove" => Listening' \subseteq Listening
            BY <1>1, <3>2 DEF Listening
        <3> QED
            BY <3>1, <3>3 DEF PathInv, Seen
    <2> QED
        BY <2>1, <2>2
<1> QED
    BY <1>2, <1>3, <1>4, <1>5, <1>6 DEF PathInv

\* A process sets out, alone or beside others that are then all crossed.
LEMMA SetsOutKeeps ==
    ASSUME PathInv, NEW d \in Daemons, SetsOut(d)
    PROVE  PathInv'
<1>1. /\ at' \in [Daemons -> Steps] /\ at'[d] = "stat" /\ file' = file
      /\ \A e \in Daemons \ {d} : at'[e] = at[e]
      /\ at[d] = "off"
    BY DEF SetsOut, PathInv, PathTypeOK, Steps
<1>2. crossed \subseteq crossed'
    BY DEF SetsOut
<1>3. PathTypeOK'
    BY <1>1 DEF PathInv, PathTypeOK
<1>4. Starting' = Starting \cup {d} /\ Listening' = Listening
    BY <1>1 DEF Starting, Listening
<1>5. Alone'
    <2>1. CASE Starting = {}
        BY <1>4, <2>1 DEF Alone
    <2>2. CASE Starting # {}
        <3>1. crossed' = crossed \cup Starting \cup {d}
            BY <2>2 DEF SetsOut
        <3> QED
            BY <1>4, <3>1 DEF Alone
    <2> QED
        BY <2>1, <2>2
<1>6. Seen'
    BY <1>1, <1>2, <1>4 DEF PathInv, Seen
<1>7. Bound' /\ Refused'
    BY <1>1, <1>2 DEF PathInv, Bound, Refused
<1> QED
    BY <1>3, <1>5, <1>6, <1>7 DEF PathInv

\* A process takes the file away, or makes it: then nobody that started alone
\* has bound it, and who starts alone is that process.
LEMMA FileKeeps ==
    ASSUME PathInv, NEW d \in Daemons,
           \/ at[d] = "remove" /\ Moves(d, "bind") /\ file' = None
           \/ at[d] = "bind" /\ Moves(d, "bound") /\ file = None /\ file' = d
    PROVE  PathInv'
<1>1. PICK s \in {"bind", "bound"} :
        /\ at' \in [Daemons -> Steps] /\ at'[d] = s
        /\ \A e \in Daemons \ {d} : at'[e] = at[e]
        /\ crossed' = crossed
        /\ file' = IF s = "bind" THEN None ELSE d
    BY MoveTypes DEF PathInv, Steps
<1>2. d \in Starting
    BY DEF Starting
<1>3. \A e \in Daemons \ crossed : at[e] \notin {"bound", "listening", "serving"}
    BY FileAssumption DEF PathInv, Bound
<1>4. \A e \in Daemons \ crossed : e # d => e \notin Starting
    BY <1>2 DEF PathInv, Alone
<1>5. \A e \in Daemons \ crossed : e # d =>
        at'[e] \notin {"connect", "remove", "bind", "bound", "listening", "serving"}
    BY <1>1, <1>3, <1>4 DEF Starting
<1>6. PathTypeOK' /\ Refused'
    BY <1>1, FileAssumption DEF PathTypeOK, Refused
<1>7. Alone'
    BY <1>1, <1>2 DEF PathInv, Alone, Starting
<1>8. Seen'
    BY <1>1, <1>5 DEF Seen
<1>9. Bound'
    <2> SUFFICES ASSUME NEW e \in Daemons \ crossed,
                        at'[e] \in {"bound", "listening", "serving"}
                 PROVE  file' = e /\ \A f \in Daemons : at'[f] # "remove"
        BY <1>1 DEF Bound
    <2>1. e = d /\ s = "bound"
        BY <1>1, <1>5
    <2>2. \A f \in Starting : f = d
        BY <1>2, <2>1 DEF PathInv, Alone
    <2> QED
        BY <1>1, <2>1, <2>2 DEF Starting
<1> QED
    BY <1>6, <1>7, <1>8, <1>9 DEF PathInv

LEMMA StopKeeps == PathInv /\ Stop => PathInv'
<1> SUFFICES ASSUME PathInv, Stop PROVE PathInv'
    OBVIOUS
<1>1. /\ at' \in [Daemons -> Steps] /\ file' = file
      /\ \A d \in Daemons : at'[d] = IF d \in Alive THEN "dead" ELSE at[d]
    BY DEF PathInv, PathTypeOK, Stop, Steps
<1>2. \A d \in Daemons :
        at'[d] \notin {"stat", "connect", "remove", "bind", "bound", "listening", "serving"}
    BY <1>1 DEF Alive, Starting, Listening
<1> QED
    BY <1>1, <1>2 DEF PathInv, PathTypeOK, Alone, Seen, Bound, Refused, Starting

LEMMA StartsKeeps ==
    ASSUME PathInv, NEW d \in Daemons, Starts(d)
    PROVE  PathInv'
<1>1. CASE Stat(d)
    <2>1. d \in Starting
        BY <1>1 DEF Stat, Starting
    <2>2. CASE file = None
        <3>1. Moves(d, "bind") /\ file' = file
            BY <1>1, <2>2, FileAssumption DEF Stat
        <3> QED
            BY <2>1, <2>2, <3>1, StaysKeeps DEF Steps
    <2>3. CASE file = Foreign
        <3>1. Moves(d, "failed") /\ file' = file
            BY <1>1, <2>3, FileAssumption DEF Stat
        <3> QED
            BY <2>1, <2>3, <3>1, StaysKeeps DEF Steps
    <2>4. CASE file \notin {None, Foreign}
        <3>1. Moves(d, "connect") /\ file' = file
            BY <1>1, <2>4 DEF Stat
        <3> QED
            BY <2>1, <2>4, <3>1, StaysKeeps DEF Steps
    <2> QED
        BY <2>2, <2>3, <2>4
<1>2. CASE Connect(d)
    <2>1. d \in Starting /\ file # Foreign /\ file' = file
        BY <1>2 DEF Connect, Starting, PathInv, Refused
    <2>2. CASE Answers
        <3>1. Moves(d, "failed")
            BY <1>2, <2>2 DEF Connect
        <3> QED
            BY <2>1, <3>1, StaysKeeps DEF Steps
    <2>3. CASE ~Answers
        <3>1. Moves(d, "remove") /\ file \notin Listening
            BY <1>2, <2>3 DEF Connect, Answers
        <3>2. d \notin crossed => file # None
            BY <1>2 DEF Connect, PathInv, Seen
        <3> QED
            BY <2>1, <3>1, <3>2, StaysKeeps DEF Steps
    <2> QED
        BY <2>2, <2>3
<1>3. CASE Remove(d)
    <2>1. CASE file = None
        <3>1. Moves(d, "failed") /\ file' = file
            BY <1>3, <2>1 DEF Remove
        <3> QED
            BY <3>1, StaysKeeps DEF Steps
    <2>2. CASE file # None
        BY <1>3, <2>2, FileKeeps DEF Remove, Without
    <2> QED
        BY <2>1, <2>2
<1>4. CASE Bind(d)
    <2>1. CASE file # None
        <3>1. Moves(d, "failed") /\ file' = file
            BY <1>4, <2>1 DEF Bind
        <3> QED
            BY <3>1, StaysKeeps DEF Steps
    <2>2. CASE file = None
        BY <1>4, <2>2, FileKeeps DEF Bind
    <2> QED
        BY <2>1, <2>2
<1>5. CASE Listen(d)
    <2>1. /\ d \in Starting /\ file # Foreign /\ file' = file
          /\ at[d] = "bound" /\ Moves(d, "listening")
        BY <1>5 DEF Listen, Starting, PathInv, Refused
    <2> QED
        BY <2>1, StaysKeeps DEF Steps
<1>6. CASE Permit(d)
    <2>1. d \in Starting /\ at[d] = "listening" /\ file' = file
        BY <1>6 DEF Permit, Starting
    <2>2. Moves(d, "failed") \/ Moves(d, "serving")
        BY <1>6 DEF Permit
    <2> QED
        BY <2>1, <2>2, StaysKeeps DEF Steps
<1> QED
    BY <1>1, <1>2, <1>3, <1>4, <1>5, <1>6 DEF Starts

LEMMA PathKeeps ==
    ASSUME PathInv, StartNext \/ UNCHANGED startVars
    PROVE  PathInv'
<1>1. CASE \E d \in Daemons : Start(d)
    BY <1>1, SetsOutKeeps DEF Start
<1>2. CASE \E d \in Daemons : Starts(d)
    BY <1>2, StartsKeeps
<1>3. CASE \E d \in Daemons : Crash(d)
    BY <1>3, StaysKeeps DEF Crash, Steps
<1>4. CASE Launch
    BY <1>4, SetsOutKeeps DEF Launch
<1>5. CASE UNCHANGED <<file, at, crossed>>
    BY <1>5 DEF PathInv, PathTypeOK, Alone, Seen, Bound, Refused, Starting, Listening
<1>6. CASE Stop
    BY <1>6, StopKeeps
<1> QED
    BY <1>1, <1>2, <1>3, <1>4, <1>5, <1>6 DEF StartNext, Ready, startVars

-----------------------------------------------------------------------------

\* A step of Daemon is one of Startup or leaves its variables.
LEMMA PathSteps == [Next]_vars => StartNext \/ UNCHANGED startVars
BY DEF Next, Processes, Connections, Environment, vars

\* The invariant of the socket, however many processes start at the same time.
THEOREM PathInvariance == Spec => []PathInv
<1>1. Init => PathInv
    BY PathInit DEF Init
<1>2. PathInv /\ [Next]_vars => PathInv'
    BY PathSteps, PathKeeps
<1> QED
    BY <1>1, <1>2, PTL DEF Spec

\* Clients of the path reach the process that serves if it started alone, whoever
\* starts after it, and over whom.
THEOREM ReachableTheorem == Spec => []Reachable
<1>1. PathInv => Reachable
    BY DEF PathInv, Bound, Reachable
<1> QED
    BY <1>1, PathInvariance, PTL

\* A process that removes a file removes no other than a socket, and never that
\* of a process that listens and has started alone.
THEOREM TakesOnlyStaleTheorem == Spec => TakesOnlyStale
<1> DEFINE Takes == file' # file /\ file # None =>
                        file \notin {Foreign} \cup (Listening \ crossed)
<1>1. ASSUME PathInv, [Next]_vars PROVE [Takes]_startVars
    <2> SUFFICES ASSUME file' # file, file # None
                 PROVE  file \notin {Foreign} \cup (Listening \ crossed)
        OBVIOUS
    <2>1. PICK d \in Daemons : Remove(d)
        BY <1>1, PathSteps DEF StartNext, Start, SetsOut, Starts, Stat, Connect, Bind, Listen,
            Permit, Crash, Launch, Ready, Stop, startVars
    <2>2. at[d] = "remove"
        BY <2>1 DEF Remove
    <2> QED
        BY <1>1, <2>2 DEF PathInv, Bound, Refused, Listening
<1>2. Spec => [][Takes]_startVars
    BY <1>1, PathInvariance, PTL DEF Spec
<1> QED
    BY <1>2 DEF TakesOnlyStale

-----------------------------------------------------------------------------
(***************************************************************************)
(* The strengthening for the map of names.  An id that the map or a thread *)
(* holds once belonged to a volume of that name, and since no id is given  *)
(* out twice it can belong to no other volume now.                         *)
(***************************************************************************)
Belongs(id, n) == id \in spent /\ \A m \in Names : volumes[m] = id => m = n

CacheTypeOK ==
    /\ volumes \in [Names -> Ids \cup {NoId}]
    /\ spent \subseteq Ids
    /\ DOMAIN cache \subseteq Names
    /\ \A n \in DOMAIN cache : cache[n] \in [id : Ids, age : Nat]
    /\ DOMAIN thread = Threads

Given == \A n \in Names : volumes[n] # NoId => Belongs(volumes[n], n)

Stored == \A n \in DOMAIN cache : Belongs(cache[n].id, n)

Holds(r) ==
    /\ r \in [step : {"idle", "query", "store", "run"},
              name : Names \cup {NoId}, id : Ids \cup {NoId}]
    /\ r.step \in {"query", "store", "run"} => r.name \in Names
    /\ r.step \in {"store", "run"} => Belongs(r.id, r.name)

Held == \A t \in Threads : Holds(thread[t])

CacheInv == CacheTypeOK /\ Given /\ Stored /\ Held

LEMMA CacheStart == CacheInit => CacheInv
BY ExistingAssumption
   DEF CacheInit, CacheInv, CacheTypeOK, Given, Stored, Held, Holds, Idle, Belongs

\* A thread goes on, the volumes and the map stay.
LEMMA DoesKeeps ==
    ASSUME CacheInv, NEW t \in Threads, NEW r, Does(t, r), Holds(r),
           UNCHANGED <<volumes, cache, spent>>
    PROVE  CacheInv'
<1>1. \A id, n : Belongs(id, n)' = Belongs(id, n)
    BY DEF Belongs
<1>2. DOMAIN thread' = Threads /\ \A u \in Threads : Holds(thread'[u])
    BY DEF Does, CacheInv, CacheTypeOK, Held
<1>3. Held'
    BY <1>1, <1>2 DEF Held, Holds
<1>4. CacheTypeOK' /\ Given' /\ Stored'
    BY <1>1, <1>2 DEF CacheInv, CacheTypeOK, Given, Stored
<1> QED
    BY <1>3, <1>4 DEF CacheInv

LEMMA ServesKeeps ==
    ASSUME CacheInv, NEW t \in Threads,
           Serves(t) \/ \E n \in Names : Request(t, n)
    PROVE  CacheInv'
<1>0. Holds(thread[t]) /\ Holds(Idle)
    BY DEF CacheInv, Held, Holds, Idle
<1>ids. \A id, n : Belongs(id, n) => id \in Ids
    BY DEF CacheInv, CacheTypeOK, Belongs
<1>1. ASSUME NEW n \in Names, Request(t, n) PROVE CacheInv'
    <2>1. CASE Cached(n) = {}
        <3>1. Does(t, [step |-> "query", name |-> n, id |-> NoId])
            BY <1>1, <2>1 DEF Request
        <3>2. Holds([step |-> "query", name |-> n, id |-> NoId])
            BY DEF Holds
        <3> QED
            BY <1>1, <3>1, <3>2, DoesKeeps DEF Request
    <2>2. CASE Cached(n) # {}
        <3>1. PICK c \in Cached(n) : Does(t, [step |-> "run", name |-> n, id |-> c.id])
            BY <1>1, <2>2 DEF Request
        <3>2. Belongs(c.id, n)
            BY <3>1 DEF Cached, CacheInv, Stored
        <3>3. Holds([step |-> "run", name |-> n, id |-> c.id])
            BY <3>2, <1>ids DEF Holds
        <3> QED
            BY <1>1, <3>1, <3>3, DoesKeeps DEF Request
    <2> QED
        BY <2>1, <2>2
<1>2. CASE Query(t)
    <2> DEFINE id == volumes[thread[t].name]
               r == [thread[t] EXCEPT !.step = "store", !.id = id]
    <2>1. thread[t].step = "query" /\ thread[t].name \in Names
        BY <1>0, <1>2 DEF Query, Holds
    <2>2. CASE id = NoId
        BY <1>0, <1>2, <2>2, DoesKeeps DEF Query
    <2>3. CASE id # NoId
        <3>1. Does(t, r)
            BY <1>2, <2>3 DEF Query
        <3>2. Belongs(id, thread[t].name)
            BY <2>1, <2>3 DEF CacheInv, Given
        <3>3. Holds(r)
            BY <1>0, <1>ids, <2>1, <3>2 DEF Holds
        <3> QED
            BY <1>2, <3>1, <3>3, DoesKeeps DEF Query
    <2> QED
        BY <2>2, <2>3
<1>3. CASE StoreId(t)
    <2> DEFINE r == thread[t]
               s == [r EXCEPT !.step = "run"]
    <2>1. /\ Does(t, s) /\ UNCHANGED <<volumes, spent>>
          /\ cache' = [m \in DOMAIN cache \cup {r.name} |->
                          IF m = r.name THEN [id |-> r.id, age |-> 0] ELSE cache[m]]
        BY <1>3 DEF StoreId
    <2>2. r.step = "store" /\ r.name \in Names /\ Belongs(r.id, r.name)
        BY <1>0, <1>3 DEF StoreId, Holds
    <2>3. \A id, n : Belongs(id, n)' = Belongs(id, n)
        BY <2>1 DEF Belongs
    <2>4. Stored'
        BY <2>1, <2>2, <2>3 DEF Stored, CacheInv
    <2>5. Holds(s)
        BY <1>0, <1>ids, <2>2 DEF Holds
    <2>6. DOMAIN thread' = Threads /\ \A u \in Threads : Holds(thread'[u])
        BY <2>1, <2>5 DEF Does, CacheInv, CacheTypeOK, Held
    <2>7. Held'
        BY <2>3, <2>6 DEF Held, Holds
    <2>8. \A n \in DOMAIN cache' : cache'[n] \in [id : Ids, age : Nat]
        BY <1>ids, <2>1, <2>2 DEF CacheInv, CacheTypeOK
    <2>9. CacheTypeOK' /\ Given'
        BY <2>1, <2>2, <2>3, <2>6, <2>8 DEF CacheInv, CacheTypeOK, Given
    <2> QED
        BY <2>4, <2>7, <2>9 DEF CacheInv
<1>4. CASE Run(t)
    BY <1>0, <1>4, DoesKeeps DEF Run
<1> QED
    BY <1>1, <1>2, <1>3, <1>4 DEF Serves

\* Volumes are made with ids that none has had, and removed.
LEMMA VolumesKeep ==
    ASSUME CacheInv, NEW n \in Names, Create(n) \/ RemoveVolume(n)
    PROVE  CacheInv'
<1>1. CASE Create(n)
    <2>1. PICK id \in Ids \ spent :
            /\ volumes' = [volumes EXCEPT ![n] = id] /\ spent' = spent \cup {id}
            /\ UNCHANGED <<cache, thread>>
        BY <1>1 DEF Create, Changes
    <2>2. \A i, m : Belongs(i, m) => Belongs(i, m)'
        BY <2>1 DEF Belongs, CacheInv, CacheTypeOK
    <2>3. Belongs(id, n)'
        <3>1. /\ volumes'[n] = id /\ id \in spent'
              /\ \A m \in Names \ {n} : volumes'[m] = volumes[m]
            BY <2>1 DEF CacheInv, CacheTypeOK
        <3>2. \A m \in Names : volumes[m] # id
            BY IdsAssumption DEF CacheInv, CacheTypeOK, Given, Belongs
        <3> QED
            BY <3>1, <3>2 DEF Belongs
    <2>4. CacheTypeOK'
        BY <2>1 DEF CacheInv, CacheTypeOK
    <2>5. Given'
        BY <2>1, <2>2, <2>3 DEF CacheInv, CacheTypeOK, Given
    <2>6. Stored' /\ Held'
        BY <2>1, <2>2 DEF CacheInv, Stored, Held, Holds
    <2> QED
        BY <2>4, <2>5, <2>6 DEF CacheInv
<1>2. CASE RemoveVolume(n)
    <2>1. /\ volumes' = [volumes EXCEPT ![n] = NoId]
          /\ UNCHANGED <<spent, cache, thread>>
        BY <1>2 DEF RemoveVolume, Changes
    <2>2. \A i, m : Belongs(i, m) => Belongs(i, m)'
        BY <2>1, IdsAssumption DEF Belongs, CacheInv, CacheTypeOK
    <2>3. CacheTypeOK'
        BY <2>1 DEF CacheInv, CacheTypeOK
    <2>4. Given'
        BY <2>1, <2>2 DEF CacheInv, CacheTypeOK, Given
    <2>5. Stored' /\ Held'
        BY <2>1, <2>2 DEF CacheInv, Stored, Held, Holds
    <2> QED
        BY <2>3, <2>4, <2>5 DEF CacheInv
<1> QED
    BY <1>1, <1>2

LEMMA TickKeeps == CacheInv /\ Tick => CacheInv'
<1> SUFFICES ASSUME CacheInv, Tick PROVE CacheInv'
    OBVIOUS
<1>1. /\ UNCHANGED <<volumes, thread, spent>>
      /\ DOMAIN cache' = DOMAIN cache
    BY DEF Tick
<1>2. \A n \in DOMAIN cache : cache'[n].id = cache[n].id
    BY DEF Tick, CacheInv, CacheTypeOK
<1>ages. \A n \in DOMAIN cache : cache'[n] \in [id : Ids, age : Nat]
    BY TTLAssumption DEF Tick, Older, CacheInv, CacheTypeOK
<1>3. \A id, n : Belongs(id, n)' = Belongs(id, n)
    BY <1>1 DEF Belongs
<1> QED
    BY <1>1, <1>2, <1>ages, <1>3 DEF CacheInv, CacheTypeOK, Given, Stored, Held, Holds

LEMMA ForgetsKeeps ==
    ASSUME CacheInv, Forgets \/ UNCHANGED <<cache, thread>>, UNCHANGED <<volumes, spent>>
    PROVE  CacheInv'
<1>1. \A id, n : Belongs(id, n)' = Belongs(id, n)
    BY DEF Belongs
<1>2. CASE Forgets
    BY <1>1, <1>2 DEF Forgets, CacheInv, CacheTypeOK, Given, Stored, Held, Holds, Idle
<1>3. CASE UNCHANGED <<cache, thread>>
    BY <1>1, <1>3 DEF CacheInv, CacheTypeOK, Given, Stored, Held, Holds
<1> QED
    BY <1>2, <1>3

\* The invariant of the map of names, across the deaths of the process that holds it.
THEOREM CacheInvariance == Spec => []CacheInv
<1>1. Init => CacheInv
    BY CacheStart DEF Init
<1>2. ASSUME CacheInv, [Next]_vars PROVE CacheInv'
    <2>1. CASE Processes
        BY <1>2, <2>1, ForgetsKeeps DEF Processes
    <2>2. CASE Connections
        BY <1>2, <2>2, ServesKeeps DEF Connections
    <2>3. CASE Environment
        BY <1>2, <2>3, TickKeeps, VolumesKeep DEF Environment
    <2>4. CASE UNCHANGED vars
        BY <1>2, <2>4, ForgetsKeeps DEF vars, cacheVars
    <2> QED
        BY <1>2, <2>1, <2>2, <2>3, <2>4 DEF Next
<1> QED
    BY <1>1, <1>2, PTL DEF Spec

\* A request never runs in a volume that exists under another name.
THEOREM RunsInItsVolumeTheorem == Spec => []RunsInItsVolume
<1>1. CacheInv => RunsInItsVolume
    BY DEF CacheInv, Held, Holds, Belongs, RunsInItsVolume
<1> QED
    BY <1>1, CacheInvariance, PTL

=============================================================================
