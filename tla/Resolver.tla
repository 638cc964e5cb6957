------------------------------ MODULE Resolver ------------------------------
(***************************************************************************)
(* The resolvers of balancer/zrpc/resolver/internal, which feed a client   *)
(* connection with the addresses of a service. The scheme of the target    *)
(* chooses one:                                                            *)
(*   direct  the addresses stand in the target;                            *)
(*   discov  (and etcd) a subscriber holds the values under a key, and one *)
(*           goroutine applies each change and calls the listener;         *)
(*   k8s     the endpoints are fetched once by Build, and an informer, in  *)
(*           goroutines of its own, tells an EventHandler of the changes.  *)
(*                                                                         *)
(* The service's own lists are a sequence of versions. Build and the       *)
(* goroutines run concurrently; a call of a method of EventHandler is one  *)
(* step, since the lock is held until the connection has been told.        *)
(***************************************************************************)
EXTENDS Naturals, Sequences, FiniteSets

CONSTANTS
  Ip,          \* the addresses a service may have
  SubsetSize,  \* how many of them a connection uses
  Schemes,     \* the schemes of targets
  MaxVersions  \* bound: the number of versions the service goes through

ASSUME ResolverAssumption ==
  /\ IsFiniteSet(Ip)
  /\ SubsetSize \in Nat
  /\ Schemes \subseteq {"direct", "discov", "k8s"}
  /\ MaxVersions \in Nat

VARIABLES
  scheme,     \* the scheme of the target
  log,        \* the versions of the service
  build,      \* where Build is
  start,      \* history: the oldest version that a look of this Build, or of
              \* what it starts, may still find
  held,       \* the version Build has read and will hand on, 0 for none
  listening,  \* discov: "yes" when the listener is registered
  seen,       \* the version in the cache of the informer or the subscriber
  watcher,    \* discov: "idle", or "show" while it holds the values it read
  endpoints,  \* k8s: the endpoints of the EventHandler
  published,  \* the addresses of the last UpdateState
  raced,      \* history: "yes" after a version was merged with another one or
              \* put over a newer one, a removal was missed, or two shuffles
              \* of one slice overlapped
  base        \* history: the oldest version published may come from

vars == <<scheme, log, build, start, held, listening, seen, watcher, endpoints,
          published, raced, base>>

\* The addresses of a service at one time; with k8s, there may be no Endpoints
\* object of its name.
NoObject == [object |-> "no", ips |-> {}]
Lists == [object : {"yes"}, ips : SUBSET Ip]
           \cup (IF scheme = "k8s" THEN {NoObject} ELSE {})

Ips(v) == log[v].ips
Newest == Len(log)

Init ==
  /\ scheme \in Schemes
  /\ log \in [{1} -> Lists]
  /\ build = "start"
  /\ start = 1 /\ held = 0
  /\ listening = "no"
  /\ seen = 0
  /\ watcher = "idle"
  /\ endpoints = {} /\ published = {}
  /\ raced = "no" /\ base = 1

-----------------------------------------------------------------------------
(* Telling the connection.                                                 *)

\* Variant for a mutation run: one address too many.
SubsetsLarge(set) ==
  {s \in SUBSET set :
     Cardinality(s) = IF Cardinality(set) <= SubsetSize + 1 THEN Cardinality(set)
                      ELSE SubsetSize + 1}

\* subset shuffles and cuts: any SubsetSize of them, or all if they are fewer.
Subsets(set) ==
  {s \in SUBSET set :
     Cardinality(s) = IF Cardinality(set) <= SubsetSize THEN Cardinality(set)
                      ELSE SubsetSize}

Publish(set) == published' \in Subsets(set)

\* discov: Build and the subscriber's goroutine may both be about to shuffle the
\* slice that Values returns to either of them, for it is the subscriber's own.
ShareSlice == build = "show" /\ watcher = "show" /\ held = seen

\* If they overlap, addresses get lost and others stand in their place; the slice
\* stays so until the next change.
PublishTorn(set) ==
  /\ ShareSlice
  /\ published' \in {s \in SUBSET set : /\ Cardinality(s) <= SubsetSize
                                        /\ s = {} => {} \in Subsets(set)}

-----------------------------------------------------------------------------
(* Build.                                                                  *)

BuildGoes(from, to) == build = from /\ build' = to

\* direct: an empty list is an error of UpdateState, and of Build.
BuildDirect ==
  /\ scheme = "direct"
  /\ Publish(Ips(1))
  /\ BuildGoes("start", IF Ips(1) = {} THEN "failed" ELSE "built")
  /\ UNCHANGED <<scheme, log, start, held, listening, seen, watcher, endpoints,
                 raced, base>>

\* discov: the subscriber loads the values under the key, or cannot.
NewSubscriber ==
  /\ scheme = "discov"
  /\ start' = Newest /\ base' = Newest
  /\ \/ BuildGoes("start", "listen") /\ seen' = Newest
     \/ BuildGoes("start", "failed") /\ UNCHANGED seen
  /\ UNCHANGED <<scheme, log, held, listening, watcher, endpoints, published,
                 raced>>

\* Variant for a mutation run: the first update is made before the listener is
\* registered, and the registration forgotten.
AddListenerNever ==
  /\ BuildGoes("listen", "values")
  /\ UNCHANGED <<scheme, log, start, held, listening, seen, watcher, endpoints,
                 published, raced, base>>

AddListener ==
  /\ BuildGoes("listen", "values")
  /\ listening' = "yes"
  /\ UNCHANGED <<scheme, log, start, held, seen, watcher, endpoints, published,
                 raced, base>>

\* The first update of Build, which reads the values
UpdateReads ==
  /\ BuildGoes("values", "show")
  /\ held' = seen
  /\ UNCHANGED <<scheme, log, start, listening, seen, watcher, endpoints,
                 published, raced, base>>

\* and tells the connection.
UpdateShows ==
  /\ BuildGoes("show", "built")
  /\ \/ /\ Publish(Ips(held))
        /\ raced' = IF held # seen THEN IF watcher = "idle" THEN "yes" ELSE "no"
                    ELSE raced
     \/ PublishTorn(Ips(held)) /\ raced' = "yes"
  /\ base' = held
  /\ UNCHANGED <<scheme, log, start, held, listening, seen, watcher, endpoints>>

\* k8s: a target that cannot be parsed, or no access to the cluster; else the
\* goroutine of the informer is started. Its first list may come from a cache of
\* the cluster that is behind.
StartInformer ==
  /\ scheme = "k8s"
  /\ \E v \in 1 .. Newest : start' = v /\ base' = v
  /\ BuildGoes("start", "get") \/ BuildGoes("start", "refused")
  /\ UNCHANGED <<scheme, log, held, listening, seen, watcher, endpoints,
                 published, raced>>

\* Variant for a mutation run: the version is counted from one too many.
GetCountsOn ==
  /\ \/ BuildGoes("get", "failed") /\ UNCHANGED held
     \/ /\ log[Newest] # NoObject
        /\ BuildGoes("get", "update")
        /\ held' = Newest + 1
  /\ UNCHANGED <<scheme, log, start, listening, seen, watcher, endpoints,
                 published, raced, base>>

\* When there is no such object, or the request fails, Build returns the error;
\* the informer goes on.
Get ==
  /\ \/ BuildGoes("get", "failed") /\ UNCHANGED held
     \/ /\ log[Newest] # NoObject
        /\ BuildGoes("get", "update")
        /\ held' = Newest
  /\ UNCHANGED <<scheme, log, start, listening, seen, watcher, endpoints,
                 published, raced, base>>

-----------------------------------------------------------------------------
(* EventHandler.                                                           *)

\* Variant for a mutation run: the sizes are all that is compared.
DiffSizes(o, n) == Cardinality(o) # Cardinality(n)

Diff(o, n) ==
  \/ Cardinality(o) # Cardinality(n)
  \/ \E k \in o : k \notin n

SetEndpoints(new) ==
  /\ endpoints' = new
  /\ IF Diff(endpoints, new) THEN Publish(new) ELSE UNCHANGED published

OnAdd(v) == SetEndpoints(endpoints \cup Ips(v))

\* Variant for a mutation run: nothing is removed.
OnDeleteNothing(v) == SetEndpoints(endpoints)

OnDelete(v) == SetEndpoints(endpoints \ Ips(v))

\* Variant for a mutation run: the old endpoints are kept.
UpdateMerges(v) == SetEndpoints(endpoints \cup Ips(v))

\* Update, and OnUpdate of two versions that differ.
Update(v) == SetEndpoints(Ips(v))

\* Build hands the fetched endpoints to the handler, which may know better.
BuildUpdate ==
  /\ BuildGoes("update", "built")
  /\ Update(held)
  /\ base' = held
  /\ raced' = IF seen \in {0, held} THEN "no" ELSE "yes"
  /\ UNCHANGED <<scheme, log, start, held, listening, seen, watcher>>

-----------------------------------------------------------------------------
(* The informer. It tells the handler of the differences between the       *)
(* versions it sees; a version passed on a second time (the resync) changes *)
(* nothing, as OnUpdate returns when the resource versions are the same.   *)

InformerRuns == scheme = "k8s" /\ build \in {"get", "update", "built", "failed"}

Informed(w) ==
  /\ InformerRuns
  /\ seen' = w
  /\ UNCHANGED <<scheme, log, build, start, held, listening, watcher>>

\* The oldest version in the handler when w is added.
OldestWith(w) == IF endpoints = {} \/ w < base THEN w ELSE base

\* The first list: Build may have handed on another version already, an older or,
\* as the list may come from a cache, a newer one.
InformerLists(w) ==
  /\ seen = 0 /\ w \in start .. Newest
  /\ Informed(w)
  /\ IF log[w] = NoObject THEN UNCHANGED <<endpoints, published>> ELSE OnAdd(w)
  /\ base' = OldestWith(w)
  /\ raced' = IF build = "built" /\ held # w THEN "yes" ELSE "no"

\* From here on the informer follows the changes one by one, or lists anew after
\* it has lost its connection and so passes over some.
Follows(w) == seen # 0 /\ w \in seen + 1 .. Newest

InformerAdds(w) ==
  /\ Follows(w) /\ log[seen] = NoObject /\ log[w] # NoObject
  /\ Informed(w)
  /\ OnAdd(w)
  /\ base' = OldestWith(w)
  /\ UNCHANGED raced

InformerUpdates(w) ==
  /\ Follows(w) /\ log[seen] # NoObject /\ log[w] # NoObject
  /\ Informed(w)
  /\ Update(w)
  /\ base' = w
  /\ raced' = "no"

\* The watch delivers the object with its last state.
InformerDeletes(w) ==
  /\ Follows(w) /\ log[seen] # NoObject /\ log[w] = NoObject
  /\ w = seen + 1
  /\ Informed(w)
  /\ OnDelete(seen)
  /\ base' = IF endpoints' = {} THEN w ELSE base
  /\ UNCHANGED raced

\* A list that lacks the object is delivered to OnDelete as a tombstone, a
\* DeletedFinalStateUnknown, which OnDelete logs and drops.
InformerMissesDelete(w) ==
  /\ Follows(w) /\ log[seen] # NoObject /\ log[w] = NoObject
  /\ Informed(w)
  /\ raced' = "yes"
  /\ UNCHANGED <<endpoints, published, base>>

\* Deleted, recreated and deleted while the connection was lost.
InformerSeesNothing(w) ==
  /\ Follows(w) /\ log[seen] = NoObject /\ log[w] = NoObject
  /\ Informed(w)
  /\ UNCHANGED <<endpoints, published, raced, base>>

InformerStep(w) ==
  \/ InformerLists(w) \/ InformerAdds(w) \/ InformerUpdates(w)
  \/ InformerDeletes(w) \/ InformerMissesDelete(w) \/ InformerSeesNothing(w)

-----------------------------------------------------------------------------
(* The subscriber's goroutine: it applies a change to the values and calls *)
(* the listener, which reads the values and tells the connection.          *)

WatcherApplies(w) ==
  /\ scheme = "discov" /\ seen # 0 /\ watcher = "idle"
  /\ w \in seen + 1 .. Newest
  /\ seen' = w
  /\ watcher' = IF listening = "yes" THEN "show" ELSE "idle"
  /\ raced' = IF build = "built" THEN "no" ELSE raced
  /\ UNCHANGED <<scheme, log, build, start, held, listening, endpoints,
                 published, base>>

WatcherShows ==
  /\ watcher = "show"
  /\ watcher' = "idle"
  /\ \/ Publish(Ips(seen)) /\ UNCHANGED raced
     \/ PublishTorn(Ips(seen)) /\ raced' = "yes"
  /\ base' = seen
  /\ UNCHANGED <<scheme, log, build, start, held, listening, seen, endpoints>>

-----------------------------------------------------------------------------
ServiceChanges ==
  /\ scheme # "direct" /\ Newest < MaxVersions
  /\ \E list \in Lists \ {log[Newest]} : log' = Append(log, list)
  /\ UNCHANGED <<scheme, build, start, held, listening, seen, watcher,
                 endpoints, published, raced, base>>

BuildStep ==
  \/ BuildDirect
  \/ NewSubscriber \/ AddListener \/ UpdateReads \/ UpdateShows
  \/ StartInformer \/ Get \/ BuildUpdate

Next ==
  \/ BuildStep
  \/ \E w \in 1 .. Newest : InformerStep(w) \/ WatcherApplies(w)
  \/ WatcherShows
  \/ ServiceChanges

Spec == Init /\ [][Next]_vars

\* Goroutines are scheduled, and the informer and the subscriber are told in the
\* end of what has changed. The service need not change.
Fairness ==
  /\ WF_vars(BuildStep)
  /\ WF_vars(\E w \in 1 .. Newest : InformerStep(w) \/ WatcherApplies(w))
  /\ WF_vars(WatcherShows)

FairSpec == Spec /\ Fairness

-----------------------------------------------------------------------------
(* Properties.                                                             *)

Versions == 0 .. Newest

\* Type invariant of the service, Build, the caches and the connection.
TypeOK ==
  /\ scheme \in Schemes
  /\ log \in Seq(Lists) /\ Newest >= 1
  /\ build \in {"start", "listen", "values", "show", "get", "update", "built",
                "failed", "refused"}
  /\ start \in 1 .. Newest /\ base \in 1 .. Newest
  /\ held \in Versions /\ seen \in Versions
  /\ listening \in {"yes", "no"}
  /\ watcher \in {"idle", "show"}
  /\ endpoints \subseteq Ip /\ published \subseteq Ip
  /\ raced \in {"yes", "no"}

\* The handler has what the informer has, in spite of two goroutines feeding it,
\* except after one of three races: the endpoints Build fetched came on top of a
\* newer version, the first list was added to them, or a removal arrived as a
\* tombstone. The next version that comes through OnUpdate repairs each of them;
\* a re-creation of the object comes through OnAdd, which merges, and does not.
MirrorsInformer ==
  scheme = "k8s" /\ seen # 0 /\ raced = "no" => endpoints = Ips(seen)

\* The connection works with a full choice from what the handler has: no change
\* that matters goes unnoticed and none is told twice in different words.
PublishedFollows == scheme = "k8s" => published \in Subsets(endpoints)

\* With a subscriber, once Build and the listener are done, the connection has
\* the newest values the subscriber knows, unless the first update of Build was
\* overtaken by the listener and overwrote it, or the two shuffled one slice at
\* the same time.
LatestUnlessOvertaken ==
  scheme = "discov" /\ build = "built" /\ watcher = "idle" /\ raced = "no"
    => published \in Subsets(Ips(seen))

\* When the service stops changing, the connection ends up with its addresses,
\* and stays there; the races above are the only way to miss it. A failed Build
\* of the k8s scheme is no exception, for its informer was not stopped.
EventuallyCurrent ==
  <>[](\/ raced = "yes" \/ build = "refused"
       \/ scheme # "k8s" /\ build = "failed"
       \/ published \in Subsets(Ips(Newest)))

\* The resolvers keep the promise of AddressFeed: an address whose list was
\* replaced never comes back by itself once Build is done and the informer has
\* caught up with what Build fetched, whatever they do to one another.
Settling ==
  \/ build \notin {"built", "failed", "refused"}
  \/ scheme = "k8s" /\ build # "refused" /\ (seen = 0 \/ seen < held)

Feed == INSTANCE AddressFeed WITH
          Address <- Ip,
          Limit <- SubsetSize,
          lists <- [v \in DOMAIN log |-> Ips(v)],
          floor <- IF Settling THEN start ELSE base,
          shown <- published

ImplementsFeed == Feed!Spec
=============================================================================
