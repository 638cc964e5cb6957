--------------------------- MODULE ResolverProofs ---------------------------
(***************************************************************************)
(* Proofs about the resolvers, for any addresses, any limit on a choice of *)
(* them and any number of versions: type correctness, the three invariants *)
(* of the runs, and that the resolvers implement AddressFeed.              *)
(***************************************************************************)
EXTENDS Resolver, FiniteSetTheorems, SequenceTheorems, TLAPS

\* What each scheme has to do with: Build's stages, and who else runs.
StagesOK ==
  /\ build = "start" => published = {} /\ endpoints = {} /\ start = 1
  /\ scheme = "direct" => /\ build \in {"start", "built", "failed"}
                          /\ seen = 0 /\ watcher = "idle" /\ base = 1 /\ start = 1
  /\ scheme = "discov" => /\ build \in {"start", "listen", "values", "show",
                                        "built", "failed"}
                          /\ build \in {"start", "failed"} <=> seen = 0
                          /\ build \in {"values", "show", "built"} =>
                               listening = "yes"
                          /\ build \in {"show", "built"} =>
                               held \in start .. seen
                          /\ watcher = "show" => listening = "yes"
                          /\ listening = "yes" => seen # 0
                          /\ seen # 0 => base <= seen /\ start <= seen
  /\ scheme = "k8s" => /\ build \in {"start", "get", "update", "built", "failed",
                                     "refused"}
                       /\ build \in {"start", "refused"} => seen = 0
                       /\ build \in {"update", "built"} <=> held # 0
                       /\ held # 0 => start <= held
                       /\ seen # 0 => start <= seen /\ (base <= seen \/ base <= held)
                       /\ watcher = "idle"

\* The parts of the invariant about the handler before the informer has listed.
UnlistedOK ==
  scheme = "k8s" /\ seen = 0 =>
    endpoints = IF build = "built" THEN Ips(held) ELSE {}

\* An absent object has no addresses, and no list has foreign ones.
ListsOK ==
  \A v \in 1 .. Newest :
    /\ Ips(v) \subseteq Ip
    /\ log[v] = NoObject => Ips(v) = {}

\* Where the addresses come from.
FromLists(set, from) == \A x \in set : \E v \in from .. Newest : x \in Ips(v)

SourcesOK ==
  /\ start <= base
  /\ scheme = "k8s" => FromLists(endpoints, base)
  /\ FromLists(published, base)
  /\ Cardinality(published) <= SubsetSize

IInv ==
  /\ TypeOK /\ StagesOK /\ UnlistedOK /\ ListsOK /\ SourcesOK
  /\ MirrorsInformer /\ PublishedFollows /\ LatestUnlessOvertaken

-----------------------------------------------------------------------------
(* Sets and choices.                                                       *)

LEMMA SubsetsFacts ==
  ASSUME NEW set \in SUBSET Ip, NEW s \in Subsets(set)
  PROVE  s \subseteq set /\ Cardinality(s) <= SubsetSize
<1>1. s \subseteq set
  BY DEF Subsets
<1>2. IsFiniteSet(set)
  BY ResolverAssumption, FS_Subset
<1>3. Cardinality(set) \in Nat
  BY <1>2, FS_CardinalityType
<1> QED
  BY <1>1, <1>3, ResolverAssumption DEF Subsets

LEMMA NothingIsAChoice == {} \in Subsets({})
BY FS_EmptySet, ResolverAssumption DEF Subsets

\* A set with as many elements as another that contains it is that set.
LEMMA DiffIsInequality ==
  ASSUME NEW o \in SUBSET Ip, NEW n \in SUBSET Ip, ~Diff(o, n)
  PROVE  o = n
<1>1. o \subseteq n /\ Cardinality(o) = Cardinality(n)
  BY DEF Diff
<1>2. IsFiniteSet(n)
  BY ResolverAssumption, FS_Subset
<1> QED
  BY <1>1, <1>2, FS_Subset

\* A call of the handler leaves the connection with a choice of what it has.
LEMMA SetEndpointsFollows ==
  ASSUME NEW new \in SUBSET Ip, endpoints \in SUBSET Ip,
         published \in Subsets(endpoints), SetEndpoints(new)
  PROVE  endpoints' = new /\ published' \in Subsets(new)
<1>1. CASE Diff(endpoints, new)
  BY <1>1 DEF SetEndpoints, Publish
<1>2. CASE ~Diff(endpoints, new)
  <2>1. endpoints = new
    BY <1>2, DiffIsInequality
  <2> QED
    BY <1>2, <2>1 DEF SetEndpoints
<1> QED
  BY <1>1, <1>2

-----------------------------------------------------------------------------
(* The initial state and the steps of Build.                               *)

LEMMA InitIInv == Init => IInv
<1> SUFFICES ASSUME Init PROVE IInv
  OBVIOUS
<1>1. Newest = 1 /\ log[1] \in Lists /\ log \in Seq(Lists)
  <2>1. {1} = 1 .. 1
    OBVIOUS
  <2>2. log \in [1 .. 1 -> Lists]
    BY <2>1 DEF Init
  <2>3. log = <<log[1]>> /\ log[1] \in Lists
    BY <2>1, <2>2
  <2>4. <<log[1]>> \in Seq(Lists) /\ Len(<<log[1]>>) = 1
    BY <2>3
  <2> QED
    BY <2>3, <2>4 DEF Newest
<1>2. Ips(1) \subseteq Ip /\ (log[1] = NoObject => Ips(1) = {})
  BY <1>1 DEF Lists, NoObject, Ips
<1>3. TypeOK /\ ListsOK
  BY <1>1, <1>2 DEF Init, TypeOK, ListsOK, Versions
<1>4. StagesOK /\ UnlistedOK /\ MirrorsInformer /\ LatestUnlessOvertaken
  BY <1>1 DEF Init, StagesOK, UnlistedOK, MirrorsInformer, LatestUnlessOvertaken
<1>5. SourcesOK /\ PublishedFollows
  BY FS_EmptySet, NothingIsAChoice, ResolverAssumption
     DEF Init, SourcesOK, FromLists, PublishedFollows
<1> QED
  BY <1>3, <1>4, <1>5 DEF IInv

\* Build, before it has told the connection or the handler anything.
QuietBuild ==
  NewSubscriber \/ AddListener \/ UpdateReads \/ StartInformer \/ Get

LEMMA QuietBuildStep == ASSUME IInv, QuietBuild PROVE IInv'
<1> USE DEF IInv, QuietBuild, NewSubscriber, AddListener, UpdateReads,
            StartInformer, Get, BuildGoes
<1>1. /\ UNCHANGED <<scheme, log, watcher, endpoints, published, raced>>
      /\ Newest' = Newest /\ Newest \in Nat \ {0}
      /\ \A v : Ips(v)' = Ips(v)
  BY DEF Newest, Ips, TypeOK
<1>2. TypeOK'
  BY <1>1 DEF TypeOK, Versions, Lists
<1>3. StagesOK'
  BY <1>1 DEF StagesOK, TypeOK, Versions
<1>4. UnlistedOK' /\ MirrorsInformer' /\ LatestUnlessOvertaken'
  BY <1>1 DEF UnlistedOK, MirrorsInformer, LatestUnlessOvertaken, StagesOK, TypeOK,
              Versions, Subsets
<1>5. PublishedFollows'
  BY <1>1 DEF PublishedFollows, Subsets
<1>6. SourcesOK'
  BY <1>1 DEF SourcesOK, FromLists, StagesOK, TypeOK
<1>7. ListsOK'
  BY <1>1 DEF ListsOK
<1> QED
  BY <1>2, <1>3, <1>4, <1>5, <1>6, <1>7

LEMMA BuildDirectStep == ASSUME IInv, BuildDirect PROVE IInv'
<1> USE DEF IInv, BuildDirect, BuildGoes
<1>1. /\ UNCHANGED <<scheme, log, start, base, held, listening, seen, watcher,
                     endpoints, raced>>
      /\ Newest' = Newest /\ Newest \in Nat \ {0}
      /\ \A v : Ips(v)' = Ips(v)
      /\ scheme = "direct"
  BY DEF Newest, Ips, TypeOK
<1>2. Ips(1) \in SUBSET Ip
  BY <1>1 DEF ListsOK
<1>3. published' \subseteq Ips(1) /\ Cardinality(published') <= SubsetSize
  BY <1>2, SubsetsFacts DEF Publish
<1>4. TypeOK'
  BY <1>1, <1>2, <1>3 DEF TypeOK, Versions, Lists
<1>5. SourcesOK'
  BY <1>1, <1>3 DEF SourcesOK, FromLists, StagesOK
<1>6. StagesOK'
  BY <1>1 DEF StagesOK
<1>7. ListsOK'
  BY <1>1 DEF ListsOK
<1>8. UnlistedOK' /\ MirrorsInformer' /\ PublishedFollows' /\ LatestUnlessOvertaken'
  BY <1>1 DEF UnlistedOK, MirrorsInformer, PublishedFollows, LatestUnlessOvertaken
<1> QED
  BY <1>4, <1>5, <1>6, <1>7, <1>8

LEMMA UpdateShowsStep == ASSUME IInv, UpdateShows PROVE IInv'
<1> USE DEF IInv, UpdateShows, BuildGoes
<1>1. /\ UNCHANGED <<scheme, log, start, held, listening, seen, watcher, endpoints>>
      /\ Newest' = Newest /\ Newest \in Nat \ {0} /\ base' = held
      /\ \A v : Ips(v)' = Ips(v)
      /\ scheme = "discov" /\ held \in start .. seen /\ seen \in 1 .. Newest
      /\ start \in 1 .. Newest
  <2>1. UNCHANGED <<scheme, log, start, held, listening, seen, watcher, endpoints>>
    OBVIOUS
  <2>2. /\ Newest' = Newest /\ Newest \in Nat \ {0} /\ base' = held
        /\ \A v : Ips(v)' = Ips(v)
    BY DEF Newest, Ips, TypeOK
  <2>3. scheme = "discov"
    BY ResolverAssumption DEF TypeOK, StagesOK
  <2>4. held \in start .. seen /\ seen \in 1 .. Newest /\ start \in 1 .. Newest
    BY <2>3 DEF TypeOK, StagesOK, Versions
  <2> QED
    BY <2>1, <2>2, <2>3, <2>4
<1>2. Ips(held) \in SUBSET Ip /\ held \in 1 .. Newest
  BY <1>1 DEF ListsOK
<1>3. /\ published' \subseteq Ips(held) /\ Cardinality(published') <= SubsetSize
      /\ raced' \in {"yes", "no"}
      /\ held = seen /\ raced' = "no" => published' \in Subsets(Ips(held))
      /\ held # seen => watcher = "show" \/ raced' = "yes"
  <2>1. CASE Publish(Ips(held))
    BY <1>2, <2>1, SubsetsFacts DEF Publish, TypeOK, PublishTorn
  <2>2. CASE PublishTorn(Ips(held)) /\ raced' = "yes"
    BY <2>2 DEF PublishTorn, ShareSlice
  <2> QED
    BY <2>1, <2>2
<1>4. TypeOK'
  BY <1>1, <1>2, <1>3 DEF TypeOK, Versions, Lists
<1>5. SourcesOK'
  BY <1>1, <1>2, <1>3 DEF SourcesOK, FromLists
<1>6. LatestUnlessOvertaken'
  BY <1>1, <1>3 DEF LatestUnlessOvertaken, TypeOK
<1>7. StagesOK'
  BY <1>1 DEF StagesOK
<1>8. ListsOK'
  BY <1>1 DEF ListsOK
<1>9. UnlistedOK' /\ MirrorsInformer' /\ PublishedFollows'
  BY <1>1 DEF UnlistedOK, MirrorsInformer, PublishedFollows
<1> QED
  BY <1>4, <1>5, <1>6, <1>7, <1>8, <1>9

LEMMA BuildUpdateStep == ASSUME IInv, BuildUpdate PROVE IInv'
<1> USE DEF IInv, BuildUpdate, BuildGoes
<1>1. /\ UNCHANGED <<scheme, log, start, held, listening, seen, watcher>>
      /\ Newest' = Newest /\ Newest \in Nat \ {0} /\ base' = held
      /\ \A v : Ips(v)' = Ips(v)
      /\ scheme = "k8s" /\ held \in start .. Newest /\ start \in 1 .. Newest
      /\ seen \in 0 .. Newest
  <2>1. UNCHANGED <<scheme, log, start, held, listening, seen, watcher>>
    OBVIOUS
  <2>2. /\ Newest' = Newest /\ Newest \in Nat \ {0} /\ base' = held
        /\ \A v : Ips(v)' = Ips(v)
    BY DEF Newest, Ips, TypeOK
  <2>3. scheme = "k8s"
    BY ResolverAssumption DEF TypeOK, StagesOK
  <2>4. held \in start .. Newest /\ start \in 1 .. Newest /\ seen \in 0 .. Newest
    BY <2>3 DEF TypeOK, StagesOK, Versions
  <2> QED
    BY <2>1, <2>2, <2>3, <2>4
<1>2. Ips(held) \in SUBSET Ip /\ held \in 1 .. Newest
  BY <1>1 DEF ListsOK
<1>3. endpoints' = Ips(held) /\ published' \in Subsets(Ips(held))
  BY <1>1, <1>2, SetEndpointsFollows DEF Update, TypeOK, PublishedFollows
<1>4. published' \subseteq Ips(held) /\ Cardinality(published') <= SubsetSize
  BY <1>2, <1>3, SubsetsFacts
<1>5. TypeOK'
  BY <1>1, <1>2, <1>3, <1>4 DEF TypeOK, Versions, Lists
<1>6. SourcesOK'
  BY <1>1, <1>2, <1>3, <1>4 DEF SourcesOK, FromLists
<1>7. UnlistedOK' /\ MirrorsInformer'
  BY <1>1, <1>3 DEF UnlistedOK, MirrorsInformer
<1>8. StagesOK'
  BY <1>1, <1>2 DEF StagesOK, TypeOK, Versions
<1> QED
  BY <1>1, <1>3, <1>5, <1>6, <1>7, <1>8
     DEF ListsOK, PublishedFollows, LatestUnlessOvertaken

-----------------------------------------------------------------------------
(* The informer.                                                           *)

\* What every step of the informer leaves alone and relies on.
LEMMA InformerFrame ==
  ASSUME IInv, NEW w \in 1 .. Newest, Informed(w),
         seen = 0 => w >= start, seen < w
  PROVE  /\ UNCHANGED <<scheme, log, build, start, held, listening, watcher>>
         /\ Newest' = Newest /\ Newest \in Nat \ {0} /\ seen' = w
         /\ \A v : Ips(v)' = Ips(v)
         /\ scheme = "k8s" /\ build \in {"get", "update", "built", "failed"}
         /\ seen \in 0 .. Newest /\ start <= w
         /\ start \in 1 .. Newest /\ base \in 1 .. Newest /\ start <= base
         /\ \A v \in 1 .. Newest : Ips(v) \in SUBSET Ip
<1>1. /\ UNCHANGED <<scheme, log, build, start, held, listening, watcher>>
      /\ seen' = w /\ scheme = "k8s"
      /\ build \in {"get", "update", "built", "failed"}
  BY DEF Informed, InformerRuns
<1>2. /\ Newest' = Newest /\ Newest \in Nat \ {0}
      /\ \A v : Ips(v)' = Ips(v)
  BY <1>1 DEF Newest, Ips, IInv, TypeOK
<1>3. /\ seen \in 0 .. Newest /\ start <= w
      /\ start \in 1 .. Newest /\ base \in 1 .. Newest /\ start <= base
  BY <1>1 DEF IInv, TypeOK, StagesOK, SourcesOK, Versions
<1>4. \A v \in 1 .. Newest : Ips(v) \in SUBSET Ip
  BY DEF IInv, ListsOK
<1> QED
  BY <1>1, <1>2, <1>3, <1>4

\* A step of the informer that tells the handler a set from recent lists, or
\* nothing, keeps the invariant if it keeps what relates the handler to it.
LEMMA InformerKeeps ==
  ASSUME IInv, NEW w \in 1 .. Newest, Informed(w),
         seen = 0 => w >= start, seen < w,
         endpoints' \in SUBSET Ip, published' \in Subsets(endpoints'),
         base' \in start .. Newest, base' <= w \/ base' <= held,
         FromLists(endpoints', base'),
         raced' \in {"yes", "no"},
         raced' = "no" => endpoints' = Ips(w)
  PROVE  IInv'
<1> USE DEF IInv
<1>1. /\ UNCHANGED <<scheme, log, build, start, held, listening, watcher>>
      /\ Newest' = Newest /\ Newest \in Nat \ {0} /\ seen' = w
      /\ \A v : Ips(v)' = Ips(v)
      /\ scheme = "k8s" /\ build \in {"get", "update", "built", "failed"}
      /\ seen \in 0 .. Newest /\ start <= w /\ start \in 1 .. Newest
  BY InformerFrame
<1>2. published' \subseteq endpoints' /\ Cardinality(published') <= SubsetSize
  BY SubsetsFacts
<1>3. TypeOK'
  BY <1>1, <1>2 DEF TypeOK, Versions, Lists
<1>4. StagesOK'
  BY <1>1 DEF StagesOK, TypeOK
<1>5. UnlistedOK' /\ MirrorsInformer' /\ LatestUnlessOvertaken'
  BY <1>1 DEF UnlistedOK, MirrorsInformer, LatestUnlessOvertaken
<1>6. PublishedFollows'
  BY <1>1 DEF PublishedFollows
<1>7. ListsOK'
  BY <1>1 DEF ListsOK
<1>8. SourcesOK'
  BY <1>1, <1>2 DEF SourcesOK, FromLists
<1> QED
  BY <1>3, <1>4, <1>5, <1>6, <1>7, <1>8

\* Adding a version leaves the oldest source where OldestWith puts it.
LEMMA AddedSources ==
  ASSUME IInv, NEW w \in start .. Newest, scheme = "k8s", w \in 1 .. Newest
  PROVE  /\ OldestWith(w) \in start .. Newest /\ OldestWith(w) <= w
         /\ FromLists(endpoints \cup Ips(w), OldestWith(w))
<1> USE DEF IInv
<1>1. /\ Newest \in Nat /\ start \in 1 .. Newest /\ base \in start .. Newest
  BY DEF TypeOK, SourcesOK, Newest
<1>2. OldestWith(w) \in start .. Newest /\ OldestWith(w) <= w
  BY <1>1 DEF OldestWith
<1>3. endpoints # {} => OldestWith(w) <= base
  BY <1>1 DEF OldestWith
<1>4. FromLists(endpoints, base)
  BY DEF SourcesOK
<1>5. ASSUME NEW x \in endpoints
      PROVE  \E v \in OldestWith(w) .. Newest : x \in Ips(v)
  <2>1. PICK v \in base .. Newest : x \in Ips(v)
    BY <1>4, <1>5 DEF FromLists
  <2>2. v \in OldestWith(w) .. Newest
    BY <1>1, <1>2, <1>3, <1>5, <2>1
  <2> QED
    BY <2>1, <2>2
<1>6. w \in OldestWith(w) .. Newest
  BY <1>1, <1>2
<1>7. \A x \in endpoints \cup Ips(w) : \E v \in OldestWith(w) .. Newest : x \in Ips(v)
  BY <1>5, <1>6
<1> QED
  BY <1>2, <1>7 DEF FromLists

LEMMA InformerListsStep ==
  ASSUME IInv, NEW w \in 1 .. Newest, InformerLists(w) PROVE IInv'
<1>1. /\ seen = 0 /\ w \in start .. Newest /\ Informed(w) /\ w >= start /\ seen < w
      /\ base' = OldestWith(w)
      /\ raced' = IF build = "built" /\ held # w THEN "yes" ELSE "no"
  BY DEF InformerLists, IInv, TypeOK
<1>2. /\ scheme = "k8s" /\ Ips(w) \in SUBSET Ip
      /\ endpoints \in SUBSET Ip /\ published \in Subsets(endpoints)
  BY <1>1, InformerFrame DEF IInv, TypeOK, PublishedFollows
<1>3. endpoints' = endpoints \cup Ips(w) /\ published' \in Subsets(endpoints')
  <2>1. CASE log[w] = NoObject
    <3>1. Ips(w) = {} /\ UNCHANGED <<endpoints, published>>
      BY <2>1 DEF InformerLists, IInv, ListsOK
    <3> QED
      BY <3>1, <1>2
  <2>2. CASE log[w] # NoObject
    <3>1. SetEndpoints(endpoints \cup Ips(w))
      BY <2>2 DEF InformerLists, OnAdd
    <3> QED
      BY <3>1, <1>2, SetEndpointsFollows
  <2> QED
    BY <2>1, <2>2
<1>4. endpoints = IF build = "built" THEN Ips(held) ELSE {}
  BY <1>1, <1>2 DEF IInv, UnlistedOK
<1>5. raced' = "no" => endpoints' = Ips(w)
  BY <1>1, <1>3, <1>4
<1>6. /\ base' \in start .. Newest /\ base' <= w /\ FromLists(endpoints', base')
  BY <1>1, <1>2, <1>3, AddedSources
<1> QED
  BY <1>1, <1>2, <1>3, <1>5, <1>6, InformerKeeps

LEMMA InformerAddsStep ==
  ASSUME IInv, NEW w \in 1 .. Newest, InformerAdds(w) PROVE IInv'
<1>1. /\ seen # 0 /\ seen < w /\ Informed(w) /\ base' = OldestWith(w)
      /\ UNCHANGED raced /\ log[seen] = NoObject
      /\ SetEndpoints(endpoints \cup Ips(w))
  BY DEF InformerAdds, Follows, OnAdd, IInv, TypeOK, Versions
<1>2. /\ scheme = "k8s" /\ Ips(w) \in SUBSET Ip /\ w \in start .. Newest
      /\ endpoints \in SUBSET Ip /\ published \in Subsets(endpoints)
      /\ raced \in {"yes", "no"} /\ seen \in 1 .. Newest
  BY <1>1, InformerFrame DEF IInv, TypeOK, PublishedFollows
<1>3. endpoints' = endpoints \cup Ips(w) /\ published' \in Subsets(endpoints')
  BY <1>1, <1>2, SetEndpointsFollows
<1>4. raced' = "no" => endpoints' = Ips(w)
  <2>1. Ips(seen) = {}
    BY <1>1, <1>2 DEF IInv, ListsOK
  <2>2. raced = "no" => endpoints = {}
    BY <2>1, <1>1, <1>2 DEF IInv, MirrorsInformer
  <2> QED
    BY <2>2, <1>1, <1>3
<1>5. base' \in start .. Newest /\ base' <= w /\ FromLists(endpoints', base')
  BY <1>1, <1>2, <1>3, AddedSources
<1> QED
  BY <1>1, <1>2, <1>3, <1>4, <1>5, InformerKeeps

LEMMA InformerUpdatesStep ==
  ASSUME IInv, NEW w \in 1 .. Newest, InformerUpdates(w) PROVE IInv'
<1>1. /\ seen # 0 /\ seen < w /\ Informed(w) /\ base' = w /\ raced' = "no"
      /\ SetEndpoints(Ips(w))
  BY DEF InformerUpdates, Follows, Update, IInv, TypeOK, Versions
<1>2. /\ Ips(w) \in SUBSET Ip /\ w \in start .. Newest /\ Newest \in Nat
      /\ endpoints \in SUBSET Ip /\ published \in Subsets(endpoints)
  BY <1>1, InformerFrame DEF IInv, TypeOK, PublishedFollows
<1>3. endpoints' = Ips(w) /\ published' \in Subsets(endpoints')
  BY <1>1, <1>2, SetEndpointsFollows
<1>4. FromLists(endpoints', base')
  BY <1>1, <1>2, <1>3 DEF FromLists
<1> QED
  BY <1>1, <1>2, <1>3, <1>4, InformerKeeps

LEMMA InformerDeletesStep ==
  ASSUME IInv, NEW w \in 1 .. Newest, InformerDeletes(w) PROVE IInv'
<1>1. /\ seen # 0 /\ seen < w /\ Informed(w) /\ UNCHANGED raced
      /\ base' = (IF endpoints' = {} THEN w ELSE base) /\ log[w] = NoObject
      /\ SetEndpoints(endpoints \ Ips(seen))
  BY DEF InformerDeletes, Follows, OnDelete, IInv, TypeOK, Versions
<1>2. /\ scheme = "k8s" /\ w \in start .. Newest /\ Newest \in Nat
      /\ endpoints \in SUBSET Ip /\ published \in Subsets(endpoints)
      /\ raced \in {"yes", "no"} /\ base \in start .. Newest
      /\ seen \in 1 .. Newest
  BY <1>1, InformerFrame DEF IInv, TypeOK, PublishedFollows
<1>3. endpoints' = endpoints \ Ips(seen) /\ published' \in Subsets(endpoints')
  BY <1>1, <1>2, SetEndpointsFollows
<1>4. raced' = "no" => endpoints' = Ips(w)
  BY <1>1, <1>2, <1>3 DEF IInv, MirrorsInformer, ListsOK
<1>5. FromLists(endpoints', base')
  BY <1>1, <1>2, <1>3 DEF IInv, SourcesOK, FromLists
<1>6. base' \in start .. Newest /\ (base' <= w \/ base' <= held)
  BY <1>1, <1>2 DEF IInv, StagesOK, TypeOK, Versions
<1> QED
  BY <1>1, <1>2, <1>3, <1>4, <1>5, <1>6, InformerKeeps

LEMMA InformerMissesStep ==
  ASSUME IInv, NEW w \in 1 .. Newest,
         InformerMissesDelete(w) \/ InformerSeesNothing(w)
  PROVE  IInv'
<1>1. /\ seen # 0 /\ seen < w /\ Informed(w)
      /\ UNCHANGED <<endpoints, published, base>> /\ log[w] = NoObject
      /\ raced' = "yes" \/ (UNCHANGED raced /\ log[seen] = NoObject)
  BY DEF InformerMissesDelete, InformerSeesNothing, Follows, IInv, TypeOK, Versions
<1>2. /\ scheme = "k8s" /\ w \in start .. Newest
      /\ endpoints \in SUBSET Ip /\ published \in Subsets(endpoints)
      /\ raced \in {"yes", "no"} /\ base \in start .. Newest
      /\ seen \in 1 .. Newest
  BY <1>1, InformerFrame DEF IInv, TypeOK, PublishedFollows
<1>3. raced' = "no" => endpoints' = Ips(w)
  BY <1>1, <1>2 DEF IInv, MirrorsInformer, ListsOK
<1>4. FromLists(endpoints', base') /\ published' \in Subsets(endpoints')
  BY <1>1, <1>2 DEF IInv, SourcesOK, FromLists
<1>5. base' \in start .. Newest /\ (base' <= w \/ base' <= held)
  BY <1>1, <1>2 DEF IInv, StagesOK, TypeOK, Versions
<1> QED
  BY <1>1, <1>2, <1>3, <1>4, <1>5, InformerKeeps

LEMMA InformerInv ==
  ASSUME IInv, NEW w \in 1 .. Newest, InformerStep(w) PROVE IInv'
BY InformerListsStep, InformerAddsStep, InformerUpdatesStep, InformerDeletesStep,
   InformerMissesStep DEF InformerStep

-----------------------------------------------------------------------------
(* The subscriber's goroutine and the service.                             *)

LEMMA WatcherAppliesStep ==
  ASSUME IInv, NEW w \in 1 .. Newest, WatcherApplies(w) PROVE IInv'
<1> USE DEF IInv, WatcherApplies
<1>1. /\ UNCHANGED <<scheme, log, build, start, held, listening, endpoints,
                     published, base>>
      /\ Newest' = Newest /\ Newest \in Nat \ {0} /\ seen' = w /\ seen < w
      /\ \A v : Ips(v)' = Ips(v)
      /\ scheme = "discov" /\ seen \in 1 .. Newest
      /\ watcher' = IF listening = "yes" THEN "show" ELSE "idle"
  BY DEF Newest, Ips, TypeOK, Versions
<1>2. TypeOK' /\ ListsOK'
  BY <1>1 DEF TypeOK, Versions, Lists, ListsOK
<1>3. StagesOK'
  BY <1>1 DEF StagesOK, TypeOK, Versions
<1>4. UnlistedOK' /\ MirrorsInformer' /\ PublishedFollows'
  BY <1>1 DEF UnlistedOK, MirrorsInformer, PublishedFollows
<1>5. LatestUnlessOvertaken'
  BY <1>1 DEF LatestUnlessOvertaken, StagesOK
<1>6. SourcesOK'
  BY <1>1 DEF SourcesOK, FromLists
<1> QED
  BY <1>2, <1>3, <1>4, <1>5, <1>6

LEMMA WatcherShowsStep == ASSUME IInv, WatcherShows PROVE IInv'
<1> USE DEF IInv, WatcherShows
<1>1. /\ UNCHANGED <<scheme, log, build, start, held, listening, seen, endpoints>>
      /\ Newest' = Newest /\ Newest \in Nat \ {0} /\ base' = seen
      /\ \A v : Ips(v)' = Ips(v)
  BY DEF Newest, Ips, TypeOK
<1>2. scheme = "discov" /\ seen \in 1 .. Newest /\ start <= seen
  BY ResolverAssumption DEF StagesOK, TypeOK, Versions
<1>3. Ips(seen) \in SUBSET Ip
  BY <1>2 DEF ListsOK
<1>4. /\ raced' = "no" => published' \in Subsets(Ips(seen))
      /\ published' \subseteq Ips(seen) /\ Cardinality(published') <= SubsetSize
      /\ raced' \in {"yes", "no"}
  <2>1. CASE Publish(Ips(seen)) /\ UNCHANGED raced
    BY <1>3, <2>1, SubsetsFacts DEF Publish, TypeOK
  <2>2. CASE PublishTorn(Ips(seen)) /\ raced' = "yes"
    BY <2>2 DEF PublishTorn
  <2> QED
    BY <2>1, <2>2
<1>5. TypeOK' /\ ListsOK'
  BY <1>1, <1>2, <1>3, <1>4 DEF TypeOK, Versions, Lists, ListsOK
<1>6. StagesOK'
  BY <1>1, <1>2 DEF StagesOK, TypeOK, Versions
<1>7. UnlistedOK' /\ MirrorsInformer' /\ PublishedFollows'
  BY <1>1, <1>2 DEF UnlistedOK, MirrorsInformer, PublishedFollows
<1>8. LatestUnlessOvertaken'
  BY <1>1, <1>4 DEF LatestUnlessOvertaken
<1>9. SourcesOK'
  BY <1>1, <1>2, <1>4 DEF SourcesOK, FromLists
<1> QED
  BY <1>5, <1>6, <1>7, <1>8, <1>9

\* A change of the service leaves its former versions as they were.
LEMMA Appended ==
  ASSUME TypeOK, NEW list \in Lists, log' = Append(log, list)
  PROVE  /\ Newest' = Newest + 1 /\ log' \in Seq(Lists)
         /\ log'[Newest + 1] = list
         /\ \A v \in 1 .. Newest : log'[v] = log[v] /\ Ips(v)' = Ips(v)
BY DEF TypeOK, Newest, Ips

LEMMA ServiceChangesStep == ASSUME IInv, ServiceChanges PROVE IInv'
<1> USE DEF IInv
<1>0. PICK list \in Lists : log' = Append(log, list)
  BY DEF ServiceChanges
<1>1. /\ UNCHANGED <<scheme, build, start, held, listening, seen, watcher,
                     endpoints, published, raced, base>>
      /\ scheme # "direct"
  BY DEF ServiceChanges
<1>2. /\ Newest' = Newest + 1 /\ log' \in Seq(Lists)
      /\ log'[Newest + 1] = list
      /\ \A v \in 1 .. Newest : log'[v] = log[v] /\ Ips(v)' = Ips(v)
      /\ Newest \in Nat \ {0}
  BY <1>0, Appended DEF TypeOK, Newest
<1>3. TypeOK'
  BY <1>1, <1>2 DEF TypeOK, Versions, Lists
<1>4. ListsOK'
  <2>1. list.ips \subseteq Ip /\ (list = NoObject => list.ips = {})
    BY DEF Lists, NoObject
  <2>2. \A v : v = Newest + 1 => Ips(v)' = list.ips
    BY <1>2 DEF Ips
  <2>3. ASSUME NEW v \in 1 .. Newest + 1
        PROVE  Ips(v)' \subseteq Ip /\ (log'[v] = NoObject => Ips(v)' = {})
    <3>1. CASE v \in 1 .. Newest
      BY <3>1, <1>2 DEF ListsOK
    <3>2. CASE v = Newest + 1
      BY <3>2, <2>1, <2>2, <1>2
    <3> QED
      BY <3>1, <3>2, <1>2
  <2>4. NoObject' = NoObject
    BY DEF NoObject
  <2> QED
    BY <2>3, <2>4, <1>2 DEF ListsOK
<1>5. StagesOK'
  BY <1>1, <1>2 DEF StagesOK
<1>6. UnlistedOK' /\ MirrorsInformer' /\ PublishedFollows' /\ LatestUnlessOvertaken'
  BY <1>1, <1>2 DEF UnlistedOK, MirrorsInformer, PublishedFollows,
     LatestUnlessOvertaken, StagesOK, TypeOK, Versions
<1>7. SourcesOK'
  <2>1. base \in 1 .. Newest
    BY DEF TypeOK
  <2>2. ASSUME NEW set, FromLists(set, base)
        PROVE  \A x \in set : \E v \in base .. Newest + 1 : x \in Ips(v)'
    BY <2>1, <2>2, <1>2 DEF FromLists
  <2> QED
    BY <2>2, <1>1, <1>2 DEF SourcesOK, FromLists
<1> QED
  BY <1>3, <1>4, <1>5, <1>6, <1>7

LEMMA NextIInv == IInv /\ [Next]_vars => IInv'
<1>1. SUFFICES ASSUME IInv, [Next]_vars PROVE IInv'
  OBVIOUS
<1>2. CASE BuildStep
  BY <1>1, <1>2, QuietBuildStep, BuildDirectStep, UpdateShowsStep, BuildUpdateStep
     DEF BuildStep, QuietBuild
<1>3. CASE \E w \in 1 .. Newest : InformerStep(w)
  BY <1>1, <1>3, InformerInv
<1>4. CASE \E w \in 1 .. Newest : WatcherApplies(w)
  BY <1>1, <1>4, WatcherAppliesStep
<1>5. CASE WatcherShows
  BY <1>1, <1>5, WatcherShowsStep
<1>6. CASE ServiceChanges
  BY <1>1, <1>6, ServiceChangesStep
<1>7. CASE UNCHANGED vars
  <2> USE <1>1, <1>7 DEF vars, IInv
  <2>1. Newest' = Newest /\ \A v : Ips(v)' = Ips(v)
    BY DEF Newest, Ips
  <2>2. TypeOK' /\ ListsOK'
    BY <2>1 DEF TypeOK, Versions, Lists, ListsOK
  <2>3. StagesOK' /\ UnlistedOK' /\ SourcesOK'
    BY <2>1 DEF StagesOK, UnlistedOK, SourcesOK, FromLists
  <2>4. MirrorsInformer' /\ PublishedFollows' /\ LatestUnlessOvertaken'
    BY <2>1 DEF MirrorsInformer, PublishedFollows, LatestUnlessOvertaken
  <2> QED
    BY <2>2, <2>3, <2>4
<1> QED
  BY <1>1, <1>2, <1>3, <1>4, <1>5, <1>6, <1>7 DEF Next

LEMMA Invariance == Spec => []IInv
BY InitIInv, NextIInv, PTL DEF Spec

-----------------------------------------------------------------------------
(* Theorems.                                                               *)

\* Every reachable state has its type.
THEOREM TypeCorrect == Spec => []TypeOK
<1>1. IInv => TypeOK
  BY DEF IInv
<1> QED
  BY <1>1, Invariance, PTL

\* For any addresses and any number of versions: outside the three races, the
\* EventHandler has what the informer has.
THEOREM HandlerMirrors == Spec => []MirrorsInformer
<1>1. IInv => MirrorsInformer
  BY DEF IInv
<1> QED
  BY <1>1, Invariance, PTL

\* The connection always works with a choice from what the handler has.
THEOREM ConnectionFollows == Spec => []PublishedFollows
<1>1. IInv => PublishedFollows
  BY DEF IInv
<1> QED
  BY <1>1, Invariance, PTL

\* The connection of a subscriber has its newest values, unless the first update
\* of Build was overtaken or shuffled one slice together with the listener's.
THEOREM SubscriberLatest == Spec => []LatestUnlessOvertaken
<1>1. IInv => LatestUnlessOvertaken
  BY DEF IInv
<1> QED
  BY <1>1, Invariance, PTL

\* The lists, the floor and the addresses of AddressFeed.
FeedLists == [v \in DOMAIN log |-> Ips(v)]
FeedFloor == IF Settling THEN start ELSE base

FeedListsOK ==
  /\ FeedLists \in Seq(SUBSET Ip) /\ Len(FeedLists) = Newest /\ Newest \in Nat \ {0}
  /\ \A v \in 1 .. Newest : FeedLists[v] = Ips(v)

LEMMA FeedListsFacts == IInv => FeedListsOK
<1> SUFFICES ASSUME IInv PROVE FeedListsOK
  OBVIOUS
<1>1. /\ DOMAIN log = 1 .. Newest /\ Newest \in Nat \ {0}
  BY DEF IInv, TypeOK, Newest
<1>2. \A v \in 1 .. Newest : Ips(v) \in SUBSET Ip
  BY DEF IInv, ListsOK
<1>3. FeedLists \in [1 .. Newest -> SUBSET Ip]
  BY <1>1, <1>2 DEF FeedLists
<1> QED
  BY <1>1, <1>3 DEF FeedLists, FeedListsOK

LEMMA FeedListsFactsNext == IInv' => FeedListsOK'
BY FeedListsFacts, PTL

\* The floor does not fall.
LEMMA FloorRises ==
  ASSUME IInv, [Next]_vars
  PROVE  FeedFloor' \in FeedFloor .. Newest'
<1>1. TypeOK /\ StagesOK /\ SourcesOK /\ TypeOK' /\ SourcesOK' /\ StagesOK'
  BY NextIInv DEF IInv
<1>2. /\ start \in 1 .. Newest /\ base \in start .. Newest
      /\ start' \in 1 .. Newest' /\ base' \in start' .. Newest'
      /\ Newest \in Nat /\ Newest' \in Nat
  BY <1>1 DEF TypeOK, SourcesOK, Newest
<1>3. SUFFICES FeedFloor <= FeedFloor'
  BY <1>2 DEF FeedFloor
<1>4. CASE QuietBuild
  <2>1. CASE NewSubscriber \/ StartInformer
    <3>1. /\ build = "start" /\ start = 1 /\ FeedFloor = start
      BY <2>1, <1>1 DEF NewSubscriber, StartInformer, BuildGoes, StagesOK, FeedFloor, Settling
    <3>2. start' \in Nat \ {0} /\ base' \in Nat \ {0}
      BY <1>2
    <3>3. FeedFloor' \in {start', base'}
      BY DEF FeedFloor
    <3> QED
      BY <3>1, <3>2, <3>3
  <2>2. CASE AddListener \/ UpdateReads \/ Get
    BY <1>1, <1>2, <2>2
       DEF AddListener, UpdateReads, Get, BuildGoes, FeedFloor, Settling
  <2> QED
    BY <1>4, <2>1, <2>2 DEF QuietBuild
<1>5. CASE BuildDirect \/ UpdateShows \/ BuildUpdate
  BY <1>1, <1>2, <1>5
     DEF BuildDirect, UpdateShows, BuildUpdate, BuildGoes, FeedFloor, Settling
<1>6. CASE \E w \in 1 .. Newest : InformerStep(w)
  <2>1. PICK w \in 1 .. Newest : InformerStep(w)
    BY <1>6
  <2>2. UNCHANGED <<scheme, build, start, held>> /\ seen' = w /\ scheme = "k8s"
    BY <2>1 DEF InformerStep, InformerLists, InformerAdds, InformerUpdates,
         InformerDeletes, InformerMissesDelete, InformerSeesNothing, Informed,
         InformerRuns
  <2>3. SUFFICES ASSUME ~Settling PROVE base <= base'
    <3>1. CASE Settling
      BY <3>1, <1>2, <2>2 DEF FeedFloor
    <3>2. CASE ~Settling
      <4>1. ~Settling'
        <5>1. w \in Nat /\ seen \in Nat /\ held \in Nat /\ seen < w
          BY <3>2, <2>1, <2>2, <1>1
             DEF TypeOK, Versions, InformerStep, InformerLists, InformerAdds,
                 InformerUpdates, InformerDeletes, InformerMissesDelete,
                 InformerSeesNothing, Follows
        <5> QED
          BY <3>2, <5>1, <2>2 DEF Settling
      <4> QED
        BY <3>2, <4>1, <2>3 DEF FeedFloor
    <3> QED
      BY <3>1, <3>2
  <2>4. /\ seen # 0 /\ held <= seen /\ seen \in Nat /\ held \in Nat /\ base \in Nat
        /\ build # "refused"
    BY <2>2, <2>3, <1>1, <2>1
       DEF Settling, TypeOK, Versions, InformerStep, InformerLists, InformerAdds,
           InformerUpdates, InformerDeletes, InformerMissesDelete,
           InformerSeesNothing, Informed, InformerRuns
  <2>5. base <= seen
    BY <2>2, <2>4, <1>1 DEF StagesOK
  <2>6. base' \in {OldestWith(w), w, base} /\ seen < w
    BY <2>1, <2>4
       DEF InformerStep, InformerLists, InformerAdds, InformerUpdates,
           InformerDeletes, InformerMissesDelete, InformerSeesNothing, Follows
  <2> QED
    BY <2>4, <2>5, <2>6 DEF OldestWith
<1>7. CASE \E w \in 1 .. Newest : WatcherApplies(w)
  BY <1>1, <1>2, <1>7 DEF WatcherApplies, FeedFloor, Settling
<1>8. CASE WatcherShows
  BY <1>1, <1>2, <1>8, ResolverAssumption
     DEF WatcherShows, FeedFloor, Settling, StagesOK, TypeOK, Versions
<1>9. CASE ServiceChanges \/ UNCHANGED vars
  BY <1>1, <1>2, <1>9 DEF ServiceChanges, vars, FeedFloor, Settling
<1> QED
  BY <1>4, <1>5, <1>6, <1>7, <1>8, <1>9 DEF Next, BuildStep, QuietBuild

\* What is shown comes from lists not older than the floor.
ShownOK ==
  /\ published \in SUBSET (UNION {FeedLists[i] : i \in FeedFloor .. Len(FeedLists)})
  /\ Cardinality(published) <= SubsetSize

LEMMA ShownIsRecent == IInv => ShownOK
<1> SUFFICES ASSUME IInv PROVE ShownOK
  OBVIOUS
<1>0. FeedListsOK
  BY FeedListsFacts
<1>1. /\ start \in 1 .. Newest /\ base \in start .. Newest
      /\ FromLists(published, base)
  BY DEF IInv, TypeOK, SourcesOK
<1>2. FeedFloor \in 1 .. base
  BY <1>1 DEF FeedFloor
<1>3. ASSUME NEW x \in published
      PROVE  \E i \in FeedFloor .. Len(FeedLists) : x \in FeedLists[i]
  <2>1. PICK v \in base .. Newest : x \in Ips(v)
    BY <1>1 DEF FromLists
  <2>2. v \in 1 .. Newest /\ v \in FeedFloor .. Len(FeedLists)
    BY <1>0, <1>1, <1>2 DEF FeedListsOK
  <2> QED
    BY <1>0, <2>1, <2>2 DEF FeedListsOK
<1> QED
  BY <1>3 DEF IInv, SourcesOK, ShownOK

LEMMA ShownIsRecentNext == IInv' => ShownOK'
BY ShownIsRecent, PTL

\* A change of the service appends to the lists; nothing else changes them.
LEMMA FeedListsGrow ==
  ASSUME IInv, [Next]_vars
  PROVE  \/ ServiceChanges /\ \E list \in SUBSET Ip : FeedLists' = Append(FeedLists, list)
         \/ UNCHANGED FeedLists
<1>1. CASE ServiceChanges
  <2>1. PICK list \in Lists : log' = Append(log, list)
    BY <1>1 DEF ServiceChanges
  <2>2. /\ Newest' = Newest + 1
        /\ log'[Newest + 1] = list
        /\ \A v \in 1 .. Newest : Ips(v)' = Ips(v)
    BY <2>1, Appended DEF IInv
  <2>3. /\ FeedLists \in Seq(SUBSET Ip) /\ Len(FeedLists) = Newest
        /\ Newest \in Nat /\ \A v \in 1 .. Newest : FeedLists[v] = Ips(v)
    BY FeedListsFacts DEF FeedListsOK
  <2>4. /\ FeedLists' \in Seq(SUBSET Ip) /\ Len(FeedLists') = Newest + 1
        /\ \A v \in 1 .. Newest + 1 : FeedLists'[v] = Ips(v)'
    BY <2>2, FeedListsFactsNext, NextIInv DEF FeedListsOK
  <2>5. list.ips \in SUBSET Ip
    BY DEF Lists, NoObject
  <2>6. \A v : v = Newest + 1 => Ips(v)' = list.ips
    BY <2>2 DEF Ips
  <2>7. \A v \in 1 .. Newest + 1 :
          FeedLists'[v] = Append(FeedLists, list.ips)[v]
    BY <2>2, <2>3, <2>4, <2>5, <2>6
  <2>8. /\ Append(FeedLists, list.ips) \in Seq(SUBSET Ip)
        /\ Len(Append(FeedLists, list.ips)) = Newest + 1
    BY <2>3, <2>5
  <2>9. FeedLists' = Append(FeedLists, list.ips)
    BY <2>4, <2>7, <2>8, SeqEqual
  <2> QED
    BY <1>1, <2>5, <2>9
<1>2. CASE ~ServiceChanges
  <2>1. UNCHANGED log
    BY <1>2
       DEF Next, BuildStep, BuildDirect, NewSubscriber, AddListener, UpdateReads,
           UpdateShows, StartInformer, Get, BuildUpdate, InformerStep,
           InformerLists, InformerAdds, InformerUpdates, InformerDeletes,
           InformerMissesDelete, InformerSeesNothing, Informed, WatcherApplies,
           WatcherShows, vars
  <2> QED
    BY <2>1 DEF FeedLists, Ips
<1> QED
  BY <1>1, <1>2

\* The resolvers implement AddressFeed, for any addresses, limit and versions.
THEOREM FeedImplemented == Spec => ImplementsFeed
<1>1. Init => Feed!Init
  <2> SUFFICES ASSUME Init PROVE Feed!Init
    OBVIOUS
  <2>1. IInv
    BY InitIInv
  <2>2. Newest = 1 /\ log \in [{1} -> Lists]
    <3>1. {1} = 1 .. 1
      OBVIOUS
    <3>2. log = <<log[1]>>
      BY <3>1 DEF Init
    <3> QED
      BY <3>2 DEF Newest, Init
  <2>3. Ips(1) \in SUBSET Ip
    BY <2>1, <2>2 DEF IInv, ListsOK
  <2>4. FeedLists \in [{1} -> SUBSET Ip]
    BY <2>2, <2>3 DEF FeedLists
  <2>5. FeedFloor = 1 /\ published = {}
    BY DEF Init, FeedFloor
  <2> QED
    BY <2>4, <2>5 DEF Feed!Init, FeedLists, FeedFloor
<1>2. IInv /\ [Next]_vars => [Feed!Next]_<<FeedLists, FeedFloor, published>>
  <2> SUFFICES ASSUME IInv, [Next]_vars
               PROVE  Feed!Next \/ UNCHANGED <<FeedLists, FeedFloor, published>>
    OBVIOUS
  <2>1. IInv'
    BY NextIInv
  <2>2. CASE ServiceChanges /\ \E list \in SUBSET Ip : FeedLists' = Append(FeedLists, list)
    <3>1. UNCHANGED <<FeedFloor, published>>
      BY <2>2 DEF ServiceChanges, FeedFloor, Settling
    <3>2. Feed!ServiceChanges
      BY <2>2, <3>1 DEF Feed!ServiceChanges, FeedLists, FeedFloor
    <3> QED
      BY <3>2 DEF Feed!Next
  <2>3. CASE UNCHANGED FeedLists
    <3>1. Newest' = Newest /\ Len(FeedLists) = Newest
      BY <2>1, <2>3, FeedListsFacts, FeedListsFactsNext DEF FeedListsOK
    <3>2. FeedFloor' \in FeedFloor .. Len(FeedLists)
      BY <3>1, FloorRises
    <3>3. /\ published' \in SUBSET (UNION {FeedLists'[i] : i \in FeedFloor' .. Len(FeedLists')})
          /\ Cardinality(published') <= SubsetSize
      BY <2>1, ShownIsRecentNext DEF ShownOK
    <3>4. published' \in SUBSET (UNION {FeedLists[i] : i \in FeedFloor' .. Len(FeedLists)})
      BY <3>3, <2>3
    <3>5. Feed!Cardinality(published') = Cardinality(published')
      BY DEF Feed!Cardinality, Cardinality
    <3>6. Feed!Show
      BY <2>3, <3>2, <3>3, <3>4, <3>5, ZenonT(60) DEF Feed!Show, Feed!Recent, FeedLists, FeedFloor
    <3> QED
      BY <3>6 DEF Feed!Next
  <2> QED
    BY <2>2, <2>3, FeedListsGrow
<1> QED
  BY <1>1, <1>2, Invariance, PTL
     DEF Spec, Feed!Spec, ImplementsFeed, FeedLists, FeedFloor
=============================================================================
