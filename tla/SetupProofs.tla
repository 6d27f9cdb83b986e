------------------------------ MODULE SetupProofs ------------------------------
(* What module Setup guarantees for every set of objects, of configs and of *)
(* releases, on every platform, and for every bound.                        *)
EXTENDS Setup, TLAPS

(* The types of infrastructure that a list may have been filtered for.      *)
TypesUsed == {platform} \union {type \in {""} : lost}

(* The ConfigMap that is named after a version holds the lists of an image  *)
(* that a reconcile has determined for it, whoever wrote it, and a pod that *)
(* has read one has read the filtered list of such an image.                *)
ReleaseLists(v) ==
    {ReleaseData(r.image, type) : r \in {x \in determined : x.version = v}, type \in TypesUsed}

ReleaseMapsHold ==
    \A job \in JobPlaces : maps[Mount(job, "release")] # Absent =>
        maps[Mount(job, "release")].data \in ReleaseLists(job[2])

StartedPodsRead ==
    \A job \in JobPlaces : Started(job) =>
        \E data \in ReleaseLists(job[2]) : jobs[job].images = data.filtered

(* The worker goes on with the release and the type it has set out with.    *)
WorkerKnows == pc # "idle" => local.type \in TypesUsed /\ local.release \in determined

AllBelong == desired \in ClusterReleases /\ \A r \in determined : BelongTogether(r)

SetupInv == TypeOK /\ ReleaseMapsHold /\ StartedPodsRead /\ WorkerKnows /\ AllBelong

--------------------------------------------------------------------------------
(* What getDesiredVersion returns: a version and an image of some source.   *)
LEMMA DesiredReleaseType ==
    ASSUME desired \in ClusterReleases, NEW c \in Configs
    PROVE  DesiredRelease(c) \in Releases /\ BelongTogether(DesiredRelease(c))
<1>1. c.version \in Version \union {""} /\ c.image \in Image \union {""}
  BY ConfigAssumption
<1>2. CASE c.version # "" /\ c.image # ""
  BY <1>1, <1>2 DEF DesiredRelease, Releases, BelongTogether
<1>3. CASE c.version # "" /\ c.image = ""
  BY <1>1, <1>3, ReleaseAssumption DEF DesiredRelease, Releases, BelongTogether
<1>4. CASE c.version = "" /\ c.image # ""
  BY <1>1, <1>4, ReleaseAssumption DEF DesiredRelease, Releases, BelongTogether
<1>5. CASE c.version = "" /\ c.image = ""
  BY <1>5, ReleaseAssumption DEF DesiredRelease, BelongTogether
<1> QED
  BY <1>2, <1>3, <1>4, <1>5

LEMMA ReleaseDataType ==
    ASSUME TypeOK, NEW v \in Version, NEW data \in ReleaseLists(v)
    PROVE  /\ data \in Data
           /\ data.filtered \in SUBSET DOMAIN Mentions
           /\ \E r \in determined, type \in TypesUsed :
                r.version = v /\ data.filtered = FilterReleaseImages(NamesOf[r.image], type)
<1>1. PICK r \in {x \in determined : x.version = v}, type \in TypesUsed :
        data = ReleaseData(r.image, type)
  BY DEF ReleaseLists
<1>2. r.image \in Image /\ NamesOf[r.image] \subseteq DOMAIN Mentions
  BY ReleaseAssumption DEF TypeOK, Releases
<1>3. type \in Types
  BY DEF TypesUsed, Types, TypeOK
<1>4. data.filtered = FilterReleaseImages(NamesOf[r.image], type)
  BY <1>1 DEF ReleaseData
<1>5. data \in Data
  BY <1>1, <1>2, <1>3 DEF ReleaseData, Data
<1>6. FilterReleaseImages(NamesOf[r.image], type) \subseteq NamesOf[r.image]
  BY DEF FilterReleaseImages
<1> QED
  BY <1>2, <1>4, <1>5, <1>6

(* The filter of a platform that has one keeps exactly the images that      *)
(* mention no platform or this one alone.                                   *)
LEMMA FilterKeepsOwn ==
    ASSUME NEW type \in DOMAIN OwnPrefix, NEW names \in SUBSET DOMAIN Mentions,
           NEW name \in names
    PROVE  name \in FilterReleaseImages(names, type) <=>
             Mentions[name] \subseteq {OwnPrefix[type]}
<1>1. Mentions[name] \subseteq Prefixes
  BY ReleaseAssumption
<1>2. type \notin {"None", "BareMetal"}
  BY DEF OwnPrefix
<1>3. Removed(type) = Prefixes \ {OwnPrefix[type]}
  BY <1>2 DEF Removed
<1> QED
  BY <1>1, <1>3 DEF FilterReleaseImages

(* What the worker has in hand while it works.                              *)
LEMMA LocalType ==
    ASSUME TypeOK, pc # "idle"
    PROVE  /\ local \in [name : UA, object : Objects, release : Releases, type : Types]
           /\ local.name \in UA /\ local.object \in Objects
           /\ local.object.c \in Configs
           /\ local.object.c.namespace \in Namespace
           /\ Owner \in Owners
           /\ local.release.version \in Version
<1>1. local \in [name : UA, object : Objects, release : Releases, type : Types]
  BY DEF TypeOK
<1>2. local.object.c \in Configs /\ local.object.uid \in 0 .. MaxChanges
  BY <1>1 DEF Objects
<1>3. Owner \in Owners
  BY <1>1, <1>2 DEF Owner, Owners
<1> QED
  BY <1>1, <1>2, <1>3 DEF Releases, Namespace

--------------------------------------------------------------------------------
(* A step of a ConfigMap's creation writes one ConfigMap or none.           *)
LEMMA CreateConfigMapStep ==
    ASSUME TypeOK, pc # "idle",
           NEW place \in Places, NEW data \in Data, NEW next \in Steps \ {"idle"},
           CreateConfigMap(place, data, next)
    PROVE  /\ TypeOK'
           /\ maps' \in {maps, [maps EXCEPT ![place] = [data |-> data, owner |-> Owner]]}
<1>1. [data |-> data, owner |-> Owner] \in Maps
  BY LocalType DEF Maps
<1>2. [maps EXCEPT ![place] = [data |-> data, owner |-> Owner]] \in [Places -> Maps]
  BY <1>1 DEF TypeOK
<1>3. maps' \in {maps, [maps EXCEPT ![place] = [data |-> data, owner |-> Owner]]}
  BY DEF CreateConfigMap, WriteIfNeeded, WriteBlindly, Write
<1>4. \/ pc' = next /\ local' = local
      \/ pc' = "idle" /\ local' = Absent
  BY DEF CreateConfigMap, WriteIfNeeded, WriteBlindly, Write, Goto, Return
<1>5. changes' \in 0 .. MaxChanges
  BY BoundAssumption DEF TypeOK, CreateConfigMap, WriteBlindly
<1>6. UNCHANGED <<objects, namespaces, view, jobs, determined>>
  BY DEF CreateConfigMap, WriteIfNeeded, WriteBlindly, Write, Goto, Return
<1>7. pc' \in Steps /\ local' \in IF pc' = "idle" THEN {Absent}
                                  ELSE [name : UA, object : Objects, release : Releases, type : Types]
  BY <1>4, LocalType DEF Steps
<1> QED
  BY <1>2, <1>3, <1>5, <1>6, <1>7 DEF TypeOK, objects

LEMMA PlaceType ==
    ASSUME TypeOK, pc # "idle", NEW kind \in {"release", "script"}
    PROVE  Place(kind) \in Places
BY LocalType DEF Place, Places

(* The actions that touch neither ConfigMaps nor what pods have read.  The  *)
(* lists there may be grow when an update is lost or a release determined.  *)
LEMMA ListsKeep ==
    ASSUME platform' = platform, lost => lost', determined \subseteq determined', NEW v \in Version
    PROVE  ReleaseLists(v) \subseteq ReleaseLists(v)'
<1>1. TypesUsed \subseteq TypesUsed'
  BY DEF TypesUsed
<1> QED
  BY <1>1 DEF ReleaseLists, ReleaseData

LEMMA OthersKeep ==
    ASSUME ReleaseMapsHold, UNCHANGED <<maps, platform>>, lost => lost',
           determined \subseteq determined'
    PROVE  ReleaseMapsHold'
<1>1. \A job \in JobPlaces : ReleaseLists(job[2]) \subseteq ReleaseLists(job[2])'
  BY ListsKeep DEF JobPlaces
<1> QED
  BY <1>1 DEF ReleaseMapsHold, Mount

LEMMA OthersKeepPods ==
    ASSUME StartedPodsRead, UNCHANGED <<jobs, platform>>, lost => lost',
           determined \subseteq determined'
    PROVE  StartedPodsRead'
<1>1. \A job \in JobPlaces : ReleaseLists(job[2]) \subseteq ReleaseLists(job[2])'
  BY ListsKeep DEF JobPlaces
<1> QED
  BY <1>1 DEF StartedPodsRead, Started

(* A step that keeps what the worker set out with, or ends the call.        *)
LEMMA WorkerKeeps ==
    ASSUME SetupInv, UNCHANGED <<platform, lost, determined>>, desired' \in ClusterReleases,
           \/ pc' = "idle" \/ UNCHANGED <<pc, local>>
           \/ pc # "idle" /\ local'.type = local.type /\ local'.release = local.release
    PROVE  WorkerKnows' /\ AllBelong'
BY DEF SetupInv, WorkerKnows, AllBelong, TypesUsed

--------------------------------------------------------------------------------
LEMMA InitHolds ==
    ASSUME Init
    PROVE  SetupInv
<1>1. config \in [UA -> Objects \union {Absent}]
  <2>1. PICK c \in FirstConfigs : config = [u \in UA |-> [uid |-> 0, c |-> c]]
    BY DEF Init
  <2>2. 0 \in 0 .. MaxChanges
    BY BoundAssumption
  <2>3. c \in Configs
    BY ConfigAssumption
  <2>4. [uid |-> 0, c |-> c] \in Objects
    BY <2>2, <2>3 DEF Objects
  <2> QED
    BY <2>1, <2>4
<1>2. desired \in Releases /\ desired \in ClusterReleases
  BY ReleaseAssumption DEF Init
<1>3. maps \in [Places -> Maps] /\ view \in [Places -> Maps]
  BY DEF Init, Maps
<1>4. jobs \in [JobPlaces -> Jobs]
  BY DEF Init, Jobs
<1>5. TypeOK
  <2>1. changes \in 0 .. MaxChanges
    BY BoundAssumption DEF Init
  <2>2. lost \in BOOLEAN
    BY DEF Init
  <2>3. /\ complete \subseteq UA /\ platform \in Platforms /\ recorded \subseteq UA
        /\ namespaces \subseteq Namespace /\ pc = "idle" /\ local = Absent
        /\ determined \subseteq Releases
    BY DEF Init
  <2>4. local \in IF pc = "idle" THEN {Absent}
                 ELSE [name : UA, object : Objects, release : Releases, type : Types]
    BY <2>3
  <2> QED
    BY <1>1, <1>2, <1>3, <1>4, <2>1, <2>2, <2>3, <2>4 DEF TypeOK, Steps
<1>6. \A job \in JobPlaces : Mount(job, "release") \in Places
  BY DEF JobPlaces, Mount, Places
<1>7. ReleaseMapsHold
  BY <1>6 DEF Init, ReleaseMapsHold
<1>8. StartedPodsRead
  BY DEF Init, StartedPodsRead, Started
<1> QED
  BY <1>2, <1>5, <1>7, <1>8 DEF SetupInv, WorkerKnows, AllBelong, Init

LEMMA OneMoreChange ==
    ASSUME TypeOK, changes < MaxChanges, changes' = changes + 1
    PROVE  changes' \in 0 .. MaxChanges
<1>1. changes \in 0 .. MaxChanges
  BY DEF TypeOK
<1> QED
  BY <1>1, BoundAssumption

LEMMA BeginStep ==
    ASSUME TypeOK, AllBelong, NEW u \in UA, Begin(u)
    PROVE  TypeOK' /\ (lost => lost') /\ WorkerKnows' /\ AllBelong'
<1>1. config[u] \in Objects
  BY DEF TypeOK, Begin
<1>2. config[u].c \in Configs
  BY <1>1 DEF Objects
<1> DEFINE release == DesiredRelease(config[u].c)
<1>3. release \in Releases /\ BelongTogether(release)
  BY <1>2, DesiredReleaseType DEF AllBelong
<1> HIDE DEF release
<1>4. PICK type \in {platform, ""} :
        /\ RecordInfrastructure(u, type)
        /\ local' = [name |-> u, object |-> config[u], type |-> type, release |-> release]
  BY DEF Begin, release
<1>5. type \in Types
  BY DEF TypeOK, Types
<1>6. local' \in [name : UA, object : Objects, release : Releases, type : Types]
      /\ pc' = "images"
  BY <1>1, <1>3, <1>4, <1>5 DEF Begin
<1>7. /\ recorded' \subseteq UA /\ lost' \in BOOLEAN /\ (lost => lost')
      /\ changes' \in 0 .. MaxChanges
  <2>1. CASE type = platform /\ recorded' = recorded \union {u} /\ UNCHANGED <<lost, changes>>
    BY <2>1 DEF TypeOK
  <2>2. CASE changes < MaxChanges /\ changes' = changes + 1 /\ lost' = TRUE /\ recorded' = recorded
    <3>1. changes' \in 0 .. MaxChanges
      BY <2>2, OneMoreChange
    <3>2. lost' \in BOOLEAN /\ (lost => lost')
      BY <2>2
    <3> QED
      BY <2>2, <3>1, <3>2 DEF TypeOK
  <2> QED
    BY <1>4, <2>1, <2>2 DEF RecordInfrastructure
<1>8. TypeOK' /\ determined' = determined \union {release}
  <2>1. determined' = determined \union {release}
    BY DEF Begin, release
  <2> QED
    <3>1. determined' \subseteq Releases
      BY <1>3, <2>1 DEF TypeOK
    <3> QED
      BY <1>6, <1>7, <2>1, <3>1 DEF TypeOK, Begin, Steps, cluster
<1>9. type = platform \/ (type = "" /\ lost')
  BY <1>4 DEF RecordInfrastructure
<1>10. local'.type = type /\ local'.release = release /\ UNCHANGED <<platform, desired>>
  BY <1>4 DEF Begin
<1>11. WorkerKnows'
  BY <1>8, <1>9, <1>10 DEF WorkerKnows, TypesUsed
<1>12. AllBelong'
  BY <1>3, <1>8, <1>10 DEF AllBelong, BelongTogether
<1> QED
  BY <1>7, <1>8, <1>11, <1>12

LEMMA GetReleaseImagesStep ==
    ASSUME TypeOK, GetReleaseImages
    PROVE  TypeOK'
<1>1. local \in [name : UA, object : Objects, release : Releases, type : Types]
  BY LocalType DEF GetReleaseImages
<1>2. CASE config[local.name] = Absent
  BY <1>2 DEF GetReleaseImages, Return, TypeOK, Steps, objects, cluster
<1>3. CASE config[local.name] # Absent
  <2>1. PICK object \in {local.object, config[local.name]} :
          local' = [local EXCEPT !.object = object] /\ pc' = "namespace"
    BY <1>3 DEF GetReleaseImages
  <2>2. object \in Objects
    BY <1>1, <1>3 DEF TypeOK
  <2>3. local' \in [name : UA, object : Objects, release : Releases, type : Types]
    BY <1>1, <2>1, <2>2
  <2> QED
    BY <1>3, <2>1, <2>3 DEF GetReleaseImages, TypeOK, Steps, objects, cluster
<1> QED
  BY <1>2, <1>3

LEMMA NamespaceStep ==
    ASSUME TypeOK, CreateOperatorNamespace
    PROVE  TypeOK'
<1>1. pc # "idle"
  BY DEF CreateOperatorNamespace
<1>2. local \in [name : UA, object : Objects, release : Releases, type : Types]
      /\ local.object.c.namespace \in Namespace
  BY <1>1, LocalType
<1> QED
  BY <1>2 DEF CreateOperatorNamespace, Goto, TypeOK, Steps, objects

(* The ConfigMap of a release is written with the lists of the release that *)
(* its name was made from.                                                  *)
LEMMA ReleaseConfigMapStep ==
    ASSUME SetupInv, CreateReleaseConfigMap
    PROVE  SetupInv'
<1> DEFINE place == Place("release")
           data == ReleaseData(local.release.image, local.type)
<1>1. pc # "idle" /\ TypeOK
  BY DEF CreateReleaseConfigMap, SetupInv
<1>2. place \in Places
  BY <1>1, PlaceType
<1>3. local.release.version \in Version /\ data \in ReleaseLists(local.release.version)
  BY <1>1, LocalType DEF SetupInv, WorkerKnows, ReleaseLists
<1>4. data \in Data
  BY <1>1, <1>3, ReleaseDataType DEF TypeOK
<1>5. CreateConfigMap(place, data, "script") /\ "script" \in Steps \ {"idle"}
  BY DEF CreateReleaseConfigMap, Steps
<1> HIDE DEF data
<1>6. /\ TypeOK'
      /\ maps' \in {maps, [maps EXCEPT ![place] = [data |-> data, owner |-> Owner]]}
  BY <1>1, <1>2, <1>4, <1>5, CreateConfigMapStep
<1>7. UNCHANGED <<jobs, platform, lost, determined>> /\ desired' \in ClusterReleases
  BY <1>5 DEF CreateConfigMap, WriteIfNeeded, WriteBlindly, Write, Goto, Return,
              SetupInv, AllBelong, objects
<1>8. StartedPodsRead'
  BY <1>7, OthersKeepPods DEF SetupInv
<1>9. ReleaseMapsHold'
  <2> SUFFICES ASSUME NEW job \in JobPlaces, maps[Mount(job, "release")]' # Absent
               PROVE  (maps[Mount(job, "release")].data)' \in ReleaseLists(job[2])'
    BY DEF ReleaseMapsHold
  <2>1. Mount(job, "release")' = Mount(job, "release") /\ Mount(job, "release") \in Places
    BY DEF Mount, Places, JobPlaces
  <2>2. ReleaseLists(job[2]) \subseteq ReleaseLists(job[2])'
    BY <1>7, ListsKeep DEF JobPlaces
  <2>3. CASE Mount(job, "release") = place /\ maps' # maps
    <3>1. job[2] = local.release.version
      BY <2>3 DEF Mount, Place
    <3>2. maps'[Mount(job, "release")] = [data |-> data, owner |-> Owner]
      BY <1>1, <1>2, <1>6, <2>1, <2>3 DEF TypeOK
    <3> QED
      BY <1>3, <2>1, <2>2, <3>1, <3>2
  <2>4. CASE ~ (Mount(job, "release") = place /\ maps' # maps)
    <3>1. maps'[Mount(job, "release")] = maps[Mount(job, "release")]
      BY <1>1, <1>2, <1>6, <2>1, <2>4 DEF TypeOK
    <3> QED
      BY <2>1, <2>2, <3>1 DEF SetupInv, ReleaseMapsHold
  <2> QED
    BY <2>3, <2>4
<1>10. WorkerKnows' /\ AllBelong'
  <2>1. pc' = "idle" \/ local' = local
    BY <1>5 DEF CreateConfigMap, WriteIfNeeded, WriteBlindly, Write, Goto, Return
  <2> QED
    BY <1>1, <1>7, <2>1, WorkerKeeps
<1> QED
  BY <1>6, <1>8, <1>9, <1>10 DEF SetupInv

LEMMA ScriptConfigMapStep ==
    ASSUME SetupInv, CreatePullerScriptConfigMap
    PROVE  SetupInv'
<1> DEFINE place == Place("script")
<1>1. pc # "idle" /\ TypeOK /\ place \in Places
  BY PlaceType DEF CreatePullerScriptConfigMap, SetupInv
<1>2. UNCHANGED <<jobs, platform, lost, determined>> /\ desired' \in ClusterReleases
  BY DEF CreatePullerScriptConfigMap, CreateConfigMap, WriteIfNeeded, WriteBlindly, Write,
         Goto, Return, SetupInv, AllBelong, objects, cluster
<1>3. StartedPodsRead' /\ WorkerKnows' /\ AllBelong'
  <2>1. pc' = "idle" \/ local' = local
    BY DEF CreatePullerScriptConfigMap, CreateConfigMap, WriteIfNeeded, WriteBlindly,
           Write, Goto, Return
  <2> QED
    BY <1>1, <1>2, <2>1, OthersKeepPods, WorkerKeeps DEF SetupInv
<1>4. CASE OwnScript
  <2>1. CreateConfigMap(place, PullerScript, "job") /\ "job" \in Steps \ {"idle"}
        /\ PullerScript \in Data
    BY <1>4 DEF CreatePullerScriptConfigMap, Steps, Data
  <2>2. /\ TypeOK'
        /\ maps' \in {maps, [maps EXCEPT ![place] = [data |-> PullerScript, owner |-> Owner]]}
    BY <1>1, <2>1, CreateConfigMapStep
  <2>3. \A job \in JobPlaces : maps'[Mount(job, "release")] = maps[Mount(job, "release")]
    <3>1. \A job \in JobPlaces : Mount(job, "release") \in Places /\ Mount(job, "release") # place
      BY DEF Mount, Place, Places, JobPlaces
    <3> QED
      BY <1>1, <2>2, <3>1 DEF TypeOK
  <2>4. ReleaseMapsHold'
    <3>1. \A job \in JobPlaces : ReleaseLists(job[2]) \subseteq ReleaseLists(job[2])'
      BY <1>2, ListsKeep DEF JobPlaces
    <3> QED
      BY <2>3, <3>1 DEF SetupInv, ReleaseMapsHold, Mount
  <2> QED
    BY <1>3, <2>2, <2>4 DEF SetupInv
<1>5. CASE ~ OwnScript
  <2>1. Goto("job") /\ UNCHANGED <<objects, cluster, changes>>
    BY <1>5 DEF CreatePullerScriptConfigMap
  <2>2. TypeOK'
    BY <1>1, <2>1, LocalType DEF Goto, TypeOK, Steps, objects, cluster
  <2>3. ReleaseMapsHold'
    BY <2>1, OthersKeep DEF SetupInv, Goto, objects, cluster
  <2> QED
    BY <1>3, <2>2, <2>3 DEF SetupInv
<1> QED
  BY <1>4, <1>5

LEMMA CreatePullJobStep ==
    ASSUME SetupInv, CreatePullJob
    PROVE  SetupInv'
<1>1. pc # "idle" /\ TypeOK
  BY DEF CreatePullJob, SetupInv
<1> DEFINE new == [owner |-> Owner, script |-> local.object.c.script, images |-> Pending]
<1>2. JobPlace \in JobPlaces /\ new \in Jobs
  <2>1. local.object.c.script \in {c.script : c \in Configs}
    BY <1>1, LocalType
  <2>2. Owner \in Owners
    BY <1>1, LocalType
  <2>4. new \in Jobs
    BY <2>1, <2>2 DEF Jobs
  <2>3. JobPlace \in JobPlaces
    BY <1>1, LocalType DEF JobPlace, JobPlaces
  <2> QED
    BY <2>3, <2>4
<1>3. /\ jobs' \in {jobs, [jobs EXCEPT ![JobPlace] = new]}
      /\ UNCHANGED <<maps, platform, lost, local, determined>> /\ desired' \in ClusterReleases
  BY DEF CreatePullJob, Goto, SetupInv, AllBelong, objects
<1>4. jobs' \in [JobPlaces -> Jobs]
  BY <1>1, <1>2, <1>3 DEF TypeOK
<1>5. TypeOK'
  BY <1>1, <1>4, LocalType DEF CreatePullJob, Goto, TypeOK, Steps, objects
<1>6. ReleaseMapsHold'
  BY <1>3, OthersKeep DEF SetupInv
<1>7. StartedPodsRead'
  <2> SUFFICES ASSUME NEW job \in JobPlaces, Started(job)'
               PROVE  \E data \in ReleaseLists(job[2])' : jobs'[job].images = data.filtered
    BY DEF StartedPodsRead
  <2>1. jobs'[job] = jobs[job]
    BY <1>1, <1>2, <1>3 DEF TypeOK, Started
  <2>2. ReleaseLists(job[2]) \subseteq ReleaseLists(job[2])'
    BY <1>3, ListsKeep DEF JobPlaces
  <2> QED
    BY <2>1, <2>2 DEF SetupInv, StartedPodsRead, Started
<1>8. WorkerKnows' /\ AllBelong'
  BY <1>1, <1>3, WorkerKeeps
<1> QED
  BY <1>5, <1>6, <1>7, <1>8 DEF SetupInv

LEMMA ListJobsStep ==
    ASSUME TypeOK, ListJobs
    PROVE  TypeOK'
<1>1. local.name \in UA
  BY LocalType DEF ListJobs
<1>2. complete' \subseteq UA
  BY <1>1 DEF ListJobs, TypeOK
<1> QED
  BY <1>2 DEF ListJobs, Return, TypeOK, Steps, cluster

(* A pod starts with the images of the ConfigMap, which are its release's.  *)
LEMMA StartPodStep ==
    ASSUME SetupInv, NEW job \in JobPlaces, StartPod(job)
    PROVE  SetupInv'
<1> DEFINE images == maps[Mount(job, "release")].data.filtered
<1>1. TypeOK /\ jobs[job] \in Jobs /\ jobs[job] # Absent
  BY DEF StartPod, Waits, SetupInv, TypeOK
<1>2. job[2] \in Version
  BY DEF JobPlaces
<1>3. PICK data \in ReleaseLists(job[2]) : images = data.filtered
  BY DEF StartPod, SetupInv, ReleaseMapsHold
<1>4. images \in SUBSET DOMAIN Mentions
  BY <1>1, <1>2, <1>3, ReleaseDataType DEF TypeOK
<1>5. /\ jobs' = [jobs EXCEPT ![job].images = images]
      /\ UNCHANGED <<maps, platform, lost, local, pc, determined>> /\ desired' \in ClusterReleases
  BY DEF StartPod, SetupInv, AllBelong, objects, worker
<1> HIDE DEF images
<1>6. [jobs[job] EXCEPT !.images = images] \in Jobs
  BY <1>1, <1>4 DEF Jobs
<1>7. jobs' \in [JobPlaces -> Jobs]
  BY <1>1, <1>5, <1>6 DEF TypeOK
<1>8. TypeOK'
  BY <1>1, <1>7 DEF StartPod, TypeOK, objects, worker
<1>9. ReleaseMapsHold'
  BY <1>5, OthersKeep DEF SetupInv
<1>10. StartedPodsRead'
  <2> SUFFICES ASSUME NEW other \in JobPlaces, Started(other)'
               PROVE  \E list \in ReleaseLists(other[2])' : jobs'[other].images = list.filtered
    BY DEF StartedPodsRead
  <2>1. ReleaseLists(other[2]) \subseteq ReleaseLists(other[2])'
    BY <1>5, ListsKeep DEF JobPlaces
  <2>2. CASE other = job
    <3>1. jobs'[job].images = images
      BY <1>1, <1>5 DEF TypeOK, Jobs
    <3> QED
      BY <1>3, <2>1, <2>2, <3>1
  <2>3. CASE other # job
    <3>1. jobs'[other] = jobs[other]
      BY <1>1, <1>5, <2>3 DEF TypeOK
    <3> QED
      BY <2>1, <3>1 DEF SetupInv, StartedPodsRead, Started
  <2> QED
    BY <2>2, <2>3
<1>11. WorkerKnows' /\ AllBelong'
  BY <1>5, WorkerKeeps DEF SetupInv
<1> QED
  BY <1>8, <1>9, <1>10, <1>11 DEF SetupInv

LEMMA CollectMapStep ==
    ASSUME SetupInv, NEW place \in Places, CollectMap(place)
    PROVE  SetupInv'
<1>1. /\ TypeOK /\ maps' = [maps EXCEPT ![place] = Absent]
      /\ UNCHANGED <<jobs, platform, lost, pc, local, determined>> /\ desired' \in ClusterReleases
  BY DEF CollectMap, SetupInv, AllBelong, objects, worker
<1>2. maps' \in [Places -> Maps]
  BY <1>1 DEF TypeOK, Maps
<1>3. TypeOK'
  BY <1>1, <1>2 DEF CollectMap, TypeOK, objects, worker
<1>4. ReleaseMapsHold'
  <2> SUFFICES ASSUME NEW job \in JobPlaces, maps[Mount(job, "release")]' # Absent
               PROVE  (maps[Mount(job, "release")].data)' \in ReleaseLists(job[2])'
    BY DEF ReleaseMapsHold
  <2>1. Mount(job, "release")' = Mount(job, "release") /\ Mount(job, "release") \in Places
    BY DEF Mount, Places, JobPlaces
  <2>2. maps'[Mount(job, "release")] = maps[Mount(job, "release")]
    BY <1>1, <2>1 DEF TypeOK
  <2>3. ReleaseLists(job[2]) \subseteq ReleaseLists(job[2])'
    BY <1>1, ListsKeep DEF JobPlaces
  <2> QED
    BY <2>1, <2>2, <2>3 DEF SetupInv, ReleaseMapsHold
<1>5. StartedPodsRead' /\ WorkerKnows' /\ AllBelong'
  BY <1>1, OthersKeepPods, WorkerKeeps DEF SetupInv
<1> QED
  BY <1>3, <1>4, <1>5 DEF SetupInv

LEMMA CollectJobStep ==
    ASSUME SetupInv, NEW job \in JobPlaces, CollectJob(job)
    PROVE  SetupInv'
<1>1. /\ TypeOK /\ jobs' = [jobs EXCEPT ![job] = Absent]
      /\ UNCHANGED <<maps, platform, lost, pc, local, determined>> /\ desired' \in ClusterReleases
  BY DEF CollectJob, SetupInv, AllBelong, objects, worker
<1>2. jobs' \in [JobPlaces -> Jobs]
  BY <1>1 DEF TypeOK, Jobs
<1>3. TypeOK'
  BY <1>1, <1>2 DEF CollectJob, TypeOK, objects, worker
<1>4. ReleaseMapsHold' /\ WorkerKnows' /\ AllBelong'
  BY <1>1, OthersKeep, WorkerKeeps DEF SetupInv
<1>5. StartedPodsRead'
  <2> SUFFICES ASSUME NEW other \in JobPlaces, Started(other)'
               PROVE  \E list \in ReleaseLists(other[2])' : jobs'[other].images = list.filtered
    BY DEF StartedPodsRead
  <2>1. jobs'[other] = jobs[other]
    BY <1>1 DEF TypeOK, Started
  <2>2. ReleaseLists(other[2]) \subseteq ReleaseLists(other[2])'
    BY <1>1, ListsKeep DEF JobPlaces
  <2> QED
    BY <2>1, <2>2 DEF SetupInv, StartedPodsRead, Started
<1> QED
  BY <1>3, <1>4, <1>5 DEF SetupInv

LEMMA EditStep ==
    ASSUME TypeOK, NEW u \in UA, Edit(u)
    PROVE  TypeOK'
<1>1. PICK object \in Objects \union {Absent} : WriteObject(u, object)
  <2>1. CASE WriteObject(u, Absent)
    BY <2>1
  <2>2. ASSUME NEW c \in Configs,
               WriteObject(u, [uid |-> IF config[u] = Absent THEN changes + 1
                                                              ELSE config[u].uid, c |-> c])
        PROVE  \E object \in Objects \union {Absent} : WriteObject(u, object)
    <3> DEFINE uid == IF config[u] = Absent THEN changes + 1 ELSE config[u].uid
    <3>1. changes + 1 \in 0 .. MaxChanges
      BY <2>2, BoundAssumption DEF WriteObject, TypeOK
    <3>2. config[u] # Absent => config[u].uid \in 0 .. MaxChanges
      BY DEF TypeOK, Objects
    <3>3. uid \in 0 .. MaxChanges
      BY <3>1, <3>2
    <3> HIDE DEF uid
    <3>4. [uid |-> uid, c |-> c] \in Objects
      BY <3>3 DEF Objects
    <3> QED
      BY <2>2, <3>4 DEF uid
  <2> QED
    BY <2>1, <2>2 DEF Edit
<1>2. /\ config' \in [UA -> Objects \union {Absent}]
      /\ complete' \subseteq UA /\ recorded' \subseteq UA
  BY <1>1 DEF WriteObject, TypeOK
<1>3. changes' \in 0 .. MaxChanges
  BY <1>1, BoundAssumption DEF WriteObject, TypeOK
<1> QED
  BY <1>1, <1>2, <1>3 DEF WriteObject, TypeOK, cluster, worker

--------------------------------------------------------------------------------
LEMMA SetupInvInductive == SetupInv /\ [Next]_vars => SetupInv'
<1> SUFFICES ASSUME SetupInv, [Next]_vars PROVE SetupInv'
  OBVIOUS
<1>1. TypeOK
  BY DEF SetupInv
<1>2. ASSUME TypeOK', UNCHANGED <<maps, jobs, platform>>, lost => lost',
             determined \subseteq determined',
             WorkerKnows' /\ AllBelong'
      PROVE  SetupInv'
  BY <1>2, OthersKeep, OthersKeepPods DEF SetupInv
<1>3. ASSUME TypeOK', UNCHANGED <<maps, jobs, platform, lost, determined>>,
             desired' \in ClusterReleases,
             \/ pc' = "idle" \/ UNCHANGED <<pc, local>>
             \/ pc # "idle" /\ local'.type = local.type /\ local'.release = local.release
      PROVE  SetupInv'
  BY <1>2, <1>3, WorkerKeeps
<1>d. desired \in ClusterReleases
  BY DEF SetupInv, AllBelong
<1>4. CASE GetReleaseImages
  <2>1. pc # "idle" /\ local \in [name : UA, object : Objects, release : Releases, type : Types]
    BY <1>1, <1>4, LocalType DEF GetReleaseImages
  <2>2. /\ pc' = "idle" \/ (local'.type = local.type /\ local'.release = local.release)
        /\ determined' = determined
    BY <1>4, <2>1 DEF GetReleaseImages, Return
  <2> QED
    BY <1>1, <1>3, <1>4, <1>d, <2>1, <2>2, GetReleaseImagesStep
       DEF GetReleaseImages, objects, cluster
<1>5. CASE CreateOperatorNamespace
  BY <1>1, <1>3, <1>5, <1>d, NamespaceStep DEF CreateOperatorNamespace, Goto, objects
<1>6. CASE CreateReleaseConfigMap
  BY <1>6, ReleaseConfigMapStep
<1>7. CASE CreatePullerScriptConfigMap
  BY <1>7, ScriptConfigMapStep
<1>8. CASE CreatePullJob
  BY <1>8, CreatePullJobStep
<1>9. CASE ListJobs
  BY <1>1, <1>3, <1>9, <1>d, ListJobsStep DEF ListJobs, Return, cluster
<1>10. CASE CallFails
  <2>1. TypeOK'
    BY <1>1, <1>10, BoundAssumption DEF CallFails, Return, TypeOK, Steps, objects, cluster
  <2> QED
    BY <1>3, <1>10, <1>d, <2>1 DEF CallFails, Return, objects, cluster
<1>11. CASE \E u \in UA : Begin(u)
  <2>1. UNCHANGED <<maps, jobs, platform>> /\ determined \subseteq determined'
    BY <1>11 DEF Begin, cluster
  <2> QED
    BY <1>1, <1>2, <1>11, <2>1, BeginStep DEF SetupInv
<1>12. CASE \E u \in UA : Edit(u)
  <2>1. TypeOK'
    BY <1>1, <1>12, EditStep
  <2>2. UNCHANGED <<maps, jobs, platform, lost, desired, pc, local, determined>>
    BY <1>12 DEF Edit, WriteObject, cluster, worker
  <2> QED
    BY <1>3, <1>d, <2>1, <2>2
<1>13. CASE \E job \in JobPlaces : StartPod(job) \/ CollectJob(job)
  BY <1>13, StartPodStep, CollectJobStep
<1>14. CASE \E place \in Places : CollectMap(place)
  BY <1>14, CollectMapStep
<1>15. CASE Sync
  <2>1. TypeOK'
    BY <1>1, <1>15 DEF Sync, TypeOK, objects, worker
  <2> QED
    BY <1>3, <1>15, <1>d, <2>1 DEF Sync, objects, worker
<1>16. CASE \E release \in ClusterReleases : ChangeVersion(release)
  <2>1. TypeOK' /\ desired' \in ClusterReleases
    BY <1>1, <1>16, BoundAssumption, ReleaseAssumption DEF ChangeVersion, TypeOK, cluster, worker
  <2> QED
    BY <1>3, <1>16, <2>1 DEF ChangeVersion, cluster, worker
<1>17. CASE UNCHANGED vars
  <2>1. TypeOK'
    BY <1>1, <1>17 DEF TypeOK, vars
  <2> QED
    BY <1>3, <1>17, <1>d, <2>1 DEF vars
<1> QED
  BY <1>4, <1>5, <1>6, <1>7, <1>8, <1>9, <1>10, <1>11, <1>12, <1>13, <1>14,
     <1>15, <1>16, <1>17 DEF Next, SetupResources

LEMMA Reachable == Spec => []SetupInv
BY InitHolds, SetupInvInductive, PTL DEF Spec

(* Every variable keeps its type; a ConfigMap holds the lists of a release  *)
(* or the script, and nothing else.                                         *)
THEOREM TypeCorrect == Spec => []TypeOK
<1>1. SetupInv => TypeOK
  BY DEF SetupInv
<1> QED
  BY <1>1, Reachable, PTL

(* A pod pulls all the images that the version of its job needs on this     *)
(* platform, as an image lists them that a reconcile has determined for that *)
(* version from the cluster, the registry or an administrator; and others   *)
(* of that image only after an update that should have recorded the         *)
(* platform was lost.  So it is whatever objects share its ConfigMap, give  *)
(* different images for one version, are edited, deleted, created anew or   *)
(* served from an old cache.                                                *)
THEOREM PodsPullTheirRelease == Spec => []JobsPullTheirRelease
<1>1. SetupInv => JobsPullTheirRelease
  <2> SUFFICES ASSUME SetupInv, NEW job \in JobPlaces, Started(job)
               PROVE  \E release \in determined :
                        LET names == NamesOf[release.image] IN
                        /\ release.version = job[2] /\ BelongTogether(release)
                        /\ jobs[job].images \subseteq names
                        /\ platform \in DOMAIN OwnPrefix =>
                             \A name \in names :
                                 LET ours == Mentions[name] \subseteq {OwnPrefix[platform]} IN
                                 /\ ours => name \in jobs[job].images
                                 /\ name \in jobs[job].images => ours \/ lost
    BY DEF JobsPullTheirRelease
  <2>1. TypeOK /\ job[2] \in Version
    BY DEF JobPlaces, SetupInv
  <2>2. PICK data \in ReleaseLists(job[2]) : jobs[job].images = data.filtered
    BY DEF SetupInv, StartedPodsRead
  <2>3. PICK release \in determined, type \in TypesUsed :
          /\ release.version = job[2]
          /\ jobs[job].images = FilterReleaseImages(NamesOf[release.image], type)
    BY <2>1, <2>2, ReleaseDataType
  <2> DEFINE names == NamesOf[release.image]
  <2>4. BelongTogether(release)
    BY DEF SetupInv, AllBelong
  <2>5. names \in SUBSET DOMAIN Mentions
    BY <2>1, ReleaseAssumption DEF TypeOK, Releases
  <2>6. jobs[job].images \subseteq names
    BY <2>3 DEF FilterReleaseImages
  <2>7. ASSUME platform \in DOMAIN OwnPrefix, NEW name \in names
        PROVE  LET ours == Mentions[name] \subseteq {OwnPrefix[platform]} IN
               /\ ours => name \in jobs[job].images
               /\ name \in jobs[job].images => ours \/ lost
    <3>1. CASE type = platform
      BY <2>3, <2>5, <2>7, <3>1, FilterKeepsOwn
    <3>2. CASE type = "" /\ lost
      <4>1. Removed("") = {}
        BY DEF Removed, OwnPrefix
      <4>2. jobs[job].images = names
        BY <2>3, <3>2, <4>1 DEF FilterReleaseImages
      <4> QED
        BY <3>2, <4>2
    <3> QED
      BY <3>1, <3>2 DEF TypesUsed
  <2> QED
    BY <2>3, <2>4, <2>6, <2>7
<1> QED
  BY <1>1, Reachable, PTL

================================================================================
