--------------------------------- MODULE Setup ---------------------------------
(***************************************************************************)
(* What a pull job needs before its pod can start, and how setupResources  *)
(* (upgradeaccelerator_setup.go) provides it: the release whose images are *)
(* to be pulled, the namespace, and two ConfigMaps that the pod mounts.    *)
(* One node is enough here; module Reconciler has the nodes.               *)
(*                                                                         *)
(* Names of ConfigMaps and jobs hold a hash of the version and not the     *)
(* name of the UpgradeAccelerator, so that several objects share them,     *)
(* while each is owned, and collected, with the object that made it.       *)
(***************************************************************************)
EXTENDS Naturals

CONSTANTS
    UA,          \* names of UpgradeAccelerators
    Configs,     \* the config sections an administrator may write
    FirstConfigs,\* those the objects may have at the start
    Version, Image,
    ClusterReleases,\* what the ClusterVersion may desire
    FirstReleases,\* what it may desire at the start
    ImageOf,     \* version |-> its image, and ...
    VersionOf,   \* ... image |-> its version, as "oc adm release info" tells
    NamesOf,     \* release image |-> the names of the images it lists
    Mentions,    \* name |-> the platform prefixes that occur in it
    Platforms,   \* what the type of the infrastructure may be
    PullerScript,\* the data of the ConfigMap with the operator's script
    Absent,      \* no such object
    Pending,     \* the pod of a job waits for what it mounts
    MaxChanges   \* bound: edits, deletions, creations and failures

(* The prefixes of platforms in the names of images.                       *)
Prefixes == {"aws-", "azure-", "gcp-", "ibm-", "ibmcloud-", "libvirt-", "nutanix-",
             "openstack-", "ovirt-", "powervs-", "vsphere-"}

Releases == [version : Version, image : Image]

(* Any image may say that it is of any version: mirrors, other builds.     *)
ASSUME ReleaseAssumption ==
    /\ ImageOf \in [Version -> Image] /\ VersionOf \in [Image -> Version]
    /\ ClusterReleases \subseteq Releases /\ FirstReleases \subseteq ClusterReleases
    /\ NamesOf \in [Image -> SUBSET DOMAIN Mentions]
    /\ \A name \in DOMAIN Mentions : Mentions[name] \subseteq Prefixes

(* A config with neither override leaves the version to the ClusterVersion. *)
(* An empty script stands for the operator's own.                          *)
ASSUME ConfigAssumption ==
    /\ FirstConfigs \subseteq Configs
    /\ \A c \in Configs : c.version \in Version \union {""} /\ c.image \in Image \union {""}
ASSUME EmptyAssumption == "" \notin Version \union Image
ASSUME BoundAssumption == MaxChanges \in Nat

Namespace == {c.namespace : c \in Configs}
Places == Namespace \X {"release", "script"} \X Version
JobPlaces == Namespace \X Version

VARIABLES
    config,      \* object |-> its config and uid, or Absent
    complete,    \* the objects whose node is preheated: Reconcile returns early
    desired,     \* the release that the ClusterVersion desires
    platform,    \* the type of the infrastructure
    recorded,    \* the objects whose status holds it
    lost,        \* whether an update that should have recorded it has failed
    namespaces,  \* the namespaces there are
    maps,        \* place |-> data and owner of the ConfigMap, or Absent
    view,        \* the informer's copy of maps
    jobs,        \* namespace and version |-> owner, script and images, or Absent
    pc,          \* the step of the worker
    local,       \* its object, its copy of it, and what it set out with
    determined,  \* history: the releases that a call of Reconcile set out with
    changes

objects == <<config, complete, desired, platform, recorded, lost>>
cluster == <<namespaces, maps, view, jobs>>
worker == <<pc, local, determined>>
vars == <<config, complete, desired, platform, recorded, lost, namespaces, maps,
          view, jobs, pc, local, determined, changes>>

OwnPrefix ==
    [AWS |-> "aws-", Azure |-> "azure-", GCP |-> "gcp-", IBMCloud |-> "ibmcloud-",
     Libvirt |-> "libvirt-", Nutanix |-> "nutanix-", OpenStack |-> "openstack-",
     oVirt |-> "ovirt-", PowerVS |-> "powervs-", VSphere |-> "vsphere-"]

(* The prefixes that the filter of a platform matches; none if it has none. *)
Removed(type) ==
    IF type \in {"None", "BareMetal"} THEN Prefixes
    ELSE IF type \in DOMAIN OwnPrefix THEN Prefixes \ {OwnPrefix[type]} ELSE {}

FilterReleaseImages(names, type) == {name \in names : Mentions[name] \cap Removed(type) = {}}

(* A mutant: the two lists are handed over in the wrong order.             *)
ReleaseDataSwapped(image, type) ==
    [total |-> FilterReleaseImages(NamesOf[image], type), filtered |-> NamesOf[image]]

ReleaseData(image, type) ==
    [total |-> NamesOf[image], filtered |-> FilterReleaseImages(NamesOf[image], type)]

Objects == {[uid |-> n, c |-> c] : n \in 0 .. MaxChanges, c \in Configs}
Types == Platforms \union {""}
Data == {[total |-> NamesOf[i], filtered |-> FilterReleaseImages(NamesOf[i], type)] :
            i \in Image, type \in Types} \union {PullerScript}
Owners == UA \X (0 .. MaxChanges)
Maps == [data : Data, owner : Owners] \union {Absent}
Jobs == [owner : Owners, script : {c.script : c \in Configs},
         images : (SUBSET DOMAIN Mentions) \union {Pending}] \union {Absent}
Steps == {"idle", "images", "namespace", "release", "script", "job", "list"}

TypeOK ==
    /\ config \in [UA -> Objects \union {Absent}]
    /\ complete \subseteq UA
    /\ desired \in Releases /\ platform \in Platforms
    /\ recorded \subseteq UA /\ lost \in BOOLEAN
    /\ namespaces \subseteq Namespace
    /\ maps \in [Places -> Maps] /\ view \in [Places -> Maps]
    /\ jobs \in [JobPlaces -> Jobs]
    /\ pc \in Steps
    /\ local \in IF pc = "idle" THEN {Absent}
                 ELSE [name : UA, object : Objects, release : Releases, type : Types]
    /\ determined \subseteq Releases /\ changes \in 0 .. MaxChanges

(* The ConfigMaps that the pod of a job mounts, and whether it has.         *)
Mount(job, kind) == <<job[1], kind, job[2]>>
Waits(job) == jobs[job] # Absent /\ jobs[job].images = Pending
Started(job) == jobs[job] # Absent /\ jobs[job].images # Pending

Init ==
    /\ \E c \in FirstConfigs : config = [u \in UA |-> [uid |-> 0, c |-> c]]
    /\ complete = {}
    /\ desired \in FirstReleases /\ platform \in Platforms
    /\ recorded = {} /\ lost = FALSE
    /\ namespaces = {}
    /\ maps = [p \in Places |-> Absent] /\ view = maps
    /\ jobs = [job \in JobPlaces |-> Absent]
    /\ pc = "idle" /\ local = Absent
    /\ determined = {} /\ changes = 0

--------------------------------------------------------------------------------
(***************************************************************************)
(* One call of Reconcile, as far as it concerns the setup.                 *)
(***************************************************************************)
(* A mutant: an override of the image keeps the version of the cluster.    *)
DesiredOfCluster(c) ==
    IF c.image # "" THEN [version |-> desired.version, image |-> c.image] ELSE desired

(* getDesiredVersion: what is missing of an override is looked up.         *)
DesiredRelease(c) ==
    CASE c.version # "" /\ c.image # "" -> [version |-> c.version, image |-> c.image]
      [] c.version # "" /\ c.image = "" ->
            [version |-> c.version, image |-> ImageOf[c.version]]
      [] c.version = "" /\ c.image # "" ->
            [version |-> VersionOf[c.image], image |-> c.image]
      [] OTHER -> desired

Goto(step) == pc' = step /\ UNCHANGED <<local, determined>>
Return == pc' = "idle" /\ local' = Absent /\ UNCHANGED determined

(* The type of the infrastructure is recorded by an update whose error is   *)
(* ignored; the object is then read again, and without the type if it was  *)
(* not stored.                                                             *)
RecordInfrastructure(u, type) ==
    \/ type = platform /\ recorded' = recorded \union {u} /\ UNCHANGED <<lost, changes>>
    \/ /\ type = "" /\ u \notin recorded /\ changes < MaxChanges
       /\ changes' = changes + 1 /\ lost' = TRUE
       /\ UNCHANGED recorded

Begin(u) ==
    /\ pc = "idle" /\ config[u] # Absent /\ u \notin complete
    /\ pc' = "images"
    /\ \E type \in {platform, ""} :
         /\ RecordInfrastructure(u, type)
         /\ local' = [name |-> u, object |-> config[u], type |-> type,
                      release |-> DesiredRelease(config[u].c)]
    /\ determined' = determined \union {DesiredRelease(config[u].c)}
    /\ UNCHANGED <<config, complete, desired, platform, cluster>>

(* The object is read again before its resources are set up, which may     *)
(* bring a later config than the one the release was taken from.           *)
GetReleaseImages ==
    /\ pc = "images"
    /\ IF config[local.name] = Absent
       THEN Return
       ELSE /\ \E object \in {local.object, config[local.name]} :
                 local' = [local EXCEPT !.object = object]
            /\ pc' = "namespace" /\ UNCHANGED determined
    /\ UNCHANGED <<objects, cluster, changes>>

CreateOperatorNamespace ==
    /\ pc = "namespace"
    /\ namespaces' = namespaces \union {local.object.c.namespace}
    /\ Goto("release")
    /\ UNCHANGED <<objects, maps, view, jobs, changes>>

Owner == <<local.name, local.object.uid>>

(* Write a ConfigMap from what the cache says of it: a creation fails when *)
(* there is one already, an update when there is none any more.            *)
Write(place, data, next) ==
    /\ maps' = [maps EXCEPT ![place] = [data |-> data, owner |-> Owner]]
    /\ Goto(next)

WriteIfNeeded(place, data, next) ==
    IF view[place] = Absent
    THEN IF maps[place] = Absent THEN Write(place, data, next)
                                 ELSE Return /\ UNCHANGED maps
    ELSE IF view[place].data = data THEN Goto(next) /\ UNCHANGED maps
    ELSE IF maps[place] # Absent THEN Write(place, data, next)
                                 ELSE Return /\ UNCHANGED maps

(* After an error other than NotFound the code compares with an empty      *)
(* ConfigMap, finds a difference, and updates.                             *)
WriteBlindly(place, data, next) ==
    /\ changes < MaxChanges /\ changes' = changes + 1
    /\ IF maps[place] # Absent THEN Write(place, data, next)
                               ELSE Return /\ UNCHANGED maps

CreateConfigMap(place, data, next) ==
    /\ \/ WriteIfNeeded(place, data, next) /\ UNCHANGED changes
       \/ WriteBlindly(place, data, next)
    /\ UNCHANGED <<objects, namespaces, view, jobs>>

Place(kind) == <<local.object.c.namespace, kind, local.release.version>>

CreateReleaseConfigMap ==
    /\ pc = "release"
    /\ CreateConfigMap(Place("release"), ReleaseData(local.release.image, local.type), "script")

(* A mutant: the operator's script is written for those who have their own. *)
OtherScript == local.object.c.script # ""

OwnScript == local.object.c.script = ""

CreatePullerScriptConfigMap ==
    /\ pc = "script"
    /\ IF OwnScript
       THEN CreateConfigMap(Place("script"), PullerScript, "job")
       ELSE Goto("job") /\ UNCHANGED <<objects, cluster, changes>>

JobPlace == <<local.object.c.namespace, local.release.version>>

CreatePullJob ==
    /\ pc = "job"
    /\ jobs' = IF jobs[JobPlace] # Absent THEN jobs
               ELSE [jobs EXCEPT ![JobPlace] =
                       [owner |-> Owner, script |-> local.object.c.script, images |-> Pending]]
    /\ Goto("list")
    /\ UNCHANGED <<objects, namespaces, maps, view, changes>>

(* The job that the next listing finds succeeded makes its node preheated; *)
(* the update is refused when the object has changed since it was read.    *)
ListJobs ==
    /\ pc = "list"
    /\ complete' = IF Started(JobPlace) /\ config[local.name] = local.object
                   THEN complete \union {local.name} ELSE complete
    /\ Return
    /\ UNCHANGED <<config, desired, platform, recorded, lost, cluster, changes>>

(* A call fails, or the process ends: a later call starts again.           *)
CallFails ==
    /\ pc # "idle" /\ changes < MaxChanges
    /\ changes' = changes + 1
    /\ Return
    /\ UNCHANGED <<objects, cluster>>

--------------------------------------------------------------------------------
(***************************************************************************)
(* The cluster: kubelet, informers, garbage collector, administrators.     *)
(***************************************************************************)
(* A pod waits until the ConfigMaps it mounts are there, and then reads    *)
(* them.  A script of the administrator's is there.                        *)
StartPod(job) ==
    /\ Waits(job) /\ maps[Mount(job, "release")] # Absent
    /\ jobs[job].script = "" => maps[Mount(job, "script")] # Absent
    /\ jobs' = [jobs EXCEPT ![job].images = maps[Mount(job, "release")].data.filtered]
    /\ UNCHANGED <<objects, namespaces, maps, view, worker, changes>>

Gone(owner) == config[owner[1]] # Absent => config[owner[1]].uid # owner[2]

CollectMap(place) ==
    /\ maps[place] # Absent /\ Gone(maps[place].owner)
    /\ maps' = [maps EXCEPT ![place] = Absent]
    /\ UNCHANGED <<objects, namespaces, view, jobs, worker, changes>>

CollectJob(job) ==
    /\ jobs[job] # Absent /\ Gone(jobs[job].owner)
    /\ jobs' = [jobs EXCEPT ![job] = Absent]
    /\ UNCHANGED <<objects, namespaces, maps, view, worker, changes>>

(* One informer for all ConfigMaps: its copies are how they all were once. *)
Sync ==
    /\ view # maps /\ view' = maps
    /\ UNCHANGED <<objects, namespaces, maps, jobs, worker, changes>>

(* An object is created, edited or deleted.                                *)
WriteObject(u, object) ==
    /\ changes < MaxChanges /\ changes' = changes + 1
    /\ object # config[u]
    /\ config' = [config EXCEPT ![u] = object]
    /\ IF object = Absent
       THEN complete' = complete \ {u} /\ recorded' = recorded \ {u}
       ELSE UNCHANGED <<complete, recorded>>
    /\ UNCHANGED <<desired, platform, lost, cluster, worker>>

Edit(u) ==
    \/ config[u] # Absent /\ WriteObject(u, Absent)
    \/ \E c \in Configs :
         WriteObject(u, [uid |-> IF config[u] = Absent THEN changes + 1 ELSE config[u].uid,
                         c |-> c])

ChangeVersion(release) ==
    /\ changes < MaxChanges /\ changes' = changes + 1
    /\ desired # release /\ desired' = release
    /\ UNCHANGED <<config, complete, platform, recorded, lost, cluster, worker>>

--------------------------------------------------------------------------------
SetupResources ==
    \/ GetReleaseImages
    \/ CreateOperatorNamespace
    \/ CreateReleaseConfigMap
    \/ CreatePullerScriptConfigMap
    \/ CreatePullJob
    \/ ListJobs

Next ==
    \/ SetupResources
    \/ CallFails
    \/ \E u \in UA : Begin(u) \/ Edit(u)
    \/ \E job \in JobPlaces : StartPod(job) \/ CollectJob(job)
    \/ \E place \in Places : CollectMap(place)
    \/ Sync
    \/ \E release \in ClusterReleases : ChangeVersion(release)

Spec == Init /\ [][Next]_vars

(* Every object is called again in its turn; kubelet, informers and        *)
(* garbage collector do their work, in whatever order.                     *)
Fairness ==
    /\ WF_vars(SetupResources)
    /\ \A u \in UA : SF_vars(Begin(u))
    /\ WF_vars(\E job \in JobPlaces : StartPod(job))
    /\ WF_vars(\E job \in JobPlaces : CollectJob(job))
    /\ WF_vars(\E place \in Places : CollectMap(place))
    /\ WF_vars(Sync)

FairSpec == Spec /\ Fairness

--------------------------------------------------------------------------------
(* A version and an image that belong together: the cluster, the registry   *)
(* or an administrator says so.                                            *)
BelongTogether(release) ==
    \/ release \in ClusterReleases
    \/ release.image = ImageOf[release.version] \/ release.version = VersionOf[release.image]
    \/ \E c \in Configs : c.version = release.version /\ c.image = release.image

(* A pod that has started has been given the images of the version its job *)
(* is named after, from one image that a reconcile has determined for it,  *)
(* whichever object wrote the ConfigMap: all that are of no platform or of *)
(* the cluster's own.  It has none of another platform either, but for an  *)
(* update lost (controller.go:117 ignores its error): without a type in    *)
(* the status nothing is filtered.                                         *)
JobsPullTheirRelease ==
    \A job \in JobPlaces : Started(job) =>
        \E release \in determined :
            LET names == NamesOf[release.image] IN
            /\ release.version = job[2] /\ BelongTogether(release)
            /\ jobs[job].images \subseteq names
            /\ platform \in DOMAIN OwnPrefix =>
                 \A name \in names :
                     LET ours == Mentions[name] \subseteq {OwnPrefix[platform]} IN
                     /\ ours => name \in jobs[job].images
                     /\ name \in jobs[job].images => ours \/ lost

JobOf(c) == <<c.namespace, DesiredRelease(c).version>>

(* A job keeps the script it was made for.  One that waits for the         *)
(* operator's own waits for ever if that ConfigMap was collected and each  *)
(* object that could write it again has been given another script.         *)
Stranded(job) ==
    /\ Waits(job) /\ jobs[job].script = "" /\ maps[Mount(job, "script")] = Absent
    /\ \A u \in UA \ complete : config[u] # Absent =>
         config[u].c.script # "" \/ JobOf(config[u].c) # job

(* Objects share ConfigMaps and jobs, and each deletion takes away what    *)
(* others may be using.  All the same every object that stays ends up with *)
(* its node preheated, once nobody changes anything any more, but for one  *)
(* whose job is stranded.                                                  *)
EventuallyComplete ==
    \A u \in UA : <>[](config[u] # Absent => u \in complete \/ Stranded(JobOf(config[u].c)))
================================================================================
