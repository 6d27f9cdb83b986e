----------------------------- MODULE WatchesProofs -----------------------------
(* What module Watches guarantees for every set of objects and every bound. *)
EXTENDS Watches, TLAPS

(* What the API server and the informers hold of an object.                 *)
LEMMA ValuesAreContents == \A o \in Object : Values(o) \subseteq Contents \union {Absent}
BY DEF Values

LEMMA StoredType ==
    ASSUME TypeOK, NEW o \in Object
    PROVE  Stored(o) \in Values(o)
<1>1. feed[o] \in Seq(Values(o)) /\ cached[o] \in Values(o)
  BY DEF TypeOK
<1>2. CASE feed[o] = <<>>
  BY <1>1, <1>2 DEF Stored
<1>3. CASE feed[o] # <<>>
  BY <1>1, <1>3 DEF Stored
<1> QED
  BY <1>2, <1>3

LEMMA ListedType == Listed \subseteq UA
BY ObjectAssumption DEF Listed

LEMMA KeysType ==
    ASSUME NEW o \in Object
    PROVE  Keys(o) \subseteq UA
BY ObjectAssumption DEF Keys

LEMMA NewType ==
    ASSUME NEW uid \in Nat, NEW version \in Version \union {NoVersion}
    PROVE  New(uid, version) \in Contents
BY DEF New, Contents

LEMMA EditedType ==
    ASSUME NEW contents \in Contents, NEW state \in {"enabled", "disabled"}
    PROVE  [contents EXCEPT !.state = state, !.generation = @ + 1] \in Contents
<1>1. [contents EXCEPT !.state = state] \in Contents
  BY DEF Contents
<1>2. \A c \in Contents : [c EXCEPT !.generation = @ + 1] \in Contents
  BY DEF Contents
<1>3. [contents EXCEPT !.state = state, !.generation = @ + 1]
        = [[contents EXCEPT !.state = state] EXCEPT !.generation = @ + 1]
  BY DEF Contents
<1> QED
  BY <1>1, <1>2, <1>3

LEMMA InitTypes ==
    ASSUME Init
    PROVE  TypeOK
<1>1. PICK version \in Version, existing \in InitialObjects :
         cached = [o \in Object |->
                     IF o \in {ClusterVersion, ClusterOperator} THEN New(0, version)
                     ELSE IF o \in existing THEN New(0, NoVersion) ELSE Absent]
  BY DEF Init
<1>2. New(0, version) \in Contents /\ New(0, NoVersion) \in Contents
  BY NewType
<1>3. \A o \in Object : cached[o] \in Values(o)
  BY <1>1, <1>2 DEF Values
<1>4. cached \in [Object -> Contents \union {Absent}]
  BY <1>1, <1>2
<1>5. /\ feed \in [Object -> Seq(Contents \union {Absent})]
      /\ \A o \in Object : feed[o] \in Seq(Values(o))
  BY DEF Init
<1> QED
  BY <1>3, <1>4, <1>5, ListedType, BoundAssumption DEF Init, TypeOK, NothingRead

(* One object's feed or copy changes, to what it may be.                    *)
LEMMA FeedTypes ==
    ASSUME TypeOK, NEW o \in Object, NEW contents \in Seq(Values(o)),
           feed' = [feed EXCEPT ![o] = contents]
    PROVE  /\ feed' \in [Object -> Seq(Contents \union {Absent})]
           /\ \A x \in Object : feed'[x] \in Seq(Values(x))
<1>1. contents \in Seq(Contents \union {Absent})
  BY ValuesAreContents
<1> QED
  BY <1>1 DEF TypeOK

LEMMA ChangeTypes ==
    ASSUME TypeOK, NEW o \in Object, NEW contents \in Values(o), Change(o, contents)
    PROVE  TypeOK'
<1>1. Append(feed[o], contents) \in Seq(Values(o))
  BY DEF TypeOK
<1>2. /\ feed' \in [Object -> Seq(Contents \union {Absent})]
      /\ \A x \in Object : feed'[x] \in Seq(Values(x))
  BY <1>1, FeedTypes DEF Change
<1>3. changes' \in 0 .. MaxChanges
  BY BoundAssumption DEF TypeOK, Change
<1> QED
  BY <1>2, <1>3 DEF TypeOK, Change

LEMMA ObjectChangeTypes ==
    ASSUME TypeOK, NEW o \in Object, ChangeObject(o)
    PROVE  TypeOK'
<1>1. changes + 1 \in Nat
  BY DEF TypeOK
<1>2. Stored(o) \in Values(o) /\ Contents \subseteq Values(o)
  BY StoredType DEF Values
<1>3. Stored(o) # Absent => Stored(o) \in Contents
  BY <1>2, ValuesAreContents
<1>4. CASE Create(o)
  BY <1>1, <1>2, <1>4, NewType, ChangeTypes DEF Create
<1>5. CASE Delete(o)
  <2>1. Absent \in Values(o)
    BY <1>5, ObjectAssumption DEF Delete, Values
  <2> QED
    BY <1>5, <2>1, ChangeTypes DEF Delete
<1>6. CASE \E state \in {"enabled", "disabled"} : EditSpec(o, state)
  <2>1. PICK state \in {"enabled", "disabled"} : EditSpec(o, state)
    BY <1>6
  <2>2. Stored(o) \in Contents
    BY <1>3, <2>1 DEF EditSpec
  <2>3. [Stored(o) EXCEPT !.state = state, !.generation = @ + 1] \in Contents
    BY <2>2, EditedType
  <2> QED
    BY <1>2, <2>1, <2>3, ChangeTypes DEF EditSpec
<1>7. CASE \E version \in Version \union {NoVersion} : WriteStatus(o, version)
  <2>1. PICK version \in Version \union {NoVersion} : WriteStatus(o, version)
    BY <1>7
  <2>2. Stored(o) \in Contents
    BY <1>3, <2>1 DEF WriteStatus
  <2>3. [Stored(o) EXCEPT !.version = version] \in Contents
    BY <2>2 DEF Contents
  <2> QED
    BY <1>2, <2>1, <2>3, ChangeTypes DEF WriteStatus
<1> QED
  BY <1>4, <1>5, <1>6, <1>7 DEF ChangeObject

LEMMA NotifyTypes ==
    ASSUME TypeOK, NEW o \in Object, NEW contents \in Seq(Values(o)),
           feed' = [feed EXCEPT ![o] = contents],
           NEW new \in Values(o), NEW confirmed, Notify(o, new, confirmed)
    PROVE  TypeOK'
<1>1. /\ cached' \in [Object -> Contents \union {Absent}]
      /\ \A x \in Object : cached'[x] \in Values(x)
  BY ValuesAreContents DEF TypeOK, Notify
<1>2. queue' \subseteq UA /\ changes' \in 0 .. MaxChanges
  BY KeysType, BoundAssumption DEF TypeOK, Notify, MappingFails
<1> QED
  BY <1>1, <1>2, FeedTypes DEF TypeOK, Notify

(* Either way of delivery hands the handlers one event.                     *)
LEMMA DeliveryNotifies ==
    ASSUME NEW o \in Object, Deliver(o) \/ ListAgain(o)
    PROVE  \E new, confirmed : Notify(o, new, confirmed)
BY DEF Deliver, ListAgain

LEMMA DeliveryTypes ==
    ASSUME TypeOK, NEW o \in Object, Deliver(o) \/ ListAgain(o)
    PROVE  TypeOK'
<1>1. feed[o] \in Seq(Values(o)) /\ <<>> \in Seq(Values(o))
  BY DEF TypeOK
<1>2. CASE Deliver(o)
  <2>1. Head(feed[o]) \in Values(o) /\ Tail(feed[o]) \in Seq(Values(o))
    BY <1>1, <1>2 DEF Deliver
  <2> QED
    BY <1>2, <2>1, NotifyTypes DEF Deliver
<1>3. CASE ListAgain(o)
  BY <1>1, <1>3, StoredType, NotifyTypes DEF ListAgain
<1> QED
  BY <1>2, <1>3

(* The worker holds a key while it works, and puts it on a timer at the     *)
(* end.                                                                     *)
LEMMA ReturnTypes ==
    ASSUME TypeOK, worker # None, Return
    PROVE  /\ timers' \subseteq UA
           /\ worker' \in [key : UA, step : Steps] \union {None}
BY DEF TypeOK, Return, Requeue

LEMMA ProceedTypes ==
    ASSUME TypeOK, worker # None, NEW step \in Steps, Proceed(step)
    PROVE  /\ timers' \subseteq UA
           /\ worker' \in [key : UA, step : Steps] \union {None}
BY DEF TypeOK, Proceed

LEMMA WorkTypes ==
    ASSUME TypeOK, Work \/ CallFails
    PROVE  TypeOK'
<1>1. worker # None /\ worker.key \in UA
  BY DEF Work, GetObject, GetCurrentVersion, GetDesiredVersion, FinishReconcile,
         CallFails, At, TypeOK
<1>2. /\ cached[worker.key] \in Contents \union {Absent}
      /\ cached[ClusterOperator].version \in Version \union {NoVersion}
      /\ cached[ClusterVersion].version \in Version \union {NoVersion}
  BY <1>1 DEF TypeOK, Object, Values, Contents
<1>3. /\ timers' \subseteq UA /\ worker' \in [key : UA, step : Steps] \union {None}
      /\ UNCHANGED <<feed, cached, queue, restarts>>
  BY <1>1, ReturnTypes, ProceedTypes
     DEF Work, GetObject, GetCurrentVersion, GetDesiredVersion, FinishReconcile,
         CallFails, informers, Steps
<1>4. acted' \in [UA -> [self : Contents \union {Absent},
                        current : Version \union {NoVersion},
                        desired : Version \union {NoVersion}]]
  <2>1. CASE GetObject
    BY <1>1, <1>2, <2>1 DEF GetObject, TypeOK
  <2>2. CASE GetCurrentVersion
    <3>1. CASE cached[ClusterOperator].version = NoVersion
      BY <2>2, <3>1 DEF GetCurrentVersion, TypeOK
    <3>2. CASE cached[ClusterOperator].version # NoVersion
      <4>1. acted' = [acted EXCEPT ![worker.key].current = cached[ClusterOperator].version]
        BY <2>2, <3>2 DEF GetCurrentVersion
      <4> QED
        BY <1>1, <1>2, <4>1 DEF TypeOK
    <3> QED
      BY <3>1, <3>2
  <2>3. CASE GetDesiredVersion
    BY <1>1, <1>2, <2>3 DEF GetDesiredVersion, TypeOK
  <2>4. CASE FinishReconcile \/ CallFails
    BY <2>4 DEF FinishReconcile, CallFails, TypeOK
  <2> QED
    BY <2>1, <2>2, <2>3, <2>4 DEF Work
<1>5. changes' \in 0 .. MaxChanges
  BY BoundAssumption DEF TypeOK, Work, GetObject, GetCurrentVersion, GetDesiredVersion,
     FinishReconcile, CallFails
<1> QED
  BY <1>3, <1>4, <1>5 DEF TypeOK

LEMMA RestartTypes ==
    ASSUME TypeOK, Restart
    PROVE  TypeOK'
<1>1. \A o \in Object : Stored(o) \in Values(o) /\ Stored(o) \in Contents \union {Absent}
  BY StoredType, ValuesAreContents
<1>2. /\ cached' \in [Object -> Contents \union {Absent}]
      /\ \A o \in Object : cached'[o] \in Values(o)
  BY <1>1 DEF Restart
<1>3. /\ feed' \in [Object -> Seq(Contents \union {Absent})]
      /\ \A o \in Object : feed'[o] \in Seq(Values(o))
  BY DEF Restart
<1>4. restarts' \in 0 .. MaxRestarts
  BY BoundAssumption DEF TypeOK, Restart
<1> QED
  BY <1>2, <1>3, <1>4, ListedType DEF Restart, TypeOK, NothingRead

(* Every variable keeps its type.                                           *)
THEOREM TypeCorrect == Spec => []TypeOK
<1>1. Init => TypeOK
  BY InitTypes
<1>2. TypeOK /\ [Next]_vars => TypeOK'
  <2> SUFFICES ASSUME TypeOK, [Next]_vars PROVE TypeOK'
    OBVIOUS
  <2>1. CASE \E o \in Object : ChangeObject(o) \/ Deliver(o) \/ ListAgain(o)
    BY <2>1, ObjectChangeTypes, DeliveryTypes
  <2>2. CASE \E u \in UA : Fire(u) \/ Take(u)
    BY <2>2 DEF Fire, Take, TypeOK, informers, Steps
  <2>3. CASE Work \/ CallFails
    BY <2>3, WorkTypes
  <2>4. CASE Restart
    BY <2>4, RestartTypes
  <2>5. CASE UNCHANGED vars
    BY <2>5 DEF vars, TypeOK
  <2> QED
    BY <2>1, <2>2, <2>3, <2>4, <2>5 DEF Next
<1> QED
  BY <1>1, <1>2, PTL DEF Spec

(* The key of every object that the informer knows is queued, worked on or  *)
(* on a timer, whatever fails and however often the operator restarts.      *)
THEOREM KeysAreNeverLost == Spec => []KeysNeverLost
<1>1. Init => KeysNeverLost
  BY DEF Init, KeysNeverLost, Listed, Stored, Object
<1>2. TypeOK /\ KeysNeverLost /\ [Next]_vars => KeysNeverLost'
  <2> SUFFICES ASSUME TypeOK, KeysNeverLost, [Next]_vars, NEW u \in UA, cached'[u] # Absent
               PROVE  u \in queue' \union timers' \/ (worker' # None /\ worker'.key = u)
    BY DEF KeysNeverLost
  <2>1. CASE \E o \in Object : ChangeObject(o)
    BY <2>1 DEF ChangeObject, Create, Delete, EditSpec, WriteStatus, Change, KeysNeverLost
  <2>2. CASE \E o \in Object : Deliver(o) \/ ListAgain(o)
    <3>0. PICK o \in Object : Deliver(o) \/ ListAgain(o)
      BY <2>2
    <3>1. PICK new, confirmed : Notify(o, new, confirmed)
      BY <3>0, DeliveryNotifies
    <3>2. queue \subseteq queue'
      BY <3>1 DEF Notify, MappingFails
    <3>3. timers' = timers /\ worker' = worker
      BY <3>1 DEF Notify
    <3>4. CASE cached[u] # Absent
      BY <3>2, <3>3, <3>4 DEF KeysNeverLost
    <3>5. CASE cached[u] = Absent
      <4>1. u = o /\ new # Absent
        BY <3>1, <3>5 DEF Notify, TypeOK
      <4>2. Passes(o, cached[o], new, confirmed) /\ new # cached[o]
        BY <3>5, <4>1 DEF Passes
      <4>3. Keys(o) = {u} /\ ~MappingFails(o)
        BY <4>1, ObjectAssumption DEF Keys, MappingFails
      <4> QED
        BY <3>1, <4>2, <4>3 DEF Notify
    <3> QED
      BY <3>4, <3>5
  <2>3. CASE \E x \in UA : Fire(x) \/ Take(x)
    <3>1. PICK x \in UA : Fire(x) \/ Take(x)
      BY <2>3
    <3>2. CASE Fire(x)
      BY <3>2 DEF Fire, informers, KeysNeverLost
    <3>3. CASE Take(x)
      <4>1. worker' # None /\ worker'.key = x
        BY <3>3, ObjectAssumption DEF Take, Steps
      <4> QED
        BY <3>3, <4>1 DEF Take, informers, KeysNeverLost
    <3> QED
      BY <3>1, <3>2, <3>3
  <2>4. CASE Work \/ CallFails
    <3>1. /\ worker # None
          /\ cached' = cached /\ queue' = queue
          /\ \/ Return
             \/ \E step \in Steps : Proceed(step)
      BY <2>4 DEF Work, GetObject, GetCurrentVersion, GetDesiredVersion, FinishReconcile,
                  CallFails, At, informers, Steps
    <3>2. CASE Return
      BY <3>1, <3>2 DEF Return, Requeue, KeysNeverLost
    <3>3. CASE \E step \in Steps : Proceed(step)
      <4>1. worker' # None /\ worker'.key = worker.key /\ timers' = timers
        <5>1. PICK step \in Steps : Proceed(step)
          BY <3>3
        <5>2. worker \in [key : UA, step : Steps]
          BY <3>1 DEF TypeOK
        <5>3. worker' \in [key : UA, step : Steps] /\ worker'.key = worker.key
          BY <5>1, <5>2 DEF Proceed
        <5> QED
          BY <5>1, <5>3, ObjectAssumption DEF Proceed
      <4> QED
        BY <3>1, <4>1 DEF KeysNeverLost
    <3> QED
      BY <3>1, <3>2, <3>3
  <2>5. CASE Restart
    BY <2>5 DEF Restart, Listed, Object
  <2>6. CASE UNCHANGED vars
    BY <2>6 DEF vars, KeysNeverLost
  <2> QED
    BY <2>1, <2>2, <2>3, <2>4, <2>5, <2>6 DEF Next
<1> QED
  BY <1>1, <1>2, TypeCorrect, PTL DEF Spec

(* No edit that the informer knows is left to a timer: a restart, a second  *)
(* edit or a reconcile under way never makes one wait.                      *)
THEOREM EditsQueued == Spec => []EditsAreQueued
<1>1. Init => EditsAreQueued
  BY DEF Init, EditsAreQueued, Unread, Listed, Stored, Object
<1>2. TypeOK /\ EditsAreQueued /\ [Next]_vars => EditsAreQueued'
  <2> SUFFICES ASSUME TypeOK, EditsAreQueued, [Next]_vars, NEW u \in UA, Unread(u)'
               PROVE  u \in queue' \/ (At("get")' /\ worker'.key = u)
    BY DEF EditsAreQueued
  <2>1. CASE \E o \in Object : ChangeObject(o)
    BY <2>1 DEF ChangeObject, Create, Delete, EditSpec, WriteStatus, Change, EditsAreQueued,
                Unread, At
  <2>2. CASE \E o \in Object : Deliver(o) \/ ListAgain(o)
    <3>0. PICK o \in Object : Deliver(o) \/ ListAgain(o)
      BY <2>2
    <3>1. PICK new, confirmed : Notify(o, new, confirmed)
      BY <3>0, DeliveryNotifies
    <3>2. queue \subseteq queue' /\ worker' = worker /\ acted' = acted
      BY <3>1 DEF Notify, MappingFails
    <3>3. CASE Unread(u)
      BY <3>2, <3>3 DEF EditsAreQueued, At
    <3>4. CASE ~Unread(u)
      <4>1. u = o /\ new # cached[u] /\ new # Absent
        BY <3>1, <3>2, <3>4 DEF Notify, TypeOK, Unread
      <4>2. cached'[u] = new
        BY <3>1, <4>1 DEF Notify, TypeOK
      <4>3. cached[u] = Absent \/ cached[u].generation # new.generation
        BY <3>2, <3>4, <4>1, <4>2 DEF Unread
      <4>4. Passes(u, cached[u], new, confirmed)
        BY <4>1, <4>3, ObjectAssumption
           DEF Passes, VersionFilter, OperatorFilter, GenerationFilter
      <4>5. Keys(o) = {u} /\ ~MappingFails(o)
        BY <4>1, ObjectAssumption DEF Keys, MappingFails
      <4> QED
        BY <3>1, <4>1, <4>4, <4>5 DEF Notify
    <3> QED
      BY <3>3, <3>4
  <2>3. CASE \E x \in UA : Fire(x)
    BY <2>3 DEF Fire, informers, EditsAreQueued, Unread, At
  <2>4. CASE \E x \in UA : Take(x)
    <3>1. PICK x \in UA : Take(x)
      BY <2>4
    <3>2. worker = None /\ u \in queue
      BY <3>1 DEF Take, informers, EditsAreQueued, Unread, At
    <3>3. CASE x = u
      <4>1. worker' = [key |-> u, step |-> "get"] /\ worker' # None
        BY <3>1, <3>3, ObjectAssumption DEF Take, Steps
      <4> QED
        BY <4>1 DEF At
    <3>4. CASE x # u
      BY <3>1, <3>2, <3>4 DEF Take
    <3> QED
      BY <3>3, <3>4
  <2>5. CASE GetObject
    <3>1. /\ cached' = cached /\ queue' = queue
          /\ acted' = [acted EXCEPT ![worker.key].self = cached[worker.key]]
          /\ worker # None
      BY <2>5 DEF GetObject, informers, At
    <3>2. CASE u = worker.key
      <4>1. acted'[u].self = cached[u]
        BY <3>1, <3>2 DEF TypeOK
      <4> QED
        BY <3>1, <4>1 DEF Unread
    <3>3. CASE u # worker.key
      <4>1. acted'[u] = acted[u]
        BY <3>1, <3>3 DEF TypeOK
      <4> QED
        BY <3>1, <3>3, <4>1 DEF EditsAreQueued, Unread
    <3> QED
      BY <3>2, <3>3
  <2>6. CASE GetCurrentVersion \/ GetDesiredVersion \/ FinishReconcile \/ CallFails
    <3>1. cached' = cached /\ queue' = queue /\ ~At("get")
      BY <2>6 DEF GetCurrentVersion, GetDesiredVersion, FinishReconcile, CallFails, At, informers
    <3>2. acted'[u].self = acted[u].self
      <4>1. CASE GetCurrentVersion
        <5>1. \/ acted' = acted
              \/ \E c : acted' = [acted EXCEPT ![worker.key].current = c]
          BY <4>1 DEF GetCurrentVersion
        <5>2. acted \in [UA -> [self : Contents \union {Absent},
                                current : Version \union {NoVersion},
                                desired : Version \union {NoVersion}]]
          BY DEF TypeOK
        <5>3. ASSUME NEW c, acted' = [acted EXCEPT ![worker.key].current = c]
              PROVE  acted'[u].self = acted[u].self
          BY <5>2, <5>3
        <5> QED
          BY <5>1, <5>3
      <4>2. CASE GetDesiredVersion
        BY <4>2 DEF GetDesiredVersion, TypeOK
      <4>3. CASE FinishReconcile \/ CallFails
        BY <4>3 DEF FinishReconcile, CallFails
      <4> QED
        BY <2>6, <4>1, <4>2, <4>3
    <3> QED
      BY <3>1, <3>2 DEF EditsAreQueued, Unread
  <2>7. CASE Restart
    BY <2>7 DEF Restart, Listed, Unread, NothingRead, Object
  <2>8. CASE UNCHANGED vars
    BY <2>8 DEF vars, EditsAreQueued, Unread, At
  <2> QED
    BY <2>1, <2>2, <2>3, <2>4, <2>5, <2>6, <2>7, <2>8 DEF Next, Work
<1> QED
  BY <1>1, <1>2, TypeCorrect, PTL DEF Spec

--------------------------------------------------------------------------------
(* The changes on their way, each with the one before it, and what the      *)
(* informer holds before the first.                                         *)
Before(o, i) == IF i = 1 THEN cached[o] ELSE feed[o][i - 1]

(* No single change of the two objects of the cluster brings both a new     *)
(* version and a new generation.                                            *)
OneAtATime(old, new) == old.version = new.version \/ old.generation = new.generation

SmallChanges ==
    \A o \in {ClusterVersion, ClusterOperator} :
        \A i \in 1 .. Len(feed[o]) : OneAtATime(Before(o, i), feed[o][i])

(* The last change on its way is what the API server holds.                 *)
LEMMA StoredIsBeforeNext ==
    ASSUME TypeOK, NEW o \in Object
    PROVE  Stored(o) = Before(o, Len(feed[o]) + 1)
<1>1. Len(feed[o]) \in Nat /\ (feed[o] = <<>> <=> Len(feed[o]) = 0)
  BY DEF TypeOK
<1> QED
  BY <1>1 DEF Stored, Before

LEMMA ChangeIsSmall ==
    ASSUME TypeOK, NEW o \in {ClusterVersion, ClusterOperator}, ChangeObject(o)
    PROVE  \E new \in Contents : Change(o, new) /\ OneAtATime(Stored(o), new)
<1>1. Stored(o) \in Contents
  BY StoredType DEF Object, Values
<1>2. PICK state \in {"enabled", "disabled"}, version \in Version \union {NoVersion} :
        EditSpec(o, state) \/ WriteStatus(o, version)
  BY ObjectAssumption DEF ChangeObject, Create, Delete
<1>3. CASE EditSpec(o, state)
  <2>1. [Stored(o) EXCEPT !.state = state, !.generation = @ + 1] \in Contents
    BY <1>1, EditedType
  <2>2. [Stored(o) EXCEPT !.state = state, !.generation = @ + 1].version = Stored(o).version
    BY <1>1 DEF Contents
  <2> QED
    BY <1>3, <2>1, <2>2 DEF EditSpec, OneAtATime
<1>4. CASE WriteStatus(o, version)
  <2>1. [Stored(o) EXCEPT !.version = version] \in Contents
    BY <1>1 DEF Contents
  <2>2. [Stored(o) EXCEPT !.version = version].generation = Stored(o).generation
    BY <1>1 DEF Contents
  <2> QED
    BY <1>4, <2>1, <2>2 DEF WriteStatus, OneAtATime
<1> QED
  BY <1>2, <1>3, <1>4

LEMMA ChangesStaySmall ==
    ASSUME TypeOK, SmallChanges, [Next]_vars
    PROVE  SmallChanges'
<1> SUFFICES ASSUME NEW c \in {ClusterVersion, ClusterOperator}, NEW i \in 1 .. Len(feed'[c])
             PROVE  OneAtATime(Before(c, i)', feed'[c][i])
  BY DEF SmallChanges
<1>1. c \in Object /\ feed[c] \in Seq(Contents) /\ feed \in [Object -> Seq(Contents \union {Absent})]
  BY DEF Object, TypeOK, Values
<1>2. ASSUME feed'[c] = feed[c], cached'[c] = cached[c]
      PROVE  OneAtATime(Before(c, i)', feed'[c][i])
  BY <1>2 DEF SmallChanges, Before
<1>3. CASE \E o \in Object : ChangeObject(o)
  <2>1. PICK o \in Object : ChangeObject(o)
    BY <1>3
  <2>2. CASE o # c
    <3>1. feed'[c] = feed[c] /\ cached' = cached
      BY <1>1, <2>1, <2>2 DEF ChangeObject, Create, Delete, EditSpec, WriteStatus, Change
    <3> QED
      BY <1>2, <3>1
  <2>3. CASE o = c
    <3>1. PICK new \in Contents : Change(c, new) /\ OneAtATime(Stored(c), new)
      BY <2>1, <2>3, ChangeIsSmall
    <3>2. feed'[c] = Append(feed[c], new) /\ cached' = cached
      BY <1>1, <3>1 DEF Change
    <3>3. Len(feed'[c]) = Len(feed[c]) + 1
      BY <1>1, <3>2
    <3>4. CASE i = Len(feed[c]) + 1
      <4>1. feed'[c][i] = new /\ Before(c, i)' = Before(c, i)
        BY <1>1, <3>2, <3>4 DEF Before
      <4> QED
        BY <1>1, <3>1, <3>4, <4>1, StoredIsBeforeNext
    <3>5. CASE i \in 1 .. Len(feed[c])
      <4>1. feed'[c][i] = feed[c][i] /\ Before(c, i)' = Before(c, i)
        BY <1>1, <3>2, <3>5 DEF Before
      <4> QED
        BY <3>5, <4>1 DEF SmallChanges
    <3> QED
      BY <1>1, <3>3, <3>4, <3>5
  <2> QED
    BY <2>2, <2>3
<1>4. CASE \E o \in Object : Deliver(o)
  <2>1. PICK o \in Object : Deliver(o)
    BY <1>4
  <2>2. CASE o # c
    <3>1. feed'[c] = feed[c] /\ cached'[c] = cached[c]
      BY <1>1, <2>1, <2>2 DEF Deliver, Notify, TypeOK
    <3> QED
      BY <1>2, <3>1
  <2>3. CASE o = c
    <3>1. feed[c] # <<>> /\ feed'[c] = Tail(feed[c]) /\ cached'[c] = Head(feed[c])
      BY <1>1, <2>1, <2>3 DEF Deliver, Notify, TypeOK
    <3>2. i + 1 \in 1 .. Len(feed[c]) /\ feed'[c][i] = feed[c][i + 1]
      BY <1>1, <3>1
    <3>3. Before(c, i)' = Before(c, i + 1)
      BY <1>1, <3>1, <3>2 DEF Before
    <3> QED
      BY <3>2, <3>3 DEF SmallChanges
  <2> QED
    BY <2>2, <2>3
<1>5. CASE \E o \in Object : ListAgain(o)
  <2>1. PICK o \in Object : ListAgain(o)
    BY <1>5
  <2>2. CASE o # c
    <3>1. feed'[c] = feed[c] /\ cached'[c] = cached[c]
      BY <1>1, <2>1, <2>2 DEF ListAgain, Notify, TypeOK
    <3> QED
      BY <1>2, <3>1
  <2>3. CASE o = c
    BY <1>1, <2>1, <2>3 DEF ListAgain
  <2> QED
    BY <2>2, <2>3
<1>6. CASE (\E u \in UA : Fire(u) \/ Take(u)) \/ Work \/ CallFails
  BY <1>2, <1>6 DEF Fire, Take, Work, GetObject, GetCurrentVersion, GetDesiredVersion,
                    FinishReconcile, CallFails, informers
<1>7. CASE Restart
  BY <1>1, <1>7 DEF Restart
<1>8. CASE UNCHANGED vars
  BY <1>2, <1>8 DEF vars
<1> QED
  BY <1>3, <1>4, <1>5, <1>6, <1>7, <1>8 DEF Next

(* A version that changes while the watch works wakes nobody, however many  *)
(* other changes are on their way.                                          *)
THEOREM VersionsWait == Spec => VersionsWaitForTimers
<1>1. Init => SmallChanges
  BY DEF Init, SmallChanges, Object
<1>2. TypeOK /\ SmallChanges /\ [Next]_vars => SmallChanges'
  BY ChangesStaySmall
<1>3. TypeOK /\ SmallChanges /\ [Next]_vars =>
        [ \A o \in Object :
            (Concerns(o) /\ feed[o] # <<>> /\ feed'[o] = Tail(feed[o]) /\ restarts' = restarts)
                => queue' = queue ]_vars
  <2> SUFFICES ASSUME TypeOK, SmallChanges, Next, NEW c \in Object, Concerns(c),
                      feed[c] # <<>>, feed'[c] = Tail(feed[c]), restarts' = restarts
               PROVE  queue' = queue
    OBVIOUS
  <2>1. feed[c] \in Seq(Contents) /\ Len(feed'[c]) = Len(feed[c]) - 1 /\ Len(feed[c]) \in Nat
    BY DEF Concerns, TypeOK, Values
  <2>2. feed'[c] # feed[c]
    <3>1. ASSUME feed'[c] = feed[c] PROVE Len(feed'[c]) = Len(feed[c])
      BY <3>1
    <3> QED
      BY <2>1, <3>1
  <2>3. CASE Deliver(c) \/ ListAgain(c)
    <3>1. PICK confirmed : Notify(c, feed[c][1], confirmed)
      <4>1. CASE Deliver(c)
        <5>1. Head(feed[c]) = feed[c][1]
          BY <2>1
        <5> QED
          BY <4>1, <5>1 DEF Deliver
      <4>2. CASE ListAgain(c)
        <5>1. feed'[c] = <<>>
          BY <4>2 DEF ListAgain, TypeOK
        <5>2. Len(feed'[c]) = 0
          <6>1. Len(<<>>) = 0
            OBVIOUS
          <6> QED
            BY <5>1, <6>1, Zenon
        <5>3. Len(feed[c]) = 1
          BY <2>1, <5>2
        <5> QED
          BY <4>2, <5>3 DEF ListAgain, Stored
      <4> QED
        BY <2>3, <4>1, <4>2
    <3>2. OneAtATime(cached[c], feed[c][1])
      BY <2>1 DEF SmallChanges, Concerns, Before
    <3>3. cached[c] # Absent /\ feed[c][1] # Absent
      BY <2>1, AbsentAssumption DEF Concerns, TypeOK, Values
    <3>4. ~Passes(c, cached[c], feed[c][1], confirmed)
      BY <3>2, <3>3
         DEF Passes, Concerns, VersionFilter, OperatorFilter, GenerationFilter, OneAtATime
    <3> QED
      BY <3>1, <3>4 DEF Notify
  <2>4. CASE \E o \in Object : Deliver(o) \/ ListAgain(o)
    <3>1. PICK o \in Object : Deliver(o) \/ ListAgain(o)
      BY <2>4
    <3>2. o = c
      BY <2>2, <3>1 DEF Deliver, ListAgain, TypeOK
    <3> QED
      BY <2>3, <3>1, <3>2
  <2>5. CASE \E o \in Object : ChangeObject(o)
    BY <2>5 DEF ChangeObject, Create, Delete, EditSpec, WriteStatus, Change
  <2>6. CASE (\E u \in UA : Fire(u) \/ Take(u)) \/ Work \/ CallFails
    BY <2>2, <2>6 DEF Fire, Take, Work, GetObject, GetCurrentVersion, GetDesiredVersion,
                      FinishReconcile, CallFails, informers
  <2>7. CASE Restart
    BY <2>7 DEF Restart, TypeOK
  <2> QED
    BY <2>4, <2>5, <2>6, <2>7 DEF Next
<1> QED
  BY <1>1, <1>2, <1>3, TypeCorrect, PTL DEF Spec, VersionsWaitForTimers
================================================================================
