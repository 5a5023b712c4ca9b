-------------------------- MODULE ConfigCacheProofs --------------------------
(* Theorems about ConfigCache, for any files and any history of the volume. *)
EXTENDS ConfigCache, TLAPS

\* The versions are numbers from 1 on, and the files of each are keys.
LEMMA PayloadFacts == /\ Len(Payload) \in Nat /\ 1 \in Versions
                      /\ \A v \in Versions : v \in Nat /\ v # None /\ Payload[v] \subseteq Keys
  BY PayloadAssumption DEF Versions, None

\* The cache starts within its types.
LEMMA TypeCorrectInit == Init => TypeOK
<1> SUFFICES ASSUME Init PROVE TypeOK
  OBVIOUS
<1>1. data \in Versions /\ links \subseteq Keys
  BY PayloadFacts DEF Init
<1>2. Empty \in [Keys -> Versions \cup {None}]
  BY DEF Empty
<1> QED
  BY <1>1, <1>2 DEF Init, TypeOK

\* Every variable keeps its type: nothing is read, cached or answered that was not published.
THEOREM TypeCorrect == Spec => []TypeOK
<1>1. Init => TypeOK
  BY TypeCorrectInit
<1>2. TypeOK /\ [Next]_vars => TypeOK'
  <2> SUFFICES ASSUME TypeOK, [Next]_vars PROVE TypeOK'
    OBVIOUS
  <2> USE PayloadFacts DEF TypeOK
  <2>1. CASE MakeLinks
    BY <2>1 DEF MakeLinks, update, http
  <2>2. CASE SwitchData
    <3>1. data' \in Versions /\ kubelet' = "clean"
      BY <2>2 DEF SwitchData
    <3>2. events' \in Nat
      BY <2>2 DEF SwitchData
    <3>3. UNCHANGED <<links, watcher, started, todo, fileMap, failed, cache, reading, toVisit, answer>>
      BY <2>2 DEF SwitchData, update, http
    <3> QED
      BY <3>1, <3>2, <3>3
  <2>3. CASE RemoveLinks
    BY <2>3 DEF RemoveLinks, update, http
  <2>4. CASE List
    BY <2>4 DEF List, volume, http, Empty
  <2>5. ASSUME NEW k \in Keys, ReadFile(k) \/ ReadFails(k) \/ Prune(k) \/ Store(k)
        PROVE  TypeOK'
    <3>1. CASE ReadFile(k)
      BY <3>1 DEF ReadFile, volume, http
    <3>2. CASE ReadFails(k)
      BY <3>2 DEF ReadFails, volume, http
    <3>3. CASE Prune(k)
      BY <3>3 DEF Prune, volume, http
    <3>4. CASE Store(k)
      BY <3>4 DEF Store, volume, http
    <3> QED
      BY <2>5, <3>1, <3>2, <3>3, <3>4
  <2>6. CASE ReadDone \/ PruneDone \/ StoreDone
    BY <2>6 DEF ReadDone, PruneDone, StoreDone, volume, http
  <2>7. CASE TakeEvent
    BY <2>7 DEF TakeEvent, volume, http
  <2>8. CASE RequestConfigs \/ Respond
    BY <2>8 DEF RequestConfigs, Respond, volume, update, Empty
  <2>9. ASSUME NEW k \in Keys, Visit(k)
        PROVE  TypeOK'
    BY <2>9 DEF Visit, volume, update
  <2>10. CASE UNCHANGED vars
    BY <2>10 DEF vars, volume, update, http
  <2> HIDE DEF TypeOK
  <2> QED
    BY <2>1, <2>2, <2>3, <2>4, <2>5, <2>6, <2>7, <2>8, <2>9, <2>10
       DEF Next, Kubelet, Watch, UpdateCache, Configs
<1> QED
  BY <1>1, <1>2, PTL DEF Spec

-----------------------------------------------------------------------------
\* The permanent keys are keys of every version.
LEMMA PermanentFacts == /\ Permanent \subseteq Keys
                        /\ \A v \in Versions : Permanent \subseteq Payload[v]
  BY DEF Permanent

ServedInv == TypeOK /\ PermanentKept /\ PermanentKeysServed

\* A file of every version is never missing from the cache nor from a finished answer:
\* whatever switch falls into the read, an update that reaches its prune has read it.
THEOREM PermanentServed == Spec => []PermanentKeysServed
<1>1. Init => ServedInv
  <2> SUFFICES ASSUME Init, TypeOK PROVE PermanentKept /\ PermanentKeysServed
    BY TypeCorrectInit DEF ServedInv
  <2> QED
    BY PayloadFacts, PermanentFacts DEF Init, PermanentKept, PermanentKeysServed
<1>2. ServedInv /\ TypeOK' /\ [Next]_vars => ServedInv'
  <2> SUFFICES ASSUME TypeOK, PermanentKept, PermanentKeysServed, [Next]_vars
               PROVE  PermanentKept' /\ PermanentKeysServed'
    BY DEF ServedInv
  <2> DEFINE P == PermanentKept' /\ PermanentKeysServed'
  <2> USE PayloadFacts, PermanentFacts DEF PermanentKept, PermanentKeysServed
  <2>1. CASE MakeLinks
    BY <2>1 DEF MakeLinks, update, http
  <2>2. CASE SwitchData
    BY <2>2 DEF SwitchData, update, http
  <2>3. CASE RemoveLinks
    BY <2>3 DEF RemoveLinks, update, http, TypeOK
  <2>4. CASE List
    BY <2>4 DEF List, volume, http
  <2>5. ASSUME NEW k \in Keys, ReadFile(k)
        PROVE  P
    BY <2>5 DEF ReadFile, volume, http, TypeOK
  <2>6. ASSUME NEW k \in Keys, ReadFails(k)
        PROVE  P
    BY <2>6 DEF ReadFails, volume, http
  <2>7. CASE ReadDone
    BY <2>7 DEF ReadDone, volume, http
  <2>8. ASSUME NEW k \in Keys, Prune(k)
        PROVE  P
    BY <2>8 DEF Prune, volume, http, TypeOK
  <2>9. CASE PruneDone
    BY <2>9 DEF PruneDone, volume, http
  <2>10. ASSUME NEW k \in Keys, Store(k)
         PROVE  P
    BY <2>10 DEF Store, volume, http, TypeOK
  <2>11. CASE StoreDone
    BY <2>11 DEF StoreDone, volume, http
  <2>12. CASE TakeEvent
    BY <2>12 DEF TakeEvent, volume, http
  <2>13. CASE RequestConfigs
    BY <2>13 DEF RequestConfigs, volume, update
  <2>14. ASSUME NEW k \in Keys, Visit(k)
         PROVE  P
    BY <2>14 DEF Visit, volume, update, TypeOK
  <2>15. CASE Respond
    BY <2>15 DEF Respond, volume, update
  <2>16. CASE UNCHANGED vars
    BY <2>16 DEF vars, volume, update, http
  <2> HIDE DEF PermanentKept, PermanentKeysServed
  <2> QED
    BY <2>1, <2>2, <2>3, <2>4, <2>5, <2>6, <2>7, <2>8, <2>9, <2>10, <2>11, <2>12,
       <2>13, <2>14, <2>15, <2>16
       DEF Next, Kubelet, Watch, UpdateCache, Configs
<1>3. ServedInv => PermanentKeysServed
  BY DEF ServedInv
<1> QED
  BY TypeCorrect, <1>1, <1>2, <1>3, PTL DEF Spec

-----------------------------------------------------------------------------
AgreementInv == TypeOK /\ LinksCover /\ Agreement

\* Each stage of an update agrees with the volume as far as it has come, unless an event
\* is left that starts another one.
LEMMA AgreementHolds == Spec => []AgreementInv
<1>1. Init => AgreementInv
  <2> SUFFICES ASSUME Init, TypeOK PROVE LinksCover /\ Agreement
    BY TypeCorrectInit DEF AgreementInv
  <2> QED
    BY PayloadFacts DEF Init, LinksCover, Agreement
<1>2. AgreementInv /\ TypeOK' /\ [Next]_vars => AgreementInv'
  <2> SUFFICES ASSUME TypeOK, LinksCover, Agreement, [Next]_vars
               PROVE  LinksCover' /\ Agreement'
    BY DEF AgreementInv
  <2> DEFINE A == LinksCover' /\ Agreement'
  <2> USE PayloadFacts DEF LinksCover, Agreement, Snapshot
  <2>1. CASE MakeLinks
    BY <2>1 DEF MakeLinks, update, http, TypeOK
  <2>2. CASE SwitchData
    <3>1. LinksCover'
      BY <2>2 DEF SwitchData
    <3>2. events' # 0
      BY <2>2 DEF SwitchData, TypeOK
    <3> QED
      BY <3>1, <3>2
  <2>3. CASE RemoveLinks
    BY <2>3 DEF RemoveLinks, update, http
  <2>4. CASE List
    BY <2>4 DEF List, volume, http, Empty
  <2>5. ASSUME NEW k \in Keys, ReadFile(k)
        PROVE  A
    BY <2>5 DEF ReadFile, Readable, volume, http, TypeOK
  <2>6. ASSUME NEW k \in Keys, ReadFails(k)
        PROVE  A
    BY <2>6 DEF ReadFails, volume, http
  <2>7. CASE ReadDone
    BY <2>7 DEF ReadDone, volume, http, TypeOK
  <2>8. ASSUME NEW k \in Keys, Prune(k)
        PROVE  A
    BY <2>8 DEF Prune, volume, http, TypeOK
  <2>9. CASE PruneDone
    BY <2>9 DEF PruneDone, volume, http, TypeOK
  <2>10. ASSUME NEW k \in Keys, Store(k)
         PROVE  A
    BY <2>10 DEF Store, volume, http, TypeOK
  <2>11. CASE StoreDone
    BY <2>11 DEF StoreDone, volume, http, TypeOK
  <2>12. CASE TakeEvent
    BY <2>12 DEF TakeEvent, volume, http
  <2>13. CASE RequestConfigs \/ Respond \/ \E k \in Keys : Visit(k)
    BY <2>13 DEF RequestConfigs, Respond, Visit, volume, update
  <2>14. CASE UNCHANGED vars
    BY <2>14 DEF vars, volume, update
  <2> HIDE DEF LinksCover, Agreement
  <2> QED
    BY <2>1, <2>2, <2>3, <2>4, <2>5, <2>6, <2>7, <2>8, <2>9, <2>10, <2>11, <2>12,
       <2>13, <2>14
       DEF Next, Kubelet, Watch, UpdateCache, Configs
<1> QED
  BY TypeCorrect, <1>1, <1>2, PTL DEF Spec

\* A watcher at rest, with no event waiting and no failed update behind it, holds exactly
\* what kubelet published: an update that a switch overtook always has an event left.
THEOREM QuietCorrect == Spec => []QuietMeansCurrent
<1>1. AgreementInv => QuietMeansCurrent
  BY DEF AgreementInv, Agreement, QuietMeansCurrent
<1> QED
  BY AgreementHolds, <1>1, PTL

-----------------------------------------------------------------------------
(* The refinement of PublishedView. *)

ViewInv == AgreementInv /\ OnlyForward

\* The steps of kubelet leave what is read and shown behind the volume, and an entry that
\* was superseded stays so.
LEMMA OnlyForwardKubelet ==
  ASSUME ViewInv, Kubelet
  PROVE  OnlyForward'
<1> USE PayloadFacts DEF ViewInv, AgreementInv, OnlyForward, Superseded, TypeOK, Versions, None
<1>1. CASE MakeLinks
  BY <1>1 DEF MakeLinks, update, http
<1>2. CASE SwitchData
  <2>1. data' = data + 1 /\ data \in Nat /\ UNCHANGED <<cache, fileMap, watcher, todo>>
    BY <1>2 DEF SwitchData, update
  <2>2. \A k \in Keys : Superseded(k) => Superseded(k)'
    BY <2>1
  <2> QED
    BY <2>1, <2>2
<1>3. CASE RemoveLinks
  BY <1>3 DEF RemoveLinks, update, http
<1> QED
  BY <1>1, <1>2, <1>3 DEF Kubelet

\* An update lists every file of the current version, so what it does not find is gone;
\* it reads nothing older than what is shown, and stores what it has read.
LEMMA OnlyForwardUpdate ==
  ASSUME ViewInv, Watch
  PROVE  OnlyForward'
<1> USE PayloadFacts DEF ViewInv, AgreementInv, OnlyForward, Superseded, TypeOK
<1>1. CASE List
  <2>1. \A k \in Keys \ links : cache[k] # None => Superseded(k)
    BY DEF LinksCover, Versions, None
  <2> QED
    BY <1>1, <2>1 DEF List, volume, http, Empty
<1>2. ASSUME NEW k \in Keys, ReadFile(k)
      PROVE  OnlyForward'
  <2>1. data \in Versions /\ cache[k] <= data
    BY DEF Versions, None
  <2> QED
    BY <1>2, <2>1 DEF ReadFile, Readable, volume, http, Versions, None
<1>3. ASSUME NEW k \in Keys, ReadFails(k)
      PROVE  OnlyForward'
  BY <1>3 DEF ReadFails, volume, http
<1>4. CASE ReadDone
  BY <1>4 DEF ReadDone, volume, http
<1>5. ASSUME NEW k \in Keys, Prune(k)
      PROVE  OnlyForward'
  BY <1>5 DEF Prune, volume, http, Versions, None
<1>6. CASE PruneDone
  BY <1>6 DEF PruneDone, volume, http
<1>7. ASSUME NEW k \in Keys, Store(k)
      PROVE  OnlyForward'
  BY <1>7 DEF Store, volume, http, Versions, None
<1>8. CASE StoreDone
  BY <1>8 DEF StoreDone, volume, http
<1>9. CASE TakeEvent
  BY <1>9 DEF TakeEvent, volume, http
<1> QED
  BY <1>1, <1>2, <1>3, <1>4, <1>5, <1>6, <1>7, <1>8, <1>9 DEF Watch, UpdateCache

\* No key ever goes back to older content, and none is pruned that the later versions have.
LEMMA ViewHolds == Spec => []ViewInv
<1>1. Init /\ AgreementInv => ViewInv
  BY DEF Init, Empty, ViewInv, OnlyForward
<1>2. ViewInv /\ AgreementInv' /\ [Next]_vars => ViewInv'
  <2> SUFFICES ASSUME ViewInv, [Next]_vars PROVE OnlyForward'
    BY DEF ViewInv
  <2>1. CASE Configs \/ UNCHANGED vars
    <3>1. UNCHANGED <<data, cache, fileMap, watcher, todo>>
      BY <2>1 DEF Configs, RequestConfigs, Visit, Respond, vars, volume, update
    <3> QED
      BY <3>1 DEF ViewInv, OnlyForward, Superseded
  <2> QED
    BY <2>1, OnlyForwardKubelet, OnlyForwardUpdate DEF Next
<1> QED
  BY AgreementHolds, <1>1, <1>2, PTL DEF Spec

\* Every step of the cache is a step of PublishedView, or shows the reader nothing: a switch
\* publishes, a store replaces by what is not older, a prune drops what was superseded, and
\* the end of an update that no event follows settles.
LEMMA ViewStep == ViewInv /\ QuietMeansCurrent' /\ [Next]_vars => [View!Next]_(View!cvars)
<1> SUFFICES ASSUME ViewInv, QuietMeansCurrent', [Next]_vars PROVE [View!Next]_(View!cvars)
  OBVIOUS
<1> DEFINE settled == watcher = "idle" /\ events = 0 /\ ~failed
<1> USE DEF ViewInv, AgreementInv, TypeOK
<1>1. CASE SwitchData
  <2>1. data < Len(Payload) /\ data' = data + 1
    BY <1>1 DEF SwitchData, Versions
  <2>2. cache' = cache /\ settled' = FALSE
    BY <1>1 DEF SwitchData
  <2> QED
    BY <2>1, <2>2 DEF View!Next, View!Publish
<1>2. ASSUME NEW k \in Keys, Store(k)
      PROVE  [View!Next]_(View!cvars)
  <2>1. settled = FALSE /\ settled' = FALSE /\ data' = data
    BY <1>2 DEF Store, volume
  <2>2. fileMap[k] \in 1 .. data /\ k \in Payload[fileMap[k]] /\ cache[k] <= fileMap[k]
    BY <1>2, PayloadFacts DEF Store, OnlyForward, Versions, None
  <2> QED
    BY <1>2, <2>1, <2>2 DEF View!Next, View!Replace, Store
<1>3. ASSUME NEW k \in Keys, Prune(k)
      PROVE  [View!Next]_(View!cvars)
  <2>1. settled = FALSE /\ settled' = FALSE /\ data' = data
    BY <1>3 DEF Prune, volume
  <2>2. Superseded(k) /\ cache' = [cache EXCEPT ![k] = None]
    BY <1>3 DEF Prune, OnlyForward
  <2> QED
    BY <2>1, <2>2 DEF View!Next, View!Drop, Superseded
<1>4. CASE StoreDone
  <2>1. settled = FALSE /\ UNCHANGED <<data, cache>>
    BY <1>4 DEF StoreDone, volume
  <2>2. CASE settled'
    <3>1. cache' = Snapshot'
      BY <2>2 DEF QuietMeansCurrent
    <3>2. cache = View!Published
      BY <2>1, <3>1 DEF Snapshot, View!Published
    <3> QED
      BY <2>1, <2>2, <3>2 DEF View!Next, View!Settle
  <2>3. CASE ~settled'
    BY <2>1, <2>3 DEF View!cvars
  <2> QED
    BY <2>2, <2>3
<1>5. CASE MakeLinks \/ RemoveLinks \/ List \/ ReadDone \/ PruneDone \/ TakeEvent
           \/ (\E k \in Keys : ReadFile(k) \/ ReadFails(k)) \/ Configs \/ UNCHANGED vars
  <2>1. UNCHANGED <<data, cache>>
    BY <1>5 DEF MakeLinks, RemoveLinks, List, ReadDone, PruneDone, TakeEvent, ReadFile, ReadFails,
         Configs, RequestConfigs, Visit, Respond, vars, volume
  <2>2. settled' = settled
    BY <1>5 DEF MakeLinks, RemoveLinks, List, ReadDone, PruneDone, TakeEvent, ReadFile, ReadFails,
         Configs, RequestConfigs, Visit, Respond, vars, update
  <2> QED
    BY <2>1, <2>2 DEF View!cvars
<1> QED
  BY <1>1, <1>2, <1>3, <1>4, <1>5 DEF Next, Kubelet, Watch, UpdateCache

\* The cache implements PublishedView, for any files and any history of the volume.
THEOREM ViewKept == Spec => ShowsThePublished
<1>1. Init => View!Init
  BY DEF Init, View!Init, Empty
<1>2. ViewInv /\ QuietMeansCurrent' /\ [Next]_vars => [View!Next]_(View!cvars)
  BY ViewStep
<1> QED
  BY ViewHolds, QuietCorrect, <1>1, <1>2, PTL DEF Spec, ShowsThePublished, View!Spec

=============================================================================
