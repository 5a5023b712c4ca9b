-------------------------- MODULE DeploymentProofs --------------------------
(***************************************************************************)
(* Theorems about the deployments: of the Lambda function, for any set of  *)
(* jobs and of images, and of a new instance.                              *)
(***************************************************************************)
EXTENDS MCDeployments, TLAPS

\* A version that is published goes behind the others.
LEMMA AppendFacts ==
  ASSUME NEW s \in Seq(Images), NEW i \in Images
  PROVE  /\ Append(s, i) \in Seq(Images)
         /\ Len(s) \in Nat /\ Len(Append(s, i)) = Len(s) + 1
         /\ Append(s, i)[Len(s) + 1] = i
         /\ \A n \in 1 .. Len(s) : Append(s, i)[n] = s[n] /\ s[n] \in Images
  OBVIOUS

\* The versions of a function are a sequence.
LEMMA VersionsFacts ==
  ASSUME TypeOK
  PROVE  /\ Len(versions) \in Nat
         /\ \A n \in 1 .. Len(versions) : versions[n] \in Images
         /\ versions # <<>> => Len(versions) > 0
<1> versions \in Seq(Images)
  BY DEF TypeOK
<1> QED
  OBVIOUS

\* Deployments start within their types.
LEMMA TypeCorrectInit == Init => TypeOK
<1> SUFFICES ASSUME Init PROVE TypeOK
  OBVIOUS
<1>1. /\ 0 \in 0 .. MaxAttempts /\ 0 \in Nat
      /\ versions \in Seq(Images) /\ Len(versions) = 0
  BY LambdaAssumption DEF Init
<1>2. attempt \in [Jobs -> 0 .. MaxAttempts] /\ alias \in 0 .. Len(versions)
  BY <1>1 DEF Init
<1> QED
  BY <1>1, <1>2, LambdaAssumption DEF Init, TypeOK

\* Every variable keeps its type; in particular live names $LATEST or a version that exists.
\* The alias of a job that is about to shift is in range by UpdateInv.
LEMMA TypeStep == TypeOK /\ UpdateInv /\ [Next]_vars => TypeOK'
<1> SUFFICES ASSUME TypeOK, UpdateInv, [Next]_vars PROVE TypeOK'
  OBVIOUS
<1> USE LambdaAssumption, VersionsFacts DEF TypeOK, Steps, Ended
<1>1. ASSUME NEW j \in Jobs, Start(j)
      PROVE  TypeOK'
  <2>1. pc' \in [Jobs -> {"queued"} \cup Steps \cup Ended]
    BY <1>1 DEF Start, Goto
  <2>2. image' \in [Jobs -> Images]
    BY <1>1 DEF Start
  <2>3. alone' \in [Jobs -> BOOLEAN]
    <3>1. \A k \in Jobs : (IF k = j THEN Active = {} ELSE alone[k] /\ k \notin Active) \in BOOLEAN
      OBVIOUS
    <3> QED
      BY <1>1, <3>1, Zenon DEF Start
  <2>4. UNCHANGED <<version, attempt, code, updater, listed, versions, alias, own>>
    BY <1>1 DEF Start, function
  <2> HIDE DEF Steps, Ended
  <2> QED
    BY <2>1, <2>2, <2>3, <2>4
<1>2. ASSUME NEW j \in Jobs, UpdateFunctionCode(j) \/ UpdateRefused(j) \/ Wait(j)
      PROVE  TypeOK'
  <2>1. pc' \in [Jobs -> {"queued"} \cup Steps \cup Ended]
    BY <1>2 DEF UpdateFunctionCode, UpdateRefused, Wait, Goto
  <2>2. updater' \in Jobs \cup {NoJob}
    BY <1>2 DEF UpdateFunctionCode, UpdateRefused, Wait, function
  <2>3. UNCHANGED <<image, version, attempt, code, listed, versions, alias, own, alone>>
    BY <1>2 DEF UpdateFunctionCode, UpdateRefused, Wait, function, history
  <2> QED
    BY <2>1, <2>2, <2>3
<1>3. ASSUME NEW j \in Jobs, ListVersions(j)
      PROVE  TypeOK'
  BY <1>3 DEF ListVersions, Goto, function, history
<1>4. ASSUME NEW j \in Jobs, UpdateAlias(j)
      PROVE  TypeOK'
  <2>1. version[j] \in 0 .. Len(versions)
    BY DEF UpdateInv
  <2> QED
    BY <1>4, <2>1 DEF UpdateAlias, Goto, function, history
<1>5. ASSUME NEW j \in Jobs, ProbePasses(j) \/ StepFails(j)
      PROVE  TypeOK'
  BY <1>5 DEF ProbePasses, StepFails, Goto, function, history
<1>6. ASSUME NEW j \in Jobs, ProbeFails(j)
      PROVE  TypeOK'
  <2>1. attempt[j] + 1 \in 0 .. MaxAttempts
    BY <1>6 DEF ProbeFails, UpdateInv
  <2>2. attempt' \in [Jobs -> 0 .. MaxAttempts]
    BY <1>6, <2>1 DEF ProbeFails
  <2>3. pc' \in [Jobs -> {"queued"} \cup Steps \cup Ended]
    BY <1>6 DEF ProbeFails
  <2> QED
    BY <1>6, <2>2, <2>3 DEF ProbeFails, function, history
<1>7. CASE Publish
  <2>1. versions' \in Seq(Images) /\ Len(versions') = Len(versions) + 1
    <3>1. updater \in Jobs /\ image[updater] \in Images
      BY <1>7 DEF Publish
    <3> QED
      BY <1>7, <3>1, AppendFacts DEF Publish
  <2>2. own' \in [Jobs -> Nat]
    BY <1>7, <2>1 DEF Publish
  <2>3. alias' \in 0 .. Len(versions')
    BY <1>7, <2>1 DEF Publish
  <2> QED
    BY <1>7, <2>1, <2>2, <2>3 DEF Publish, job
<1>8. CASE FinishUpdate
  BY <1>8 DEF FinishUpdate, job
<1>9. CASE UNCHANGED vars
  BY <1>9 DEF vars, job, function, history
<1> HIDE DEF TypeOK
<1> QED
  BY <1>1, <1>2, <1>3, <1>4, <1>5, <1>6, <1>7, <1>8, <1>9 DEF Next, Proceed, Lambda

-----------------------------------------------------------------------------
Typed == TypeOK /\ UpdateInv

\* The stronger types hold at the start.
LEMMA TypedInit == Init => Typed
<1> SUFFICES ASSUME Init PROVE UpdateInv
  BY TypeCorrectInit DEF Typed
<1> QED
  BY LambdaAssumption DEF Init, UpdateInv

\* Every step of a deployment keeps them.
LEMMA TypedStep == Typed /\ [Next]_vars => Typed'
<1> SUFFICES ASSUME TypeOK, UpdateInv, [Next]_vars PROVE UpdateInv'
  BY TypeStep DEF Typed
<1> USE LambdaAssumption, VersionsFacts DEF UpdateInv
<1>1. ASSUME NEW j \in Jobs, Start(j)
      PROVE  UpdateInv'
  BY <1>1 DEF Start, Goto, function, TypeOK
<1>2. ASSUME NEW j \in Jobs, UpdateFunctionCode(j)
      PROVE  UpdateInv'
  BY <1>2 DEF UpdateFunctionCode, Goto, history, TypeOK
<1>3. ASSUME NEW j \in Jobs, UpdateRefused(j) \/ StepFails(j)
      PROVE  UpdateInv'
  BY <1>3 DEF UpdateRefused, StepFails, Goto, function, history, TypeOK
<1>4. ASSUME NEW j \in Jobs, Wait(j)
      PROVE  UpdateInv'
  BY <1>4 DEF Wait, Goto, function, history, TypeOK
<1>5. ASSUME NEW j \in Jobs, ListVersions(j)
      PROVE  UpdateInv'
  BY <1>5 DEF ListVersions, Goto, function, history, TypeOK
<1>6. ASSUME NEW j \in Jobs, UpdateAlias(j) \/ ProbePasses(j)
      PROVE  UpdateInv'
  BY <1>6 DEF UpdateAlias, ProbePasses, Goto, function, history, TypeOK
<1>7. ASSUME NEW j \in Jobs, ProbeFails(j)
      PROVE  UpdateInv'
  <2>1. attempt[j] + 1 \in 0 .. MaxAttempts
    BY <1>7 DEF ProbeFails, TypeOK
  <2> QED
    BY <1>7, <2>1 DEF ProbeFails, function, history, TypeOK
<1>8. CASE Publish
  <2>1. updater \in Jobs /\ image[updater] \in Images
    BY <1>8 DEF Publish, TypeOK
  <2>2. /\ Len(versions') = Len(versions) + 1
        /\ versions'[Len(versions) + 1] = image[updater]
    BY <1>8, <2>1, AppendFacts DEF Publish, TypeOK
  <2>3. own' = [own EXCEPT ![updater] = Len(versions) + 1] /\ UNCHANGED <<pc, image, version, attempt, updater>>
    BY <1>8, <2>2 DEF Publish, job
  <2>4. listed' /\ updater # NoJob
    BY <1>8 DEF Publish
  <2>5. pc[updater] \in {"wait", "failed"}
    BY <2>1
  <2> QED
    BY <2>1, <2>2, <2>3, <2>4, <2>5 DEF TypeOK
<1>9. CASE FinishUpdate
  <2>1. updater \in Jobs /\ pc[updater] \in {"wait", "failed"}
    BY <1>9 DEF FinishUpdate, TypeOK
  <2>2. Len(versions) > 0
    BY <1>9, <2>1 DEF FinishUpdate, Published, TypeOK
  <2> QED
    BY <1>9, <2>1, <2>2 DEF FinishUpdate, job, TypeOK
<1>10. CASE UNCHANGED vars
  BY <1>10 DEF vars, job, function, history
<1> HIDE DEF UpdateInv
<1> QED
  BY <1>1, <1>2, <1>3, <1>4, <1>5, <1>6, <1>7, <1>8, <1>9, <1>10 DEF Next, Proceed, Lambda

\* Every variable keeps its type; in particular live names $LATEST or a version that exists.
THEOREM TypeCorrect == Spec => []TypeOK
<1>1. Typed => TypeOK
  BY DEF Typed
<1> QED
  BY TypedInit, TypedStep, <1>1, PTL DEF Spec

\* Whatever the jobs do to each other, none puts a version live that is older than its own.
THEOREM NeverBack == Spec => []NeverShiftsBack
<1>1. Typed => NeverShiftsBack
  BY DEF Typed, UpdateInv, NeverShiftsBack
<1> QED
  BY TypedInit, TypedStep, <1>1, PTL DEF Spec

-----------------------------------------------------------------------------
(* A job that runs alone.  A step of another job k is no step of its run. *)
AloneAll == AloneInv /\ AloneDeploysItsImage

\* What the two say of a job that runs alone.
AloneOf(j) ==
  /\ pc[j] \in Steps => Active = {j}
  /\ pc[j] \in {"list", "shift", "verify"} => updater = NoJob
  /\ pc[j] = "wait" /\ updater # j => updater = NoJob
  /\ pc[j] \in {"list", "shift", "verify"} \/ (pc[j] = "wait" /\ updater = NoJob) =>
       own[j] = Len(versions) /\ versions[own[j]] = image[j]
  /\ pc[j] \in {"shift", "verify"} => version[j] = own[j] /\ Available(version[j])
  /\ pc[j] \in {"shift", "verify", "passed"} => versions[version[j]] = image[j]
  /\ pc[j] = "verify" => alias = version[j]
  /\ pc[j] = "passed" => image[j] \in Healthy

\* No deployment is under way at the start.
LEMMA AloneInit == Init => AloneAll
  BY DEF Init, AloneAll, AloneInv, AloneDeploysItsImage, Steps

\* While a job runs alone, a step of a running job is its own.
LEMMA OwnStep ==
  ASSUME AloneInv, NEW j \in Jobs, alone[j], pc[j] \in Steps,
         NEW k \in Jobs, pc[k] \in Steps
  PROVE  k = j
  BY DEF AloneInv, Active

\* A job that moves on within its steps, or ends, keeps the others out of Active.
LEMMA StillAlone ==
  ASSUME TypeOK, AloneInv, NEW j \in Jobs, alone[j],
         NEW k \in Jobs, pc[k] \in Steps,
         NEW to \in Steps \cup Ended, pc' = [pc EXCEPT ![k] = to],
         pc'[j] \in Steps
  PROVE  Active' = {j} /\ k = j
<1>1. pc[j] \in Steps
  BY DEF TypeOK
<1>2. k = j /\ Active = {j}
  BY <1>1, OwnStep DEF AloneInv
<1> QED
  BY <1>2 DEF Active, TypeOK

\* Every step keeps the invariant of a deployment that runs alone.
LEMMA AloneStep == Typed /\ Typed' /\ AloneAll /\ [Next]_vars => AloneAll'
<1> SUFFICES ASSUME TypeOK, UpdateInv, TypeOK', UpdateInv', AloneInv, AloneDeploysItsImage, [Next]_vars,
                    NEW j \in Jobs, alone'[j]
             PROVE  AloneOf(j)'
  BY DEF Typed, AloneAll, AloneInv, AloneDeploysItsImage, AloneOf
<1>0. alone[j] => AloneOf(j)
  BY DEF AloneInv, AloneDeploysItsImage, AloneOf
<1> USE LambdaAssumption DEF AloneOf
<1>1. ASSUME NEW k \in Jobs, Start(k)
      PROVE  AloneOf(j)'
  <2>1. CASE k = j
    <3>1. Active = {} /\ pc'[j] = "update"
      BY <1>1, <2>1 DEF Start, Goto, TypeOK
    <3>2. Active' = {j}
      BY <1>1, <2>1, <3>1 DEF Start, Goto, Active, Steps, TypeOK
    <3> QED
      BY <3>1, <3>2
  <2>2. CASE k # j
    <3>1. alone[j] /\ pc[j] \notin Steps /\ pc'[j] = pc[j] /\ image'[j] = image[j]
      BY <1>1, <2>2 DEF Start, Goto, Active, TypeOK
    <3> QED
      BY <1>0, <1>1, <3>1 DEF Start, function, Steps
  <2> QED
    BY <2>1, <2>2
<1>2. ASSUME NEW k \in Jobs, UpdateFunctionCode(k)
      PROVE  AloneOf(j)'
  <2>1. alone[j] /\ pc[k] \in Steps /\ pc' = [pc EXCEPT ![k] = "wait"]
    BY <1>2 DEF UpdateFunctionCode, Goto, history, Steps
  <2>2. pc'[j] \in Steps => Active' = {j} /\ k = j
    BY <2>1, StillAlone DEF Steps
  <2>3. k # j => pc'[j] = pc[j]
    BY <2>1 DEF TypeOK
  <2> QED
    BY <1>0, <1>2, <2>1, <2>2, <2>3 DEF UpdateFunctionCode, Goto, history, Steps, TypeOK
<1>3. ASSUME NEW k \in Jobs, UpdateRefused(k) \/ StepFails(k)
      PROVE  AloneOf(j)'
  <2>1. alone[j] /\ pc[k] \in Steps /\ pc' = [pc EXCEPT ![k] = "failed"]
    BY <1>3 DEF UpdateRefused, StepFails, Goto, history, Steps
  <2>2. pc'[j] \in Steps => Active' = {j} /\ k = j
    BY <2>1, StillAlone DEF Ended
  <2>3. UNCHANGED <<image, version, own, function, alias>>
    BY <1>3 DEF UpdateRefused, StepFails, history
  <2> QED
    BY <1>0, <2>1, <2>2, <2>3 DEF function, Available, Steps, TypeOK
<1>4. ASSUME NEW k \in Jobs, Wait(k)
      PROVE  AloneOf(j)'
  <2>1. alone[j] /\ pc[k] \in Steps /\ pc' = [pc EXCEPT ![k] = "list"]
    BY <1>4 DEF Wait, Goto, history, Steps
  <2>2. pc'[j] \in Steps => Active' = {j} /\ k = j
    BY <2>1, StillAlone DEF Steps
  <2> QED
    BY <1>0, <1>4, <2>1, <2>2 DEF Wait, Goto, function, history, Available, Steps, TypeOK
<1>5. ASSUME NEW k \in Jobs, ListVersions(k)
      PROVE  AloneOf(j)'
  <2>1. alone[j] /\ pc[k] \in Steps /\ pc' = [pc EXCEPT ![k] = "shift"]
    BY <1>5 DEF ListVersions, Goto, history, Steps
  <2>2. pc'[j] \in Steps => Active' = {j} /\ k = j
    BY <2>1, StillAlone DEF Steps
  <2>3. CASE k = j
    <3>1. pc[j] = "list" /\ version'[j] = Len(versions) /\ UNCHANGED <<image, function, own>>
      BY <1>5, <2>3 DEF ListVersions, Goto, history, TypeOK
    <3>2. ~listed
      BY <1>0, <2>1, <3>1 DEF UpdateInv
    <3> QED
      BY <1>0, <2>1, <2>2, <2>3, <3>1, <3>2 DEF function, Available, Steps, TypeOK
  <2>4. CASE k # j
    BY <1>0, <1>5, <2>1, <2>2, <2>4 DEF ListVersions, function, history, Steps, TypeOK
  <2> QED
    BY <2>3, <2>4
<1>6. ASSUME NEW k \in Jobs, UpdateAlias(k)
      PROVE  AloneOf(j)'
  <2>1. alone[j] /\ pc[k] \in Steps /\ pc' = [pc EXCEPT ![k] = "verify"]
    BY <1>6 DEF UpdateAlias, Goto, history, Steps
  <2>2. pc'[j] \in Steps => Active' = {j} /\ k = j
    BY <2>1, StillAlone DEF Steps
  <2> QED
    BY <1>0, <1>6, <2>1, <2>2 DEF UpdateAlias, Goto, function, history, Available, Steps, TypeOK
<1>7. ASSUME NEW k \in Jobs, ProbePasses(k)
      PROVE  AloneOf(j)'
  <2>1. alone[j] /\ pc[k] = "verify" /\ pc[k] \in Steps /\ pc' = [pc EXCEPT ![k] = "passed"]
    BY <1>7 DEF ProbePasses, Goto, history, Steps
  <2>2. pc'[j] \in Steps => Active' = {j} /\ k = j
    BY <2>1, StillAlone DEF Ended
  <2>3. UNCHANGED <<image, version, own, function, alias>> /\ Served \in Healthy
    BY <1>7 DEF ProbePasses, history
  <2>4. pc[j] = "verify" => alias > 0 /\ Served = image[j]
    BY <1>0, <2>1 DEF Served, UpdateInv, TypeOK
  <2> QED
    BY <1>0, <2>1, <2>2, <2>3, <2>4 DEF function, Available, Steps, TypeOK
<1>8. ASSUME NEW k \in Jobs, ProbeFails(k)
      PROVE  AloneOf(j)'
  <2>1. PICK to \in {"verify", "failed"} : pc' = [pc EXCEPT ![k] = to]
    BY <1>8 DEF ProbeFails
  <2>2. alone[j] /\ pc[k] = "verify" /\ pc[k] \in Steps
    BY <1>8 DEF ProbeFails, history, Steps
  <2>3. pc'[j] \in Steps => Active' = {j} /\ k = j
    BY <2>1, <2>2, StillAlone DEF Steps, Ended
  <2>4. UNCHANGED <<image, version, own, function, alias>>
    BY <1>8 DEF ProbeFails, history
  <2> QED
    BY <1>0, <2>1, <2>2, <2>3, <2>4 DEF function, Available, Steps, TypeOK
<1>9. CASE Publish
  <2>1. alone[j] /\ UNCHANGED <<pc, image, version, alias, updater>> /\ updater \in Jobs
    BY <1>9 DEF Publish, job, TypeOK
  <2>2. pc[j] \notin {"list", "shift", "verify"}
    BY <1>0, <2>1, <1>9 DEF Publish
  <2>3. pc[j] = "passed" => version[j] \in 1 .. Len(versions)
    BY DEF UpdateInv, TypeOK
  <2>4. pc[j] = "passed" => versions'[version[j]] = versions[version[j]]
    BY <1>9, <2>1, <2>3, AppendFacts DEF Publish, TypeOK
  <2>5. Active' = Active
    BY <2>1 DEF Active
  <2> QED
    BY <1>0, <1>9, <2>1, <2>2, <2>4, <2>5 DEF Publish
<1>10. CASE FinishUpdate
  <2>1. alone[j] /\ UNCHANGED <<pc, image, version, alias, versions>> /\ updater \in Jobs /\ updater' = NoJob
    BY <1>10 DEF FinishUpdate, job, TypeOK
  <2>2. pc[j] \notin {"list", "shift", "verify"}
    BY <1>0, <2>1
  <2>3. pc[j] = "wait" => updater = j
    BY <1>0, <2>1
  <2>4. pc[j] = "wait" => own'[j] = Len(versions) /\ versions[Len(versions)] = image[j]
    BY <1>10, <2>1, <2>3 DEF FinishUpdate, Published, UpdateInv, TypeOK
  <2>5. Active' = Active
    BY <2>1 DEF Active
  <2> QED
    BY <1>0, <2>1, <2>2, <2>4, <2>5
<1>11. CASE UNCHANGED vars
  BY <1>0, <1>11 DEF vars, job, function, history, Active, Available
<1> HIDE DEF AloneOf
<1>12. ASSUME NEW k \in Jobs, Start(k) \/ Proceed(k) \/ StepFails(k)
       PROVE  AloneOf(j)'
  BY <1>12, <1>1, <1>2, <1>3, <1>4, <1>5, <1>6, <1>7, <1>8 DEF Proceed
<1> QED
  BY <1>9, <1>10, <1>11, <1>12 DEF Next, Lambda

\* A job that no other overlapped puts its own image live, and passes only with a healthy one.
THEOREM AloneCorrect == Spec => []AloneDeploysItsImage
<1>1. AloneAll => AloneDeploysItsImage
  BY DEF AloneAll
<1> QED
  BY TypedInit, TypedStep, AloneInit, AloneStep, <1>1, PTL DEF Spec

-----------------------------------------------------------------------------
(* The start of an instance. *)

\* After docker run the container is the bundle's, and nobody replaces it any more.
RanTheBundle == hook \in {"look", "validate", "passed"} =>
                  container = "bundle" /\ (flow = "promote" => ~booted)

\* Only the script of deploy.yml removes a container; what user data started in an
\* instance of production stays.
KeptInProduction == /\ hook = "remove" => flow = "deploy"
                    /\ flow = "promote" /\ booted => container = "template"

BootInv == Ec2!TypeOK /\ RanTheBundle /\ KeptInProduction /\ Ec2!PassedRunsTheBundle

\* An instance starts with nothing installed.
LEMMA BootInitially == Ec2!Init => BootInv
<1> SUFFICES ASSUME Ec2!Init PROVE BootInv
  OBVIOUS
<1>1. Ec2!TypeOK
  BY DEF Ec2!Init, Ec2!TypeOK, Ec2!BootImages, Ec2!Hooks
<1>2. RanTheBundle /\ KeptInProduction /\ Ec2!PassedRunsTheBundle
  BY DEF Ec2!Init, RanTheBundle, KeptInProduction, Ec2!PassedRunsTheBundle
<1> QED
  BY <1>1, <1>2 DEF BootInv

\* User data and the hooks interleave in any order.
LEMMA BootStep == BootInv /\ [Ec2!BootNext]_bootVars => BootInv'
<1> SUFFICES ASSUME BootInv, [Ec2!BootNext]_bootVars PROVE BootInv'
  OBVIOUS
<1> USE DEF BootInv, Ec2!TypeOK, Ec2!BootImages, Ec2!Hooks, RanTheBundle, KeptInProduction,
            Ec2!PassedRunsTheBundle, Ec2!Goto, Ec2!given
<1>1. CASE Ec2!StartAgent
  BY <1>1 DEF Ec2!StartAgent
<1>2. CASE Ec2!BootRun
  <2>1. CASE container = "none" /\ container' = "template" /\ booted' = TRUE
    BY <1>2, <2>1 DEF Ec2!BootRun
  <2>2. CASE UNCHANGED <<container, booted>>
    BY <1>2, <2>2 DEF Ec2!BootRun
  <2> QED
    BY <1>2, <2>1, <2>2 DEF Ec2!BootRun
<1>3. CASE Ec2!BootCheck
  BY <1>3 DEF Ec2!BootCheck
<1>4. CASE Ec2!BeginHooks
  BY <1>4 DEF Ec2!BeginHooks
<1>5. CASE Ec2!Prepare
  BY <1>5 DEF Ec2!Prepare
<1>6. CASE Ec2!CleanSlate
  BY <1>6 DEF Ec2!CleanSlate
<1>7. CASE Ec2!DockerRun
  BY <1>7 DEF Ec2!DockerRun
<1>8. CASE Ec2!Look
  BY <1>8 DEF Ec2!Look
<1>9. CASE Ec2!ValidateService
  BY <1>9 DEF Ec2!ValidateService
<1>10. CASE UNCHANGED bootVars
  BY <1>10 DEF bootVars
<1> HIDE DEF BootInv
<1> QED
  BY <1>1, <1>2, <1>3, <1>4, <1>5, <1>6, <1>7, <1>8, <1>9, <1>10 DEF Ec2!BootNext, Ec2!HookStep

-----------------------------------------------------------------------------
(* The two together. *)

\* A step is one of the function or one of the instance, and leaves the other alone.
LEMMA StepsOfBoth == [MCNext]_allVars => [Next]_vars /\ [Ec2!BootNext]_bootVars
  BY DEF MCNext, AsLambda, AsEc2, allVars

(* An instance passes its hooks only while it runs the healthy image of    *)
(* the bundle, and in production only if user data has started nothing.    *)
THEOREM InstancesRunTheBundle == MCSpec => []PassedRunsTheBundle
<1>1. MCInit => BootInv
  BY BootInitially DEF MCInit
<1>2. BootInv /\ [MCNext]_allVars => BootInv'
  BY StepsOfBoth, BootStep
<1>3. BootInv => PassedRunsTheBundle
  BY DEF BootInv, PassedRunsTheBundle
<1> QED
  BY <1>1, <1>2, <1>3, PTL DEF MCSpec

(* Every variable of the deployments keeps its type.                       *)
THEOREM DeploymentsTyped == MCSpec => []DeploymentTypes
<1>1. MCInit => Typed /\ BootInv
  BY BootInitially, TypedInit DEF MCInit
<1>2. Typed /\ BootInv /\ [MCNext]_allVars => Typed' /\ BootInv'
  BY StepsOfBoth, BootStep, TypedStep
<1>3. Typed /\ BootInv => DeploymentTypes
  BY DEF Typed, BootInv, DeploymentTypes
<1> QED
  BY <1>1, <1>2, <1>3, PTL DEF MCSpec
=============================================================================
