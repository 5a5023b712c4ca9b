----------------------------- MODULE LambdaDeploy -----------------------------
(***************************************************************************)
(* The Lambda jobs of the workflows deploy.yml (deploy-lambda) and         *)
(* promote-to-prod.yml (prod-lambda) on the function of one environment.   *)
(* Neither workflow has a concurrency group, so jobs may overlap.          *)
(*                                                                         *)
(* A job gives $LATEST a new image and has it published as a version, waits*)
(* for the update, takes the last version listed, points the alias live at *)
(* it and probes /healthz through the alias.  Every step ends the job when *)
(* it fails.                                                               *)
(***************************************************************************)
EXTENDS Integers, Sequences

CONSTANTS
  Jobs,           \* runs of the two workflows
  NoJob,          \* none of them
  Images,         \* digests in the registry
  Base,           \* the image that Terraform created the function with
  Healthy,        \* images whose /healthz can answer 200
  MaxAttempts     \* probes before the health check gives up

ASSUME LambdaAssumption ==
  /\ NoJob \notin Jobs
  /\ Base \in Images /\ Healthy \subseteq Images
  /\ MaxAttempts \in Nat \ {0}

VARIABLES
  pc,         \* queued, update, wait, list, shift, verify, passed or failed
  image,      \* the digest that a job deploys
  version,    \* the version that a job has taken from the list
  attempt,    \* probes made by a job
  code,       \* the image of $LATEST
  updater,    \* the job whose update of the function is in progress
  listed,     \* has that update's version been published?
  versions,   \* the image of each published version
  alias,      \* the version that live names, 0 for $LATEST
  own,        \* history: the version that a job's update was published as
  alone       \* history: no other job ran at any time while this one did

job      == <<pc, image, version, attempt>>
function == <<code, updater, listed, versions>>
history  == <<own, alone>>
vars     == <<job, function, alias, history>>

Steps == {"update", "wait", "list", "shift", "verify"}
Ended == {"passed", "failed"}
Active == {j \in Jobs : pc[j] \in Steps}

TypeOK ==
  /\ pc \in [Jobs -> {"queued"} \cup Steps \cup Ended]
  /\ image \in [Jobs -> Images]
  /\ version \in [Jobs -> Nat] /\ own \in [Jobs -> Nat]
  /\ attempt \in [Jobs -> 0 .. MaxAttempts]
  /\ code \in Images /\ versions \in Seq(Images)
  /\ updater \in Jobs \cup {NoJob}
  /\ listed \in BOOLEAN
  /\ alias \in 0 .. Len(versions)
  /\ alone \in [Jobs -> BOOLEAN]

\* Terraform creates the function without publishing a version, and the alias with it.
Init ==
  /\ pc = [j \in Jobs |-> "queued"]
  /\ image = [j \in Jobs |-> Base]
  /\ version = [j \in Jobs |-> 0]
  /\ attempt = [j \in Jobs |-> 0]
  /\ code = Base /\ versions = <<>> /\ updater = NoJob /\ listed = FALSE
  /\ alias = 0
  /\ own = [j \in Jobs |-> 0]
  /\ alone = [j \in Jobs |-> TRUE]

-----------------------------------------------------------------------------
(* The jobs. *)

Goto(j, from, to) == pc[j] = from /\ pc' = [pc EXCEPT ![j] = to]

\* "Determine Artifact Digest": given by the operator or looked up in the registry.
Start(j) ==
  /\ Goto(j, "queued", "update")
  /\ \E i \in Images : image' = [image EXCEPT ![j] = i]
  /\ alone' = [k \in Jobs |-> IF k = j THEN Active = {} ELSE alone[k] /\ k \notin Active]
  /\ UNCHANGED <<version, attempt, function, alias, own>>

\* Lambda takes one update at a time and refuses others, which fails the job.
UpdateFunctionCode(j) ==
  /\ updater = NoJob
  /\ Goto(j, "update", "wait")
  /\ updater' = j
  /\ UNCHANGED <<image, version, attempt, code, listed, versions, alias, history>>

UpdateRefused(j) ==
  /\ updater # NoJob
  /\ Goto(j, "update", "failed")
  /\ UNCHANGED <<image, version, attempt, function, alias, history>>

\* Mutant: the waiter is left out.
Wait_skipped(j) ==
  /\ Goto(j, "wait", "list")
  /\ UNCHANGED <<image, version, attempt, function, alias, history>>

\* "aws lambda wait function-updated": any job's update keeps it waiting.
Wait(j) ==
  /\ updater = NoJob
  /\ Goto(j, "wait", "list")
  /\ UNCHANGED <<image, version, attempt, function, alias, history>>

\* Mutants: the last entry but one is taken; the next version is guessed.
ListVersions_previous(j) ==
  /\ Goto(j, "list", "shift")
  /\ version' = [version EXCEPT ![j] = Len(versions) - 1]
  /\ UNCHANGED <<image, attempt, function, alias, history>>
ListVersions_beyond(j) ==
  /\ Goto(j, "list", "shift")
  /\ version' = [version EXCEPT ![j] = Len(versions) + 1]
  /\ UNCHANGED <<image, attempt, function, alias, history>>

\* "Versions[-1]": the last version of the list, whoever published it.
ListVersions(j) ==
  /\ Goto(j, "list", "shift")
  /\ version' = [version EXCEPT ![j] = Len(versions)]
  /\ UNCHANGED <<image, attempt, function, alias, history>>

UpdateAlias(j) ==
  /\ Goto(j, "shift", "verify")
  /\ alias' = version[j]
  /\ UNCHANGED <<image, version, attempt, function, history>>

Served == IF alias = 0 THEN code ELSE versions[alias]

\* A version that is still being created answers no request.
Available(v) == v = 0 \/ v < Len(versions) \/ ~listed

\* One probe through the gateway: whatever the alias names by now answers it.  A healthy
\* image may miss a probe, too.
ProbePasses(j) ==
  /\ Served \in Healthy /\ Available(alias)
  /\ Goto(j, "verify", "passed")
  /\ UNCHANGED <<image, version, attempt, function, alias, history>>

\* Mutant: the loop has no last attempt.
ProbeFails_for_ever(j) ==
  /\ pc[j] = "verify"
  /\ UNCHANGED vars

ProbeFails(j) ==
  /\ pc[j] = "verify"
  /\ attempt' = [attempt EXCEPT ![j] = @ + 1]
  /\ pc' = [pc EXCEPT ![j] = IF attempt'[j] = MaxAttempts THEN "failed" ELSE "verify"]
  /\ UNCHANGED <<image, version, function, alias, history>>

\* A call that fails, or a cancelled job: nothing of what was done is undone.
StepFails(j) ==
  /\ pc[j] \in Steps
  /\ pc' = [pc EXCEPT ![j] = "failed"]
  /\ UNCHANGED <<image, version, attempt, function, alias, history>>

\* The steps of deploy-lambda; promote-to-prod.yml:126-159 has the same, in this order.
Proceed(j) ==
  \/ UpdateFunctionCode(j) \/ UpdateRefused(j) \/ Wait(j) \/ ListVersions(j)
  \/ UpdateAlias(j) \/ ProbePasses(j) \/ ProbeFails(j)

-----------------------------------------------------------------------------
(* Lambda. *)

\* An image that is already the last version is not published again.
Published == versions # <<>> /\ versions[Len(versions)] = image[updater]

\* The version shows in the list before the update has finished.
Publish ==
  /\ updater # NoJob /\ ~listed /\ ~Published
  /\ versions' = Append(versions, image[updater])
  /\ listed' = TRUE
  /\ own' = [own EXCEPT ![updater] = Len(versions')]
  /\ UNCHANGED <<job, code, updater, alias, alone>>

FinishUpdate ==
  /\ updater # NoJob /\ (listed \/ Published)
  /\ code' = image[updater]
  /\ own' = [own EXCEPT ![updater] = Len(versions)]
  /\ updater' = NoJob /\ listed' = FALSE
  /\ UNCHANGED <<job, versions, alias, alone>>

Lambda == Publish \/ FinishUpdate

Next == Lambda \/ \E j \in Jobs : Start(j) \/ Proceed(j) \/ StepFails(j)

Spec == Init /\ [][Next]_vars /\ WF_vars(Lambda) /\ \A j \in Jobs : WF_vars(Proceed(j))

-----------------------------------------------------------------------------
(* Properties. *)

\* A job may put another job's version live, but never one older than its own.
NeverShiftsBack ==
  \A j \in Jobs : pc[j] \in {"shift", "verify", "passed"} => own[j] > 0 /\ version[j] >= own[j]

\* A job that no other overlapped takes the version it published itself, when it is ready;
\* it probes that version, and passes only if its image is healthy.
AloneDeploysItsImage ==
  \A j \in Jobs : alone[j] =>
    /\ pc[j] \in {"shift", "verify"} => version[j] = own[j] /\ Available(version[j])
    /\ pc[j] \in {"shift", "verify", "passed"} => versions[version[j]] = image[j]
    /\ pc[j] = "verify" => alias = version[j]
    /\ pc[j] = "passed" => image[j] \in Healthy

\* What makes both inductive: an update belongs to a job that waits for it or has failed
\* since, and a job that runs alone sees nobody else's.
UpdateInv ==
  /\ listed => updater # NoJob
  /\ \A j \in Jobs :
       /\ own[j] <= Len(versions) /\ version[j] <= Len(versions)
       /\ pc[j] # "failed" => attempt[j] < MaxAttempts
       /\ updater = j => pc[j] \in {"wait", "failed"}
       /\ updater = j /\ listed => own[j] = Len(versions) /\ own[j] > 0
                                  /\ versions[own[j]] = image[j]
       /\ pc[j] = "wait" => updater = j \/ own[j] > 0
       /\ pc[j] \in {"list", "shift", "verify", "passed"} => own[j] > 0
       /\ pc[j] \in {"shift", "verify", "passed"} => version[j] >= own[j]
AloneInv ==
  \A j \in Jobs : alone[j] =>
    /\ pc[j] \in Steps => Active = {j}
    /\ pc[j] \in {"list", "shift", "verify"} => updater = NoJob
    /\ pc[j] = "wait" /\ updater # j => updater = NoJob
    /\ pc[j] \in {"list", "shift", "verify"} \/ (pc[j] = "wait" /\ updater = NoJob) =>
         own[j] = Len(versions) /\ versions[own[j]] = image[j]

\* Every job that was started ends.
JobsEnd == \A j \in Jobs : pc[j] \in Steps ~> pc[j] \in Ended

\* The step "Retrieve Published Version" retrieves the version that the job has published.
RetrievesPublishedVersion ==
  \A j \in Jobs : pc[j] = "shift" => versions[version[j]] = image[j]

\* After a health check that failed, "Lambda alias reverts to previous version".
FailedVersionWithdrawn ==
  \A j \in Jobs :
    pc[j] = "failed" /\ attempt[j] = MaxAttempts /\ alias = version[j] ~> alias # version[j]

=============================================================================
