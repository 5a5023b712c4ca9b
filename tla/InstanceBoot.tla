----------------------------- MODULE InstanceBoot -----------------------------
(***************************************************************************)
(* A new EC2 instance.  Its user data (user_data.sh in infra/environments) *)
(* starts the CodeDeploy agent and then the image of the launch template,  *)
(* and at the same time the agent runs the hooks of the bundle that        *)
(* deploy.yml or promote-to-prod.yml has built, which start the image of   *)
(* the job.  Both call their container podinfo.  ApplicationStop is a hook *)
(* of the revision that is replaced, of which a new instance has none.     *)
(***************************************************************************)
EXTENDS Naturals

VARIABLES
  flow,       \* the workflow the bundle comes from: deploy or promote
  healthy,    \* which of the two images answer /healthz
  boot,       \* user data: setup, run, check or end
  agent,      \* the CodeDeploy agent is active
  hook,       \* the hooks: see Hooks
  container,  \* the image of the container called podinfo
  booted      \* history: user data started its container

bootVars == <<flow, healthy, boot, agent, hook, container, booted>>
given    == <<flow, healthy>>

BootImages == {"template", "bundle"}
Hooks  == {"none", "prepare", "remove", "run", "look", "validate", "passed", "failed"}

TypeOK ==
  /\ flow \in {"deploy", "promote"} /\ healthy \subseteq BootImages
  /\ boot \in {"setup", "run", "check", "end"} /\ agent \in BOOLEAN
  /\ hook \in Hooks /\ container \in BootImages \cup {"none"} /\ booted \in BOOLEAN

Init ==
  /\ flow \in {"deploy", "promote"} /\ healthy \in SUBSET BootImages
  /\ boot = "setup" /\ agent = FALSE /\ hook = "none" /\ container = "none" /\ booted = FALSE

-----------------------------------------------------------------------------
(* User data, in which no failure ends the script.                         *)

\* The loop that follows only looks at the agent.
StartAgent ==
  /\ boot = "setup" /\ boot' = "run"
  /\ agent' \in BOOLEAN
  /\ UNCHANGED <<given, hook, container, booted>>

\* docker refuses a second container of that name.
BootRun ==
  /\ boot = "run" /\ boot' = "check"
  /\ \/ /\ container = "none"
        /\ container' = "template" /\ booted' = TRUE
     \/ UNCHANGED <<container, booted>>
  /\ UNCHANGED <<given, agent, hook>>

\* The result of the last check is logged only.
BootCheck ==
  /\ boot = "check" /\ boot' = "end"
  /\ UNCHANGED <<given, agent, hook, container, booted>>

-----------------------------------------------------------------------------
(* The hooks.  CodeDeploy may begin as soon as the agent is active.        *)
Goto(from, to) == hook = from /\ hook' = to

BeginHooks ==
  /\ agent /\ Goto("none", "prepare")
  /\ UNCHANGED <<given, boot, agent, container, booted>>

\* Under set -e the login, the pull, or the lookup of the secret ends the
\* script; the value for a missing secret is used for an empty one only.
Prepare ==
  /\ \/ Goto("prepare", IF flow = "deploy" THEN "remove" ELSE "run")
     \/ Goto("prepare", "failed")
  /\ UNCHANGED <<given, boot, agent, container, booted>>

\* Only start_container.sh removes what is there, start.sh does not.
CleanSlate ==
  /\ Goto("remove", "run")
  /\ container' = "none"
  /\ UNCHANGED <<given, boot, agent, booted>>

\* Mutant: start_container.sh without set -e.
DockerRun_goes_on ==
  /\ \/ container = "none" /\ container' = "bundle" /\ Goto("run", "look")
     \/ UNCHANGED container /\ Goto("run", "look")
  /\ UNCHANGED <<given, boot, agent, booted>>

DockerRun ==
  /\ \/ container = "none" /\ container' = "bundle" /\ Goto("run", "look")
     \/ UNCHANGED container /\ Goto("run", "failed")
  /\ UNCHANGED <<given, boot, agent, booted>>

\* docker ps: an image that ends at once may be between two restarts.
Look ==
  /\ \/ Goto("look", "validate")
     \/ container \notin healthy /\ Goto("look", "failed")
  /\ UNCHANGED <<given, boot, agent, container, booted>>

\* validate_service.sh, validate.sh: 30 probes of localhost.
ValidateService ==
  /\ \/ container \in healthy /\ Goto("validate", "passed")
     \/ Goto("validate", "failed")
  /\ UNCHANGED <<given, boot, agent, container, booted>>

HookStep ==
  BeginHooks \/ Prepare \/ CleanSlate \/ DockerRun \/ Look \/ ValidateService

BootNext == StartAgent \/ BootRun \/ BootCheck \/ HookStep

-----------------------------------------------------------------------------
(* An instance that passed runs the healthy image of its bundle, and goes  *)
(* on running it, although user data starts another image under the same   *)
(* name at any time.  A new instance of production passes only if user     *)
(* data comes too late: start.sh does not remove its container.            *)
PassedRunsTheBundle ==
  hook = "passed" =>
    /\ container = "bundle" /\ container \in healthy
    /\ flow = "promote" => ~booted

=============================================================================
