---------------------------- MODULE MCDeployments ----------------------------
(***************************************************************************)
(* The deployments for TLC: the overlapping Lambda jobs, and the start of  *)
(* a new EC2 instance.  They share no state, and part says which of them   *)
(* moves.                                                                  *)
(***************************************************************************)
EXTENDS LambdaDeploy

VARIABLES part, flow, healthy, boot, agent, hook, container, booted

Ec2 == INSTANCE InstanceBoot

bootVars == <<flow, healthy, boot, agent, hook, container, booted>>
allVars  == <<part, vars, bootVars>>

MCInit ==
  /\ part \in {"lambda", "ec2"}
  /\ Init /\ Ec2!Init
  /\ part # "ec2" => flow = "deploy" /\ healthy = {}

AsLambda(action) == part = "lambda" /\ action /\ UNCHANGED <<part, bootVars>>
AsEc2(action)    == part = "ec2" /\ action /\ UNCHANGED <<part, vars>>

MCNext == AsLambda(Next) \/ AsEc2(Ec2!BootNext)

MCSpec ==
  /\ MCInit /\ [][MCNext]_allVars
  /\ WF_allVars(AsLambda(Lambda))
  /\ \A j \in Jobs : WF_allVars(AsLambda(Proceed(j)))

-----------------------------------------------------------------------------
(* The types of both.                                                      *)
DeploymentTypes == TypeOK /\ Ec2!TypeOK

(* An instance whose hooks passed runs the healthy image of its bundle,    *)
(* whatever user data does meanwhile.                                      *)
PassedRunsTheBundle == Ec2!PassedRunsTheBundle
=============================================================================
