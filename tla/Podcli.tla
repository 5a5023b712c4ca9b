------------------------------- MODULE Podcli -------------------------------
(***************************************************************************)
(* The process podcli: its arguments choose one command, podcli check with *)
(* its four kinds or podcli ws, and the exit code of that command is the   *)
(* exit code of the process.                                               *)
(***************************************************************************)
EXTENDS PodcliCheck, Sequences

CONSTANTS MaxLines, MaxFrames   \* see PodcliWs

ASSUME SessionAssumption == MaxLines \in Nat /\ MaxFrames \in Nat

VARIABLES
  command,   \* the command the arguments name
  main, console, line, socket, frame, terminal, typed, eof, toServer, sent, shown, closed

Ws == INSTANCE PodcliWs

checkVars == <<kind, retry, address, n, pc, attempts, waited, answer, open>>
wsVars    == <<main, console, line, socket, frame, terminal, typed, eof, toServer, sent, shown, closed>>
allVars   == <<command, exit, checkVars, wsVars>>

\* The flags of check are parsed only when check is the command.
rootCmd ==
  /\ command \in {"check", "ws"}
  /\ Init /\ Ws!Init
  /\ command = "ws" => (kind = "http" /\ retry = 0 /\ address)

Check   == command = "check" /\ Next /\ UNCHANGED <<command, wsVars>>
Session == command = "ws" /\ Ws!Next /\ UNCHANGED <<command, checkVars>>

Execute == Check \/ Session

\* Calls of the loops have a timeout, the handshake of cert has none.  The goroutines
\* of ws run when they can; the user and the server do as they like, and a write, which
\* has no deadline, need not succeed.
CommandFairness ==
  /\ WF_allVars(command = "check" /\ Loop /\ UNCHANGED <<command, wsVars>>)
  /\ WF_allVars(command = "ws" /\ Ws!connect /\ UNCHANGED <<command, checkVars>>)
  /\ WF_allVars(command = "ws" /\ Ws!Terminal /\ UNCHANGED <<command, checkVars>>)
  /\ WF_allVars(command = "ws" /\ Ws!readWebsocket /\ UNCHANGED <<command, checkVars>>)

PodcliSpec == rootCmd /\ [][Execute]_allVars /\ CommandFairness

-----------------------------------------------------------------------------
(* The types of both commands.                                             *)
CommandTypes == TypeOK /\ Ws!TypeOK

(* The verdict of a check is that of its attempts: 0 at the first success, *)
(* 1 for a wrong call, for a target that cannot be checked, and otherwise  *)
(* only after the first attempt and all the retries asked for.             *)
CheckVerdict == command = "check" => VerdictMatchesAttempts

(* Exit code 1 of ws means that the call was wrong or that every frame the *)
(* server sent before it closed was shown; 0 that the terminal was given   *)
(* back, and that all input went out unless the connection had failed.     *)
SessionVerdict == command = "ws" => Ws!SessionVerdict

(* A check other than cert ends whatever the target does, and a session    *)
(* ends when the connection does, or when the input does and no write      *)
(* blocks for ever.                                                        *)
CommandsEnd ==
  /\ (command = "check" /\ kind # "cert") ~> (pc = "end")
  /\ Ws!SessionEnds
=============================================================================
