------------------------------ MODULE PodcliWs ------------------------------
(***************************************************************************)
(* podcli ws: one goroutine reads the console and writes to the websocket, *)
(* one reads the websocket and prints, and main waits for the first error  *)
(* on an unbuffered channel.  Either goroutine's way out ends the process. *)
(***************************************************************************)
EXTENDS Integers, Sequences

CONSTANTS
  MaxLines,   \* lines the user types
  MaxFrames   \* frames of the server that arrive

VARIABLES
  main,      \* the goroutine of main, which is in RunE until it has returned
  console,   \* the readConsole goroutine
  line,      \* the line it holds, 0 if none
  socket,    \* the readWebsocket goroutine
  frame,     \* the frame it holds, 0 if none
  terminal,  \* the console is in raw mode, as it is inside Readline
  exit,      \* exit code, Running while the process lives
  typed,     \* lines typed so far
  eof,       \* the user has ended the input
  toServer,  \* lines that went out, in order
  sent,      \* frames of the server that have arrived
  shown,     \* frames printed, in order
  closed     \* the connection is closed by the server or broken

vars == <<main, console, line, socket, frame, terminal, exit, typed, eof, toServer, sent, shown, closed>>

Running == -1
Upto(n) == [i \in 1..n |-> i]

TypeOK ==
  /\ main \in {"dial", "prompt", "wait", "returned"}
  /\ console \in {"none", "call", "read", "write", "report", "ended"} /\ line \in 0..MaxLines
  /\ socket \in {"none", "read", "print", "ended"} /\ frame \in 0..MaxFrames
  /\ terminal \in BOOLEAN /\ exit \in {Running, 0, 1}
  /\ typed \in 0..MaxLines /\ sent \in 0..MaxFrames
  /\ eof \in BOOLEAN /\ closed \in BOOLEAN
  /\ toServer \in Seq(1..MaxLines) /\ shown \in Seq(1..MaxFrames)

Init ==
  /\ main = "dial" /\ console = "none" /\ socket = "none"
  /\ line = 0 /\ frame = 0 /\ terminal = FALSE /\ exit = Running
  /\ typed = 0 /\ eof = FALSE /\ toServer = <<>> /\ sent = 0 /\ shown = <<>> /\ closed = FALSE

Alive == exit = Running
peers == <<typed, eof, sent, closed>>
data  == <<line, frame, toServer, shown>>

-----------------------------------------------------------------------------
(* RunE and connect.                                                       *)

\* No address, or one that cannot be parsed: main prints the error that RunE returns.
UsageError ==
  /\ Alive /\ main = "dial"
  /\ exit' = 1
  /\ UNCHANGED <<main, console, socket, terminal, peers, data>>

\* Any error of connect is logged by RunE, and the command succeeds.
Dial ==
  /\ Alive /\ main = "dial"
  /\ main' \in {"prompt", "returned"}
  /\ UNCHANGED <<console, socket, terminal, exit, peers, data>>

\* A prompt that fails leaves the websocket open; the exit closes it.
Prompt ==
  /\ Alive /\ main = "prompt"
  /\ \/ main' = "wait" /\ console' = "call" /\ socket' = "read"
     \/ main' = "returned" /\ UNCHANGED <<console, socket>>
  /\ UNCHANGED <<terminal, exit, peers, data>>

\* The hand-over on errChan: connect returns, and its defer closes readline, which
\* ends the raw mode.
Report ==
  /\ Alive /\ main = "wait" /\ console = "report"
  /\ main' = "returned" /\ console' = "ended" /\ terminal' = FALSE
  /\ UNCHANGED <<socket, exit, peers, data>>

MainExits ==
  /\ Alive /\ main = "returned"
  /\ exit' = 0
  /\ UNCHANGED <<main, console, socket, terminal, peers, data>>

-----------------------------------------------------------------------------
EnterRawMode ==
  /\ Alive /\ console = "call"
  /\ console' = "read" /\ terminal' = TRUE
  /\ UNCHANGED <<main, socket, exit, peers, data>>

\* It returns a line, or the end of the input, and leaves the raw mode.
Readline ==
  /\ Alive /\ console = "read"
  /\ \/ /\ typed > Len(toServer)
        /\ console' = "write" /\ line' = Len(toServer) + 1
     \/ /\ eof /\ typed = Len(toServer)
        /\ console' = "report" /\ UNCHANGED line
  /\ terminal' = FALSE
  /\ UNCHANGED <<main, socket, exit, frame, toServer, shown, peers>>

\* No deadline is set: a server that does not read may block it for ever.
WriteMessage ==
  /\ Alive /\ console = "write"
  /\ \/ ~closed /\ toServer' = Append(toServer, line) /\ console' = "call"
     \/ closed /\ console' = "report" /\ UNCHANGED toServer
  /\ line' = 0
  /\ UNCHANGED <<main, socket, terminal, exit, frame, shown, peers>>

readConsole == EnterRawMode \/ Readline \/ WriteMessage

\* Frames that arrived are read before the close is seen.
ReadMessage ==
  /\ Alive /\ socket = "read" /\ sent > Len(shown)
  /\ socket' = "print" /\ frame' = Len(shown) + 1
  /\ UNCHANGED <<main, console, terminal, exit, line, toServer, shown, peers>>

ShowFrame ==
  /\ Alive /\ socket = "print"
  /\ shown' = Append(shown, frame) /\ frame' = 0 /\ socket' = "read"
  /\ UNCHANGED <<main, console, terminal, exit, line, toServer, peers>>

\* Mutant: the error is reported before the last frames.
ReadFails_at_once ==
  /\ Alive /\ socket = "read" /\ closed
  /\ socket' = "ended" /\ exit' = 1
  /\ UNCHANGED <<main, console, terminal, peers, data>>

\* os.Exit(1): no deferred call runs, so readline is not closed.
ReadFails ==
  /\ Alive /\ socket = "read" /\ closed /\ sent = Len(shown)
  /\ socket' = "ended" /\ exit' = 1
  /\ UNCHANGED <<main, console, terminal, peers, data>>

readWebsocket == ReadMessage \/ ShowFrame \/ ReadFails

-----------------------------------------------------------------------------
(* The user and the server.                                                *)
Type ==
  /\ Alive /\ ~eof /\ typed < MaxLines /\ typed' = typed + 1
  /\ UNCHANGED <<main, console, socket, terminal, exit, eof, sent, closed, data>>
EndInput ==
  /\ Alive /\ ~eof /\ eof' = TRUE
  /\ UNCHANGED <<main, console, socket, terminal, exit, typed, sent, closed, data>>
Send ==
  /\ Alive /\ main = "wait" /\ ~closed /\ sent < MaxFrames /\ sent' = sent + 1
  /\ UNCHANGED <<main, console, socket, terminal, exit, typed, eof, closed, data>>
Close ==
  /\ Alive /\ main = "wait" /\ ~closed /\ closed' = TRUE
  /\ UNCHANGED <<main, console, socket, terminal, exit, typed, eof, sent, data>>

connect == UsageError \/ Dial \/ Prompt \/ Report \/ MainExits
Next == connect \/ readConsole \/ readWebsocket \/ Type \/ EndInput \/ Send \/ Close

\* The goroutines run when they can, but no write has to succeed.
Terminal == EnterRawMode \/ Readline

Spec == Init /\ [][Next]_vars /\ WF_vars(connect) /\ WF_vars(Terminal) /\ WF_vars(readWebsocket)

-----------------------------------------------------------------------------
(* The exit code tells how a session ended.  With 1 there was none, since  *)
(* the call was wrong, or the server has closed, and every frame that had  *)
(* arrived was shown.  With 0 the terminal is given back, and no session   *)
(* could be set up, or the connection is closed, since a write that fails  *)
(* races with the read that fails, or all the user typed has gone out.     *)
SessionVerdict ==
  /\ exit = 1 => main = "dial" \/ (closed /\ shown = Upto(sent))
  /\ exit = 0 => /\ ~terminal
                 /\ socket = "none" \/ closed \/ (eof /\ toServer = Upto(typed))

(* The end of the connection ends the process, whatever the console is     *)
(* waiting for; the end of the input does, unless a write blocks for ever. *)
SessionEnds ==
  /\ (main = "wait" /\ closed) ~> ~Alive
  /\ <>[](Alive /\ console = "write") \/ ((main = "wait" /\ eof) ~> ~Alive)
=============================================================================
