------------------------------- MODULE EchoWs -------------------------------
(***************************************************************************)
(* One websocket session of GET /ws/echo (pkg/api/http/echows.go): the     *)
(* handler reads messages, sendHostWs adds a status every five seconds,    *)
(* both hand them to writeWs over the unbuffered channel in, and a fourth  *)
(* goroutine closes that channel once sendHostWs has signed off.           *)
(***************************************************************************)
EXTENDS Integers

CONSTANT MaxMessages    \* bound on the messages a client sends

ASSUME MessagesAssumption == MaxMessages \in Nat

VARIABLES
  handler,    \* echoWsHandler: read, send, then its deferred close(done) and c.Close()
  sender,     \* sendHostWs: select, send, gone
  writer,     \* writeWs: recv, write, gone
  closer,     \* the goroutine that waits for the group: wait, close, gone
  holds,      \* what the writer took from the channel
  done,       \* is the channel done closed?
  inClosed,   \* is the channel in closed?
  conn,       \* the connection: open, broken by the peer, closed by the handler
  got,        \* echo messages read so far
  echoed,     \* echo messages written so far
  nulls       \* was a null written, for want of a message?

goroutines == <<handler, sender, writer, closer>>
vars == <<goroutines, holds, done, inClosed, conn, got, echoed, nulls>>

TypeOK ==
  /\ handler \in {"read", "send", "close_done", "close_conn", "gone"}
  /\ sender \in {"select", "send", "signoff", "gone"}
  /\ writer \in {"recv", "write", "gone"}
  /\ closer \in {"wait", "close", "gone"}
  /\ holds \in {"none", "echo", "status", "null"}
  /\ done \in BOOLEAN /\ inClosed \in BOOLEAN
  /\ conn \in {"open", "broken", "closed"}
  /\ got \in 0 .. MaxMessages /\ echoed \in 0 .. MaxMessages
  /\ nulls \in BOOLEAN

\* The upgrade succeeded and the three goroutines are started.
Init ==
  /\ handler = "read" /\ sender = "select" /\ writer = "recv" /\ closer = "wait"
  /\ holds = "none"
  /\ done = FALSE /\ inClosed = FALSE
  /\ conn = "open"
  /\ got = 0 /\ echoed = 0
  /\ nulls = FALSE

-----------------------------------------------------------------------------
(* The peer, or the network, drops the connection.  What it had sent before *)
(* may still be read.                                                       *)
Break ==
  /\ conn = "open"
  /\ conn' = "broken"
  /\ UNCHANGED <<goroutines, holds, done, inClosed, got, echoed, nulls>>

-----------------------------------------------------------------------------
(* echoWsHandler *)

ReadMessage ==
  /\ handler = "read" /\ conn # "closed" /\ got < MaxMessages
  /\ handler' = "send"
  /\ got' = got + 1
  /\ UNCHANGED <<sender, writer, closer, holds, done, inClosed, conn, echoed, nulls>>

ReadError ==
  /\ handler = "read" /\ conn # "open"
  /\ handler' = "close_done"
  /\ UNCHANGED <<sender, writer, closer, holds, done, inClosed, conn, got, echoed, nulls>>

\* Mutant: the handler closes the channel in as well.
CloseDone_and_in ==
  /\ handler = "close_done"
  /\ handler' = "close_conn"
  /\ done' = TRUE /\ inClosed' = TRUE
  /\ UNCHANGED <<sender, writer, closer, holds, conn, got, echoed, nulls>>

\* The deferred calls run last to first: close(done), then c.Close().
CloseDone ==
  /\ handler = "close_done"
  /\ handler' = "close_conn"
  /\ done' = TRUE
  /\ UNCHANGED <<sender, writer, closer, holds, inClosed, conn, got, echoed, nulls>>

\* Mutant: the handler leaves without closing the connection.
CloseConn_forgotten ==
  /\ handler = "close_conn"
  /\ handler' = "gone"
  /\ UNCHANGED <<sender, writer, closer, holds, done, inClosed, conn, got, echoed, nulls>>

CloseConn ==
  /\ handler = "close_conn"
  /\ handler' = "gone"
  /\ conn' = "closed"
  /\ UNCHANGED <<sender, writer, closer, holds, done, inClosed, got, echoed, nulls>>

-----------------------------------------------------------------------------
(* The channel in: a send and the receive that takes it are one step. *)

HandOverEcho ==
  /\ handler = "send" /\ writer = "recv" /\ ~inClosed
  /\ handler' = "read"
  /\ writer' = "write" /\ holds' = "echo"
  /\ UNCHANGED <<sender, closer, done, inClosed, conn, got, echoed, nulls>>

HandOverStatus ==
  /\ sender = "send" /\ writer = "recv" /\ ~inClosed
  /\ sender' = "select"
  /\ writer' = "write" /\ holds' = "status"
  /\ UNCHANGED <<handler, closer, done, inClosed, conn, got, echoed, nulls>>

\* A receive from the closed channel yields nil at once.
ReceiveNil ==
  /\ writer = "recv" /\ inClosed
  /\ writer' = "write" /\ holds' = "null"
  /\ UNCHANGED <<handler, sender, closer, done, inClosed, conn, got, echoed, nulls>>

-----------------------------------------------------------------------------
(* writeWs *)

WriteJSON ==
  /\ writer = "write" /\ conn # "closed"
  /\ writer' = "recv" /\ holds' = "none"
  /\ echoed' = IF holds = "echo" THEN echoed + 1 ELSE echoed
  /\ nulls' = (nulls \/ holds = "null")
  /\ UNCHANGED <<handler, sender, closer, done, inClosed, conn, got>>

\* Mutant: the writer logs the error and goes on.
WriteError_continues ==
  /\ writer = "write" /\ conn # "open"
  /\ writer' = "recv" /\ holds' = "none"
  /\ UNCHANGED <<handler, sender, closer, done, inClosed, conn, got, echoed, nulls>>

WriteError ==
  /\ writer = "write" /\ conn # "open"
  /\ writer' = "gone" /\ holds' = "none"
  /\ UNCHANGED <<handler, sender, closer, done, inClosed, conn, got, echoed, nulls>>

-----------------------------------------------------------------------------
(* sendHostWs *)

TickerFires ==
  /\ sender = "select"
  /\ sender' = "send"
  /\ UNCHANGED <<handler, writer, closer, holds, done, inClosed, conn, got, echoed, nulls>>

SeeDone ==
  /\ sender = "select" /\ done
  /\ sender' = "signoff"
  /\ UNCHANGED <<handler, writer, closer, holds, done, inClosed, conn, got, echoed, nulls>>

WgDone ==
  /\ sender = "signoff"
  /\ sender' = "gone"
  /\ UNCHANGED <<handler, writer, closer, holds, done, inClosed, conn, got, echoed, nulls>>

-----------------------------------------------------------------------------
(* The anonymous goroutine: wg.Wait(), then its deferred close(in). *)

\* Mutant: the goroutine waits for the handler only.
WgWait_for_done ==
  /\ closer = "wait" /\ done
  /\ closer' = "close"
  /\ UNCHANGED <<handler, sender, writer, holds, done, inClosed, conn, got, echoed, nulls>>

WgWait ==
  /\ closer = "wait" /\ sender = "gone"
  /\ closer' = "close"
  /\ UNCHANGED <<handler, sender, writer, holds, done, inClosed, conn, got, echoed, nulls>>

CloseIn ==
  /\ closer = "close"
  /\ closer' = "gone"
  /\ inClosed' = TRUE
  /\ UNCHANGED <<handler, sender, writer, holds, done, conn, got, echoed, nulls>>

-----------------------------------------------------------------------------
HandlerStep == ReadError \/ CloseDone \/ CloseConn
WriterStep  == ReceiveNil \/ WriteJSON \/ WriteError
HandOver    == HandOverEcho \/ HandOverStatus
CloserStep  == WgWait \/ CloseIn

Next ==
  \/ Break
  \/ ReadMessage
  \/ HandlerStep
  \/ HandOver
  \/ WriterStep
  \/ TickerFires \/ SeeDone \/ WgDone
  \/ CloserStep

\* The scheduler runs every goroutine that can run.  The senders that wait on a channel
\* are served in the order they came.  done stays readable once it is
\* closed and the ticker is ready only every five seconds, so that the select of
\* sendHostWs cannot miss it for ever.  Nothing is assumed of the peer.
Fairness ==
  /\ WF_vars(HandlerStep)
  /\ WF_vars(WriterStep)
  /\ SF_vars(HandOverEcho) /\ SF_vars(HandOverStatus)
  /\ WF_vars(WgDone)
  /\ SF_vars(SeeDone)
  /\ WF_vars(CloserStep)

Spec == Init /\ [][Next]_vars /\ Fairness

-----------------------------------------------------------------------------
(* Properties. *)

\* No goroutine ever sends on the closed channel in, which would panic and take the
\* process with it: in is closed after sendHostWs signed off, which it does after the
\* handler closed done, which it does after its last message was taken.
NoSendOnClosedChannel ==
  inClosed => handler \notin {"read", "send"} /\ sender \notin {"select", "send"}

\* The inductive form: each link of the chain of closes.
CloseChain ==
  /\ done => handler \in {"close_conn", "gone"}
  /\ sender \in {"signoff", "gone"} => done
  /\ closer # "wait" => sender = "gone"
  /\ inClosed => closer = "gone"

\* Echoes neither overtake nor multiply: of the messages read, all were written but
\* those in the hands of the handler and of the writer; a writer that died loses its own.
WriterHolds == holds # "none" <=> writer = "write"
EchoesAccountedFor ==
  LET inHand == (IF handler = "send" THEN 1 ELSE 0) + (IF holds = "echo" THEN 1 ELSE 0)
  IN /\ echoed + inHand <= got
     /\ writer # "gone" => got = echoed + inHand

\* The client is sent a null only when it is gone or going: after the read loop ended.
NullsOnlyAtTheEnd == nulls => done /\ sender = "gone"

AllGone == handler = "gone" /\ sender = "gone" /\ writer = "gone" /\ closer = "gone"

\* The writer returned at a failed write while somebody still has to hand it a message:
\* nothing can take that message any more.
Orphaned == writer = "gone" /\ (handler = "send" \/ sender = "send")

\* When the connection breaks, all four goroutines end, unless the writer left a sender
\* behind.  That is the only way in which a session leaks.
SessionEnds == conn # "open" ~> (AllGone \/ Orphaned)

=============================================================================
