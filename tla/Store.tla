-------------------------------- MODULE Store --------------------------------
(***************************************************************************)
(* POST /store and GET /store/{hash} (pkg/api/http/store.go) on one file.  *)
(* The name of the file is the hash of its content, so all uploads write   *)
(* the same bytes, but each of them truncates the file first and keeps its *)
(* own offset.  The volume outlives the process.                           *)
(***************************************************************************)
EXTENDS Integers, FiniteSets

CONSTANTS
  Uploads, Downloads,   \* requests
  Size                  \* blocks of the content

VARIABLES
  exists,   \* the file exists
  size,     \* its length
  good,     \* the blocks of it that hold the content; the others are holes
  alive,       \* the process lives
  wr,       \* the state and offset of each upload
  rd,       \* the same of each download, with the blocks read that were good
  torn,     \* history: some upload that truncated the file never finished
  stored    \* history: some upload was answered with success

storeVars == <<exists, size, good, alive, wr, rd, torn, stored>>

NotRead == [pc |-> "idle", at |-> 0, got |-> {}, disturbed |-> FALSE, late |-> FALSE]

Upload   == [pc : {"idle", "open", "write", "202", "error", "gone"}, at : 0..Size]
Download == [pc : {"idle", "open", "read", "202", "error", "gone"}, at : 0..Size,
             got : SUBSET (1..Size), disturbed : BOOLEAN, late : BOOLEAN]

TypeOK ==
  /\ exists \in BOOLEAN /\ alive \in BOOLEAN /\ torn \in BOOLEAN /\ stored \in BOOLEAN
  /\ size \in 0..Size /\ good \subseteq 1..size
  /\ wr \in [Uploads -> Upload]
  /\ rd \in [Downloads -> Download]

Init ==
  /\ exists = FALSE /\ size = 0 /\ good = {} /\ alive = TRUE
  /\ wr = [u \in Uploads |-> [pc |-> "idle", at |-> 0]]
  /\ rd = [d \in Downloads |-> NotRead]
  /\ torn = FALSE /\ stored = FALSE

Writing(u) == wr[u].pc = "write"
Reading(d) == rd[d].pc \in {"open", "read"}

\* Downloads under way when a truncated file is not whole again yet.
Disturbed == [d \in Downloads |-> IF Reading(d) THEN [rd[d] EXCEPT !.disturbed = TRUE] ELSE rd[d]]

-----------------------------------------------------------------------------
(* storeWriteHandler.                                                      *)

\* The body is read, or not; its hash is the name of the file.
Receive(u) ==
  /\ alive /\ wr[u].pc = "idle"
  /\ \E pc \in {"open", "error"} : wr' = [wr EXCEPT ![u].pc = pc]
  /\ UNCHANGED <<exists, size, good, alive, rd, torn, stored>>

\* os.WriteFile opens with O_CREATE and O_TRUNC, or fails.
Truncate(u) ==
  /\ alive /\ wr[u].pc = "open"
  /\ \/ /\ exists' = TRUE /\ size' = 0 /\ good' = {}
        /\ wr' = [wr EXCEPT ![u].pc = "write"] /\ rd' = Disturbed
     \/ wr' = [wr EXCEPT ![u].pc = "error"] /\ UNCHANGED <<exists, size, good, rd>>
  /\ UNCHANGED <<alive, torn, stored>>

\* Mutant: the content is appended at the end of the file, whoever wrote that.
WriteBlock_appends(u) ==
  /\ alive /\ Writing(u) /\ wr[u].at < Size
  /\ wr' = [wr EXCEPT ![u].at = @ + 1]
  /\ size' = (IF size < Size THEN size + 1 ELSE size)
  /\ good' = IF wr[u].at = size THEN good \cup {size + 1} ELSE good
  /\ UNCHANGED <<exists, alive, rd, torn, stored>>

WriteBlock(u) ==
  /\ alive /\ Writing(u) /\ wr[u].at < Size
  /\ LET at == wr[u].at + 1
     IN  /\ wr' = [wr EXCEPT ![u].at = at]
         /\ size' = (IF at > size THEN at ELSE size)
         /\ good' = good \cup {at}
  /\ UNCHANGED <<exists, alive, rd, torn, stored>>

\* A full disk; what was written stays, and the reply is an error.
WriteFails(u) ==
  /\ alive /\ Writing(u) /\ wr[u].at < Size
  /\ wr' = [wr EXCEPT ![u].pc = "error"] /\ torn' = TRUE
  /\ UNCHANGED <<exists, size, good, alive, rd, stored>>

Written(u) ==
  /\ alive /\ Writing(u) /\ wr[u].at = Size
  /\ wr' = [wr EXCEPT ![u].pc = "202"] /\ stored' = TRUE
  /\ UNCHANGED <<exists, size, good, alive, rd, torn>>

storeWriteHandler(u) == Receive(u) \/ Truncate(u) \/ WriteBlock(u) \/ WriteFails(u) \/ Written(u)

-----------------------------------------------------------------------------
(* storeReadHandler.                                                       *)

Request(d) ==
  /\ alive /\ rd[d].pc = "idle"
  /\ rd' = [rd EXCEPT ![d] = [NotRead EXCEPT !.pc = "open", !.late = stored,
                                            !.disturbed = \E u \in Uploads : Writing(u)]]
  /\ UNCHANGED <<exists, size, good, alive, wr, torn, stored>>

Open(d) ==
  /\ alive /\ rd[d].pc = "open"
  /\ rd' = [rd EXCEPT ![d].pc = IF exists THEN "read" ELSE "error"]
  /\ UNCHANGED <<exists, size, good, alive, wr, torn, stored>>

\* os.ReadFile goes on to the end that the file has by then.
ReadBlock(d) ==
  /\ alive /\ rd[d].pc = "read"
  /\ \/ /\ rd[d].at < size
        /\ rd' = [rd EXCEPT ![d].at = @ + 1, ![d].got = @ \cup ({rd[d].at + 1} \cap good)]
     \/ rd[d].at >= size /\ rd' = [rd EXCEPT ![d].pc = "202"]
  /\ UNCHANGED <<exists, size, good, alive, wr, torn, stored>>

storeReadHandler(d) == Request(d) \/ Open(d) \/ ReadBlock(d)

-----------------------------------------------------------------------------
\* The process ends and is started again; the requests are lost.
Crash ==
  /\ alive /\ alive' = FALSE
  /\ torn' = (torn \/ \E u \in Uploads : Writing(u))
  /\ wr' = [u \in Uploads |-> IF wr[u].pc \in {"open", "write"} THEN [wr[u] EXCEPT !.pc = "gone"] ELSE wr[u]]
  /\ rd' = [d \in Downloads |-> IF Reading(d) THEN [rd[d] EXCEPT !.pc = "gone"] ELSE rd[d]]
  /\ UNCHANGED <<exists, size, good, stored>>

Restart ==
  /\ ~alive /\ alive' = TRUE
  /\ UNCHANGED <<exists, size, good, wr, rd, torn, stored>>

StoreNext ==
  \/ \E u \in Uploads : storeWriteHandler(u)
  \/ \E d \in Downloads : storeReadHandler(d)
  \/ Crash \/ Restart

StoreSpec == Init /\ [][StoreNext]_storeVars

-----------------------------------------------------------------------------
(* A download answered with success is the whole content, unless an upload *)
(* of it was at work meanwhile or one had failed before; overlapping       *)
(* uploads, each truncating what the other wrote, still end in the whole   *)
(* content.  Once an upload succeeded, downloads find the file.            *)
DownloadsAreWhole ==
  \A d \in Downloads :
    /\ rd[d].pc = "202" => rd[d].got = 1..Size \/ rd[d].disturbed \/ torn
    /\ rd[d].pc = "error" => ~rd[d].late
=============================================================================
