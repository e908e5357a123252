------------------------------ MODULE Reporter ------------------------------
(***************************************************************************)
(* testreporter.Reporter: test goroutines send messages on a buffered       *)
(* channel, one goroutine writes them out, and Close waits until it has.    *)
(* Messages are told apart only by whether they report a relayer command.   *)
(***************************************************************************)
EXTENDS Naturals

CONSTANT Cap          \* capacity of the channel (256 in NewReporter)

VARIABLES
  queued,    \* messages in the channel
  reported,  \* commands whose RelayerExec message has been sent
  closed,    \* close(r.in)
  writer     \* "writing", "done" (writerDone has the result), "panicked"

vars == <<queued, reported, closed, writer>>

NewReporter == \* BeginSuite
  queued = 1 /\ reported = 0 /\ closed = FALSE /\ writer = "writing"

\* r.in <- m blocks while the channel is full.
Push == ~closed /\ queued < Cap /\ queued' = queued + 1
Send == Push /\ UNCHANGED <<reported, closed, writer>>
SendExec == Push /\ reported' = reported + 1 /\ UNCHANGED <<closed, writer>>

\* One iteration of write.
Encode ==
  /\ writer = "writing" /\ queued > 0 /\ queued' = queued - 1
  /\ UNCHANGED <<reported, closed, writer>>

\* "reporter failed to encode message; tests cannot continue"
EncodeFails ==
  /\ writer = "writing" /\ queued > 0 /\ writer' = "panicked"
  /\ UNCHANGED <<queued, reported, closed>>

\* The range ends: the channel is closed and empty.
WriterDone ==
  /\ writer = "writing" /\ closed /\ queued = 0 /\ writer' = "done"
  /\ UNCHANGED <<queued, reported, closed>>

CloseChannel ==
  /\ closed' = TRUE /\ UNCHANGED <<queued, reported, writer>>

write == Encode \/ EncodeFails \/ WriterDone
=============================================================================
