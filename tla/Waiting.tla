------------------------------ MODULE Waiting -------------------------------
(***************************************************************************)
(* The functions a test waits with: BlockPoller.DoPoll and the polls built  *)
(* on it (testutil/poll_for_state.go, chain/cosmos/poll.go), WaitForBlocks, *)
(* NodesInSync, WaitForInSync and WaitForCondition (testutil/wait.go).      *)
(*                                                                         *)
(* One call is under way while the chains it watches make blocks, queries   *)
(* fail and the context ends.  What is polled for is a height: that of the  *)
(* block with the packet or message for "event", that from which a balance, *)
(* a proposal's status or a condition is as wanted for "state".             *)
(***************************************************************************)
EXTENDS Integers

CONSTANTS
  Chains,      \* chains, or the nodes of one chain in a "sync"
  Head,        \* the chain polled, or compared with in a "sync"
  Delta,       \* WaitForBlocks' delta
  MaxHeight    \* bound: blocks a chain makes

ASSUME ChainsAssumption == Head \in Chains
ASSUME BoundsAssumption == Delta \in Nat /\ MaxHeight \in Nat

VARIABLES
  kind,      \* the call: "event", "state", "blocks", "sync" or "condition"
  height,    \* [Chains -> height of the chain]
  ctxDone,   \* the context has ended, or the timeout of WaitForCondition has passed
  result,    \* "none" until the call returns, then "ok" or "error"
  at,        \* the height that is waited for
  from, to,  \* startHeight and maxHeight of a poll
  cursor,    \* the height polled next
  polling,   \* the cursor has been reached, PollFunc or fn is called
  failed,    \* some call to a chain has failed
  starting, current, \* [Chains -> fields of height], or what NodesInSync has read
  done,      \* [Chains -> "run", "ok" or "error": the goroutines of an errgroup]
  base       \* [Chains -> height when the call, or this round of it, began]

group == <<starting, current, done, base>>
poll == <<cursor, polling>>
call == <<kind, at, from, to>>
waitVars == <<call, height, ctxDone, result, poll, failed, group>>

Heights == 0..MaxHeight
Zero == [c \in Chains |-> 0]
Run == [c \in Chains |-> "run"]

\* A chain may not have its first block yet.  DoPoll panics when maxHeight < startHeight.
WaitInit ==
  /\ kind \in {"event", "state", "blocks", "sync", "condition"}
  /\ height \in [Chains -> Heights] /\ base = height
  /\ at \in 1..MaxHeight /\ from \in Heights /\ to \in from..MaxHeight /\ cursor = from
  /\ (kind \in {"blocks", "sync"} => at = 1)
  /\ (kind \in {"blocks", "sync", "condition"} => from = 0 /\ to = 0)
  /\ ctxDone = FALSE /\ failed = FALSE /\ polling = FALSE /\ result = "none"
  /\ starting = Zero /\ current = Zero /\ done = Run

----------------------------------------------------------------------------
(* BlockPoller.DoPoll *)

Polls == kind \in {"event", "state"} /\ result = "none"

\* Mutant: polls heights the chain has not reached.
CurrentHeightEager ==
  /\ Polls /\ ~polling
  /\ \/ cursor <= to /\ ~ctxDone /\ polling' = TRUE /\ UNCHANGED <<result, failed>>
     \/ cursor <= to /\ result' = "error" /\ failed' = TRUE /\ UNCHANGED polling
     \/ cursor > to /\ result' = "error" /\ UNCHANGED <<polling, failed>>
  /\ UNCHANGED <<call, height, ctxDone, cursor, group>>

\* The loop's test, CurrentHeight and the comparison with it: while the cursor is
\* ahead of the chain nothing changes.
CurrentHeight ==
  /\ Polls /\ ~polling
  /\ \/ /\ cursor <= to /\ ~ctxDone /\ cursor <= height[Head] /\ polling' = TRUE
        /\ UNCHANGED <<result, failed>>
     \/ cursor <= to /\ result' = "error" /\ failed' = TRUE /\ UNCHANGED polling
     \/ cursor > to /\ result' = "error" /\ UNCHANGED <<polling, failed>>
  /\ UNCHANGED <<call, height, ctxDone, cursor, group>>

\* PollForAck, PollForTimeout and PollForMessage look into the block of the cursor.
EventAt == cursor = at

\* PollForProposalStatus and PollForBalance query the state the chain has now.
StateIs == height[Head] >= at

Found == IF kind = "event" THEN EventAt ELSE StateIs

PollFunc ==
  /\ Polls /\ polling /\ polling' = FALSE
  /\ \/ ~ctxDone /\ Found /\ result' = "ok" /\ UNCHANGED <<cursor, failed>>
     \/ ~ctxDone /\ ~Found /\ cursor' = cursor + 1 /\ UNCHANGED <<result, failed>>
     \/ cursor' = cursor + 1 /\ failed' = TRUE /\ UNCHANGED result
  /\ UNCHANGED <<call, height, ctxDone, group>>

----------------------------------------------------------------------------
(* WaitForBlocks: an errgroup with a goroutine for each chain *)

\* The group's context also ends with the first error.
Canceled == ctxDone \/ \E c \in Chains : done[c] = "error"

Passed(c) == IF starting[c] = 0 THEN 0 ELSE current[c] - starting[c]

\* Mutant: blocks are counted from the first block on.
updateFromFirst(c, h) ==
  current' = [current EXCEPT ![c] = h] /\ starting' = [starting EXCEPT ![c] = 1]

\* A height of 0 is read again.
update(c, h) ==
  /\ starting' = [starting EXCEPT ![c] = IF @ = 0 THEN h ELSE @]
  /\ current' = [current EXCEPT ![c] = h]

WaitForDelta(c) ==
  /\ kind = "blocks" /\ done[c] = "run"
  /\ \/ /\ Passed(c) >= Delta /\ done' = [done EXCEPT ![c] = "ok"]
        /\ UNCHANGED <<starting, current, failed>>
     \/ /\ Passed(c) < Delta /\ ~Canceled /\ height[c] # 0
        /\ update(c, height[c]) /\ UNCHANGED <<done, failed>>
     \/ /\ Passed(c) < Delta /\ done' = [done EXCEPT ![c] = "error"] /\ failed' = TRUE
        /\ UNCHANGED <<starting, current>>
  /\ UNCHANGED <<call, height, ctxDone, result, poll, base>>

Returned == \A c \in Chains : done[c] # "run"

WaitForBlocks ==
  /\ kind = "blocks" /\ result = "none" /\ Returned
  /\ result' = IF \A c \in Chains : done[c] = "ok" THEN "ok" ELSE "error"
  /\ UNCHANGED <<call, height, ctxDone, poll, failed, group>>

----------------------------------------------------------------------------
(* WaitForInSync: NodesInSync again and again *)

\* One of NodesInSync's goroutines reads a height.
ReadHeight(c) ==
  /\ kind = "sync" /\ result = "none" /\ done[c] = "run"
  /\ \/ /\ ~Canceled /\ current' = [current EXCEPT ![c] = height[c]]
        /\ done' = [done EXCEPT ![c] = "ok"] /\ UNCHANGED failed
     \/ done' = [done EXCEPT ![c] = "error"] /\ failed' = TRUE /\ UNCHANGED current
  /\ UNCHANGED <<call, height, ctxDone, result, poll, starting, base>>

NodesInSync == \A c \in Chains : done[c] = "ok" /\ current[c] >= current[Head]

\* Mutants: the chain's height is read in the first round only; the context is not looked at.
WaitForInSyncStale ==
  /\ kind = "sync" /\ result = "none" /\ Returned
  /\ \/ NodesInSync /\ result' = "ok" /\ UNCHANGED group
     \/ ~NodesInSync /\ ctxDone /\ result' = "error" /\ UNCHANGED group
     \/ /\ ~NodesInSync /\ ~ctxDone /\ base' = height
        /\ done' = [c \in Chains |-> IF c = Head /\ done[c] = "ok" THEN "ok" ELSE "run"]
        /\ UNCHANGED <<result, starting, current>>
  /\ UNCHANGED <<call, height, ctxDone, poll, failed>>

WaitForInSync ==
  /\ kind = "sync" /\ result = "none" /\ Returned
  /\ \/ NodesInSync /\ result' = "ok" /\ UNCHANGED group
     \/ ~NodesInSync /\ ctxDone /\ result' = "error" /\ UNCHANGED group
     \/ /\ ~NodesInSync /\ ~ctxDone /\ done' = Run /\ base' = height /\ current' = Zero
        /\ UNCHANGED <<result, starting>>
  /\ UNCHANGED <<call, height, ctxDone, poll, failed>>

----------------------------------------------------------------------------
(* WaitForCondition *)

WaitForCondition ==
  /\ kind = "condition" /\ result = "none" /\ ~polling
  /\ \/ ctxDone /\ result' = "error" /\ UNCHANGED polling
     \/ ~ctxDone /\ polling' = TRUE /\ UNCHANGED result
  /\ UNCHANGED <<call, height, ctxDone, cursor, failed, group>>

\* fn is not interrupted by the timeout.
Condition ==
  /\ kind = "condition" /\ result = "none" /\ polling /\ polling' = FALSE
  /\ \/ result' = (IF Found THEN "ok" ELSE result) /\ UNCHANGED failed
     \/ result' = "error" /\ failed' = TRUE
  /\ UNCHANGED <<call, height, ctxDone, cursor, group>>

----------------------------------------------------------------------------

NewBlock(c) ==
  /\ result = "none" /\ height[c] < MaxHeight /\ height' = [height EXCEPT ![c] = @ + 1]
  /\ UNCHANGED <<call, ctxDone, result, poll, failed, group>>

ContextEnds ==
  /\ result = "none" /\ ~ctxDone /\ ctxDone' = TRUE
  /\ UNCHANGED <<call, height, result, poll, failed, group>>

Over == result # "none" /\ UNCHANGED waitVars

Goroutine(c) == WaitForDelta(c) \/ ReadHeight(c)

Caller == CurrentHeight \/ PollFunc \/ WaitForBlocks \/ WaitForInSync \/ WaitForCondition \/ Condition

WaitNext ==
  \/ Caller \/ (\E c \in Chains : Goroutine(c) \/ NewBlock(c))
  \/ ContextEnds \/ Over

WaitSpec == WaitInit /\ [][WaitNext]_waitVars

\* The goroutines run.  Nothing makes a chain produce blocks or a context end.
WaitFairSpec == WaitSpec /\ WF_waitVars(Caller) /\ \A c \in Chains : WF_waitVars(Goroutine(c))

----------------------------------------------------------------------------
(* Properties *)

\* Type correctness.
WaitTypeOK ==
  /\ height \in [Chains -> Heights] /\ base \in [Chains -> Heights]
  /\ starting \in [Chains -> Heights] /\ current \in [Chains -> Heights]
  /\ done \in [Chains -> {"run", "ok", "error"}]
  /\ result \in {"none", "ok", "error"}
  /\ at \in 1..MaxHeight /\ from \in Heights /\ to \in Heights /\ cursor \in 0..(MaxHeight + 1)
  /\ ctxDone \in BOOLEAN /\ failed \in BOOLEAN /\ polling \in BOOLEAN

\* A poll whose queries all succeed does not miss what it looks for, however the
\* chain's blocks fall between its steps: the packet of any height in its range, the
\* state that is reached at maxHeight at the latest.  "It is safe to call this
\* function even if the chain has yet to produce blocks" (poll_for_state.go:62).
PollFinds ==
  (kind \in {"event", "state"} /\ result = "error" /\ ~failed)
    => IF kind = "event" THEN at \notin from..to ELSE at > to

\* WaitForBlocks returns without an error only when every chain has made Delta
\* blocks since it was called, also a chain that had none yet (wait.go:18).
BlocksPassed ==
  kind = "blocks" /\ result = "ok" => \A c \in Chains : height[c] >= base[c] + Delta

\* When WaitForInSync succeeds every node has the height the chain had when the
\* round began, although the heights were read at different times (wait.go:48).
InSync ==
  kind = "sync" /\ result = "ok" => \A c \in Chains : height[c] >= base[Head]

=============================================================================
