-------------------------------- MODULE Worker --------------------------------
(***************************************************************************)
(* The life of the workers of one node (committee/worker.go,               *)
(* committee/committee.go, node/reconfig.go, controller/utils.go).  While  *)
(* the node leads a committee, a worker goroutine makes the committee's    *)
(* blocks.  A reconfiguration ends this worker and, where the node leads   *)
(* its new committee, creates another.  toStopCommittee closes the         *)
(* committee once, when it may stop.  Consensus and signing are those of   *)
(* Pbft and MultiSign; here they end some day, or are given up for exitCh. *)
(***************************************************************************)
EXTENDS Integers, FiniteSets

CONSTANTS
    MaxWorker,        \* bound: workers the node creates
    MaxReconfig,      \* bound: TBBlocks that call for a reconfiguration
    MayClose          \* whether toStopCommittee finds that the committee can stop

ASSUME WorkerAssumption ==
    /\ MaxWorker \in Nat \ {0} /\ MaxReconfig \in Nat
    /\ MayClose \in BOOLEAN

VARIABLES
    at,               \* Worker -> where its goroutine is
    running,          \* Worker -> running
    startCh,          \* Worker -> whether startCh holds its one element
    exitCh,           \* Worker -> the number of elements in exitCh
    timer,            \* Worker -> whether the timer is set
    worker,           \* com.worker
    to_reconfig,      \* com.to_reconfig
    calls,            \* TBBlocks that called for a reconfiguration
    reconfig,         \* where the node is in a reconfiguration
    closer,           \* where toStopCommittee is
    closing,          \* the worker it closes
    added             \* blocks handed to the shard

vars == <<at, running, startCh, exitCh, timer, worker, to_reconfig, calls, reconfig,
          closer, closing, added>>

Workers == 1 .. MaxWorker
Making  == {"pbft", "sign", "generated"}

\* The types; neither close nor NewBlockGenerated puts a second element into exitCh.
TypeOK ==
    /\ at \in [Workers -> {"none", "select", "init", "clear", "exited"} \cup Making]
    /\ running \in [Workers -> BOOLEAN] /\ timer \in [Workers -> BOOLEAN]
    /\ startCh \in [Workers -> BOOLEAN] /\ exitCh \in [Workers -> 0 .. 1]
    /\ worker \in Workers /\ closing \in Workers
    /\ to_reconfig \in BOOLEAN /\ calls \in 0 .. MaxReconfig
    /\ reconfig \in {"none", "follows", "asked", "starts"}
    /\ closer \in {"monitor", "close", "wait", "closed"}
    /\ added \subseteq [by : Workers, agreed : BOOLEAN, stopped : BOOLEAN]

\* The node leads its first committee; its worker waits for StartWorker.
Init ==
    /\ at = [w \in Workers |-> IF w = 1 THEN "select" ELSE "none"]
    /\ running = [w \in Workers |-> FALSE] /\ timer = [w \in Workers |-> FALSE]
    /\ startCh = [w \in Workers |-> FALSE] /\ exitCh = [w \in Workers |-> 0]
    /\ worker = 1 /\ closing = 1
    /\ to_reconfig = FALSE /\ calls = 0
    /\ reconfig = "starts"
    /\ closer = "monitor"
    /\ added = {}

Goto(w, place) == at' = [at EXCEPT ![w] = place]

rest == <<worker, to_reconfig, calls, reconfig, closer, closing>>

-----------------------------------------------------------------------------
(* newWorkLoop.                                                             *)

selectExit(w) ==
    /\ at[w] = "select" /\ exitCh[w] > 0
    /\ exitCh' = [exitCh EXCEPT ![w] = @ - 1]
    /\ Goto(w, "exited")
    /\ UNCHANGED <<running, startCh, timer, rest, added>>

selectStart(w) ==
    /\ at[w] = "select" /\ startCh[w]
    /\ startCh' = [startCh EXCEPT ![w] = FALSE]
    /\ timer' = [timer EXCEPT ![w] = TRUE]
    /\ UNCHANGED <<at, running, exitCh, rest, added>>

\* The timer takes at least minRecommitInterval = 3 seconds, so the loop looks at its
\* channels, and a close that has stopped the worker tells it to exit, before.
selectTimer(w) ==
    /\ at[w] = "select" /\ timer[w]
    /\ exitCh[w] = 0 /\ ~startCh[w] /\ ~(closer = "close" /\ closing = w)
    /\ timer' = [timer EXCEPT ![w] = FALSE]
    /\ IF running[w] THEN Goto(w, "pbft") ELSE UNCHANGED at
    /\ UNCHANGED <<running, startCh, exitCh, rest, added>>

\* Mutant: RunPbft does not put the element of exitCh back.
commit_ExitTaken(w, agreed) ==
    /\ at[w] = "pbft"
    /\ ~agreed => exitCh[w] > 0
    /\ exitCh' = IF agreed THEN exitCh ELSE [exitCh EXCEPT ![w] = @ - 1]
    /\ added' = added \cup {[by |-> w, agreed |-> agreed, stopped |-> ~running[w]]}
    /\ Goto(w, "sign")
    /\ UNCHANGED <<running, startCh, timer, rest>>

\* RunPbft returns, and commit goes on: the block is sent to the shard.  An element of
\* exitCh that it finds while it waits is put back.
commit(w, agreed) ==
    /\ at[w] = "pbft"
    /\ ~agreed => exitCh[w] > 0
    /\ added' = added \cup {[by |-> w, agreed |-> agreed, stopped |-> ~running[w]]}
    /\ Goto(w, "sign")
    /\ UNCHANGED <<running, startCh, exitCh, timer, rest>>

\* initMultiSign returns, with the signatures or because of exitCh.
broadcastTbInCommittee(w) ==
    /\ at[w] = "sign"
    /\ Goto(w, "generated")
    /\ UNCHANGED <<running, startCh, exitCh, timer, rest, added>>

\* Mutant: the worker that starts a reconfiguration is not told to exit.
NewBlockGenerated_NoExit(w) ==
    /\ at[w] = "generated"
    /\ IF to_reconfig
       THEN Goto(w, "init") /\ UNCHANGED <<exitCh, timer>>
       ELSE /\ timer' = [timer EXCEPT ![w] = TRUE]
            /\ Goto(w, "select")
            /\ UNCHANGED exitCh
    /\ UNCHANGED <<running, startCh, rest, added>>

\* If the committee is to reconfigure, NewBlockGenerated first has the worker exit
\* when it is back in its loop.  It waits for room in exitCh to do so.
NewBlockGenerated(w) ==
    /\ at[w] = "generated"
    /\ IF to_reconfig
       THEN /\ exitCh[worker] = 0
            /\ exitCh' = [exitCh EXCEPT ![worker] = @ + 1]
            /\ Goto(w, "init")
            /\ UNCHANGED timer
       ELSE /\ timer' = [timer EXCEPT ![w] = TRUE]
            /\ Goto(w, "select")
            /\ UNCHANGED exitCh
    /\ UNCHANGED <<running, startCh, rest, added>>

InitReconfig(w) ==
    /\ at[w] = "init"
    /\ reconfig' = "asked"
    /\ Goto(w, "clear")
    /\ UNCHANGED <<running, startCh, exitCh, timer, worker, to_reconfig, calls, closer, closing, added>>

\* Mutant: the worker is told to exit after the reconfiguration was asked for.
clearToReconfig_ExitLast(w) ==
    /\ at[w] = "clear"
    /\ to_reconfig' = FALSE
    /\ exitCh' = [exitCh EXCEPT ![worker] = @ + 1]
    /\ timer' = [timer EXCEPT ![w] = TRUE]
    /\ Goto(w, "select")
    /\ UNCHANGED <<running, startCh, worker, calls, reconfig, closer, closing, added>>

\* The end of NewBlockGenerated; the reconfiguration may be over by now.
clearToReconfig(w) ==
    /\ at[w] = "clear"
    /\ to_reconfig' = FALSE
    /\ timer' = [timer EXCEPT ![w] = TRUE]
    /\ Goto(w, "select")
    /\ UNCHANGED <<running, startCh, exitCh, worker, calls, reconfig, closer, closing, added>>

-----------------------------------------------------------------------------
(* The committee and the node.                                              *)

\* A confirmed TBBlock at a multiple of Height2Reconfig.
AddTBs ==
    /\ calls < MaxReconfig
    /\ calls' = calls + 1
    /\ to_reconfig' = TRUE
    /\ UNCHANGED <<at, running, startCh, exitCh, timer, worker, reconfig, closer, closing, added>>

\* The leader of the committee that the node follows asks for a reconfiguration.
HandleLeaderInitReconfig ==
    /\ reconfig = "follows"
    /\ reconfig' = "asked"
    /\ UNCHANGED <<at, running, startCh, exitCh, timer, worker, to_reconfig, calls, closer, closing, added>>

\* EndReconfig up to com.Start: whether the node leads is up to the VRF values.
EndReconfig(leads) ==
    /\ reconfig = "asked"
    /\ to_reconfig' = FALSE
    /\ IF leads
       THEN /\ worker < MaxWorker
            /\ worker' = worker + 1
            /\ Goto(worker', "select")
            /\ reconfig' = "starts"
       ELSE /\ reconfig' = "follows"
            /\ UNCHANGED <<at, worker>>
    /\ UNCHANGED <<running, startCh, exitCh, timer, calls, closer, closing, added>>

\* The contract's address has come, or the pool has been fetched.
StartWorker ==
    /\ reconfig = "starts"
    /\ reconfig' = "none"
    /\ running' = [running EXCEPT ![worker] = TRUE]
    /\ startCh' = [startCh EXCEPT ![worker] = TRUE]
    /\ UNCHANGED <<at, exitCh, timer, worker, to_reconfig, calls, closer, closing, added>>

-----------------------------------------------------------------------------
(* toStopCommittee closes com.worker.                                       *)

\* Mutant: the worker is told to exit before it is stopped.
close_ExitFirst ==
    /\ closer = "monitor" /\ MayClose
    /\ exitCh[worker] = 0
    /\ closing' = worker
    /\ exitCh' = [exitCh EXCEPT ![worker] = @ + 1]
    /\ closer' = "wait"
    /\ UNCHANGED <<at, running, startCh, timer, worker, to_reconfig, calls, reconfig, added>>

close ==
    /\ closer = "monitor" /\ MayClose
    /\ closing' = worker
    /\ running' = [running EXCEPT ![worker] = FALSE]
    /\ closer' = "close"
    /\ UNCHANGED <<at, startCh, exitCh, timer, worker, to_reconfig, calls, reconfig, added>>

closeExit ==
    /\ closer = "close"
    /\ exitCh[closing] = 0
    /\ exitCh' = [exitCh EXCEPT ![closing] = @ + 1]
    /\ closer' = "wait"
    /\ UNCHANGED <<at, running, startCh, timer, worker, to_reconfig, calls, reconfig, closing, added>>

\* Mutant: close does not wait for the worker's goroutine.
closeWait_NoWait ==
    /\ closer = "wait"
    /\ closer' = "closed"
    /\ UNCHANGED <<at, running, startCh, exitCh, timer, worker, to_reconfig, calls, reconfig, closing, added>>

closeWait ==
    /\ closer = "wait" /\ at[closing] = "exited"
    /\ closer' = "closed"
    /\ UNCHANGED <<at, running, startCh, exitCh, timer, worker, to_reconfig, calls, reconfig, closing, added>>

-----------------------------------------------------------------------------

Loop(w) ==
    \/ selectExit(w) \/ selectStart(w) \/ selectTimer(w)
    \/ \E agreed \in BOOLEAN : commit(w, agreed)
    \/ broadcastTbInCommittee(w)
    \/ NewBlockGenerated(w) \/ InitReconfig(w) \/ clearToReconfig(w)

Reconfigures == HandleLeaderInitReconfig \/ (\E leads \in BOOLEAN : EndReconfig(leads)) \/ StartWorker

Next ==
    \/ \E w \in Workers : Loop(w)
    \/ AddTBs \/ Reconfigures
    \/ close \/ closeExit \/ closeWait

Spec == Init /\ [][Next]_vars

\* Goroutines that can go on do; consensus and signing end; a reconfiguration ends.
FairSpec ==
    /\ Spec
    /\ \A w \in Workers : WF_vars(Loop(w))
    /\ WF_vars(Reconfigures)
    /\ WF_vars(closeExit) /\ WF_vars(closeWait)

-----------------------------------------------------------------------------
(* Properties.                                                              *)

\* At most one worker of the node is making a block, however a reconfiguration and
\* the new worker overlap with the old worker's way back to its loop: two would ask
\* the same shard for the same height.
OneProducer ==
    \A v, w \in Workers : at[v] \in Making /\ at[w] \in Making => v = w

\* A block that goes to the shard without the committee's consensus, because RunPbft
\* found exitCh, comes from a worker that was stopped before: only closing the
\* committee can cause it, never a reconfiguration.
AgreedUnlessClosed == \A b \in added : b.agreed \/ b.stopped

\* After a reconfiguration the node makes blocks again, follows another leader, or is
\* being closed: the element that ends the old worker never ends the new one, and the
\* new worker's start is never lost.
ProductionResumes ==
    reconfig = "asked" ~> (reconfig = "follows" \/ at[worker] \in Making \/ closer # "monitor")

\* Close returns only when the worker it closes is gone; a worker before it, of a
\* reconfiguration it may have overtaken, will find exitCh before it makes a block.
ClosedWorkersAreGone ==
    closer = "closed" =>
        \A w \in 1 .. closing :
            at[w] = "exited" \/ (w < closing /\ exitCh[w] > 0 /\ at[w] \notin Making)

\* Close returns, unless a reconfiguration is called for: what RunPbft and initMultiSign
\* take from exitCh they put back, so the worker gets back to its loop and finds it.
CloseEndsUnlessReconfig == closer # "monitor" ~> (closer = "closed" \/ to_reconfig)

\* close: "close terminates all background threads maintained by the worker".
CloseEnds == closer # "monitor" ~> closer = "closed"

\* toStopCommittee: "decide whether the committee can stop, and stop it if it can".
\* A closed committee has no worker left that may make blocks.
ClosedIsQuiet == closer = "closed" => \A w \in Workers : at[w] \in {"none", "exited"}
=============================================================================
