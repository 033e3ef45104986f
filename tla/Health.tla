------------------------------- MODULE Health -------------------------------
(***************************************************************************)
(* What the node says about itself: the bookkeeping of the indexing loop   *)
(* (IndexerHealth and run in crates/zalkanes-indexer/src/sync.rs), the     *)
(* readiness endpoint (crates/zalkanes-rpc/src/lib.rs) and the process     *)
(* around them (node_serve in crates/zalkanes-cli/src/main.rs).  What a    *)
(* tick does to the store is in Sync; here a block is a height, and time   *)
(* passes between any two steps.                                           *)
(***************************************************************************)
EXTENDS Integers

CONSTANTS
    StaleAfter,    \* SyncConfig::stale_after
    MaxNow,        \* bound: the clock
    MaxTip,        \* bound: heights
    MaxReorged,    \* bound: blocks rolled back
    MaxRestarts    \* bound: how often the process is started again

ASSUME HealthConstants == {StaleAfter, MaxNow, MaxTip, MaxReorged, MaxRestarts} \subseteq Nat

VARIABLES
    now,       \* the clock
    upstream,  \* height of the best chain
    indexed,   \* indexed height of the store; 0 when there is none
    worker,    \* the loop: where it is, its tip, and the height its tick began at
    status,    \* IndexerStatus
    really,    \* since when the loop is known to have been at the tip, or to have moved
    events     \* the network's activation, blocks reorganised, restarts

healthVars == <<now, upstream, indexed, worker, status, really, events>>

Never == -1
Ago(t) == now - t

NewStatus == [started_at |-> now, last_progress |-> Never, indexed_height |-> 0,
              tip_height |-> Never, dead |-> FALSE]

HealthInit ==
    /\ now = 0
    /\ upstream \in 1..MaxTip
    /\ indexed = 0
    /\ worker = [pc |-> "down", tip |-> 0, before |-> 0]
    /\ status = NewStatus
    /\ really = [moved |-> 0, at_tip |-> Never]
    /\ events \in [activated : BOOLEAN, reorged : {0}, restarts : {0}]

Working(pc) == worker.pc = pc
Move(pc) == worker' = [worker EXCEPT !.pc = pc]

(***************************************************************************)
(* IndexerHealth.                                                          *)
(***************************************************************************)
record_tick_ok(after, tip, advanced) ==
    status' = [status EXCEPT !.last_progress = IF advanced THEN now ELSE @,
                             !.indexed_height = after, !.tip_height = tip]

\* A failed tick that moved the store counts as progress.
record_failure_progress(after) ==
    status' = [status EXCEPT !.indexed_height = after,
                             !.last_progress = IF after # worker.before THEN now ELSE @]

record_failure(after) ==
    status' = [status EXCEPT !.indexed_height = after]

mark_dead == status' = [status EXCEPT !.dead = TRUE]

assess ==
    CASE status.dead -> "dead"
      [] ~status.dead /\ status.last_progress # Never /\ Ago(status.last_progress) <= StaleAfter ->
           IF status.tip_height # Never /\ status.indexed_height > 0
              /\ status.indexed_height >= status.tip_height
             THEN "caught_up" ELSE "syncing"
      [] ~status.dead /\ status.last_progress = Never /\ Ago(status.started_at) <= StaleAfter -> "starting"
      [] OTHER -> "stalled"

\* The endpoint listens once the node has reached its chain source.
readiness == IF Working("down") THEN "refused"
             ELSE IF assess \in {"dead", "stalled"} THEN "unhealthy" ELSE assess

(***************************************************************************)
(* The process: it asks for the tip until it gets it, and only then starts *)
(* the loop and the endpoint.                                              *)
(***************************************************************************)
node_serve ==
    /\ Working("down")
    /\ Move("idle")
    /\ UNCHANGED <<now, upstream, indexed, status, really, events>>

tick_begin ==
    /\ Working("idle")
    /\ worker' = [pc |-> "reorg", tip |-> upstream, before |-> indexed]
    /\ UNCHANGED <<now, upstream, indexed, status, really, events>>

\* handle_reorg: a block at a time, until the hashes agree.
tick_rollback ==
    /\ Working("reorg")
    /\ indexed > 0
    /\ events.reorged < MaxReorged
    /\ indexed' = indexed - 1
    /\ events' = [events EXCEPT !.reorged = @ + 1]
    /\ UNCHANGED <<now, upstream, worker, status, really>>

tick_agrees ==
    /\ Working("reorg")
    /\ Move("index")
    /\ UNCHANGED <<now, upstream, indexed, status, really, events>>

\* Without an activation height process_parsed_block commits nothing, and the
\* loop fetches the same block over and over.
tick_block ==
    /\ Working("index")
    /\ indexed < worker.tip
    /\ events.activated
    /\ indexed' = indexed + 1
    /\ really' = [really EXCEPT !.moved = now]
    /\ UNCHANGED <<now, upstream, worker, status, events>>

tick_done ==
    /\ Working("index")
    /\ indexed >= worker.tip
    /\ record_tick_ok(indexed, worker.tip, indexed # worker.before \/ indexed >= worker.tip)
    /\ really' = [moved |-> now, at_tip |-> now]
    /\ Move("idle")
    /\ UNCHANGED <<now, upstream, indexed, events>>

\* A request fails, or a block does not parse.
tick_transient ==
    /\ worker.pc \in {"idle", "reorg", "index"}
    /\ record_failure(indexed)
    /\ Move("idle")
    /\ UNCHANGED <<now, upstream, indexed, really, events>>

\* A store error.
tick_fatal ==
    /\ worker.pc \in {"reorg", "index"}
    /\ mark_dead
    /\ Move("dead")
    /\ UNCHANGED <<now, upstream, indexed, really, events>>

\* The process exits, or is killed, and the supervisor starts it again.
restart ==
    /\ events.restarts < MaxRestarts
    /\ events' = [events EXCEPT !.restarts = @ + 1]
    /\ worker' = [pc |-> "down", tip |-> 0, before |-> 0]
    /\ status' = NewStatus
    /\ really' = [moved |-> now, at_tip |-> Never]
    /\ UNCHANGED <<now, upstream, indexed>>

time_passes ==
    /\ now < MaxNow
    /\ now' = now + 1
    /\ UNCHANGED <<upstream, indexed, worker, status, really, events>>

upstream_moves ==
    /\ \E h \in 1..MaxTip : h # upstream /\ upstream' = h
    /\ UNCHANGED <<now, indexed, worker, status, really, events>>

HealthNext ==
    \/ node_serve \/ tick_begin \/ tick_rollback \/ tick_agrees \/ tick_block \/ tick_done
    \/ tick_transient \/ tick_fatal \/ restart \/ time_passes \/ upstream_moves

HealthSpec == HealthInit /\ [][HealthNext]_healthVars

(***************************************************************************)
(* Properties.                                                             *)
(***************************************************************************)
\* ``A dead or stalled indexer is never healthy'': the endpoint says unhealthy
\* when the loop is dead, and when for longer than stale_after the loop has
\* neither indexed a block nor found itself at the tip, whatever kept it from
\* doing so - failing requests, a tick that never ends, a network without an
\* activation height.  And it says caught up only if the loop was at the tip
\* within stale_after (assess, sync.rs:160; readiness, lib.rs:457).
ReadyIsRecent ==
    /\ Working("dead") => readiness = "unhealthy"
    /\ ~Working("down") /\ Ago(really.moved) > StaleAfter => readiness = "unhealthy"
    /\ readiness = "caught_up" => really.at_tip # Never /\ Ago(really.at_tip) <= StaleAfter
=============================================================================
