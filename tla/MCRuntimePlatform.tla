---------------------------- MODULE MCRuntimePlatform ----------------------------
(***************************************************************************)
(* The components of the control plane's runtime on small instances.       *)
(***************************************************************************)
EXTENDS RuntimePlatform, TLC

CONSTANTS r1, r2, process,
          fetch, parse, embed, rank, index, plan, east, west, north, api, files,
          apiKey,
          first, again, later, room, runA, runB, base, tip

(* Both runs belong to one process, which offers one lease id.             *)
LeaseIdOfRuns == [r \in Runs |-> process]

AllProfiles == {[checkpointing |-> TRUE,  idempotent |-> FALSE],
                [checkpointing |-> FALSE, idempotent |-> TRUE],
                [checkpointing |-> FALSE, idempotent |-> FALSE]}

(* Each limit is met alone: index waits for its endpoint, rank for its     *)
(* provider, plan for any permit.  Two providers share an endpoint: fetch  *)
(* gives back what index waits for and what rank waits for.                *)
Providers == [r \in Requests |-> CASE r = index -> west
                                    [] r = plan  -> north
                                    [] OTHER     -> east]
Endpoints == [r \in Requests |-> CASE r \in {fetch, index} -> api
                                    [] r = plan            -> files
                                    [] OTHER               -> NoEndpoint]

(* parse is started by fetch, the others by the run.  The drain has three  *)
(* activities; the other requests would multiply its states.               *)
DrainedRequests == {fetch, parse, embed}
Parents == [a \in Requests |-> IF a = parse THEN fetch ELSE NoParent]
Secrets == [a \in Requests |-> IF a = fetch THEN apiKey ELSE NoReceipt]

(* One id for two runs, and two processes that allocate for the first.     *)
Described(run, revision) == [workspace |-> room, run |-> run, revision |-> revision]
TwoRuns      == {Described(runA, base), Described(runB, tip)}
ItemsOf      == [a \in Allocators |-> IF a = later THEN Described(runB, tip)
                                                  ELSE Described(runA, base)]
=================================================================================
