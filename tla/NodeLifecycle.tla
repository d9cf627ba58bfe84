---------------------------- MODULE NodeLifecycle ----------------------------
(***************************************************************************)
(* The life of cache nodes as the core keeps it, without clocks, loads,    *)
(* reports or messages.                                                    *)
(*                                                                         *)
(* A node joins COLD.  Any evaluation pass may move any nodes at once, but *)
(* only along the edges below; only a heartbeat takes a node out of DEAD,  *)
(* one node at a time, and it lands in COLD as long as there is a window   *)
(* to fetch.  With nothing to fetch it may be ACTIVE at once, which        *)
(* docs/README.md does not say (Registry!ResumesCold).  The core may       *)
(* forget everything at any time, but only all of it at once: a node is    *)
(* never forgotten alone, nor the window.                                  *)
(***************************************************************************)
CONSTANT NodeIds

VARIABLES state,        \* "ABSENT" or a CacheNodeState, per node
          windowEmpty   \* nothing is required of any node

lifecycleVars == <<state, windowEmpty>>

LifecycleInit ==
    /\ state = [n \in NodeIds |-> "ABSENT"]
    /\ windowEmpty = TRUE

Edges ==
    {<<"COLD", "ACTIVE">>, <<"COLD", "DEAD">>,
     <<"ACTIVE", "COLD">>, <<"ACTIVE", "DRAINING">>, <<"ACTIVE", "DEAD">>,
     <<"DRAINING", "ACTIVE">>, <<"DRAINING", "DEAD">>}

MayMove(from, to) == from = to \/ <<from, to>> \in Edges

FillWindow ==
    /\ windowEmpty' = FALSE
    /\ UNCHANGED state

Join(n) ==
    /\ state[n] = "ABSENT"
    /\ state' = [state EXCEPT ![n] = "COLD"]
    /\ UNCHANGED windowEmpty

\* One evaluation pass over the nodes in N.
EvaluateOnly(N) ==
    /\ state' \in [NodeIds -> {"ABSENT", "COLD", "ACTIVE", "DRAINING", "DEAD"}]
    /\ \A n \in N : MayMove(state[n], state'[n])

Evaluate ==
    /\ EvaluateOnly(NodeIds)
    /\ UNCHANGED windowEmpty

\* post_heartbeat evaluates at once the node that its heartbeat made COLD.
Resume(n) ==
    /\ state[n] = "DEAD"
    /\ EvaluateOnly(NodeIds \ {n})
    /\ \/ state'[n] = "COLD"
       \/ windowEmpty /\ state'[n] = "ACTIVE"
    /\ UNCHANGED windowEmpty

\* The core starts again knowing nothing.
Forget ==
    /\ state' = [n \in NodeIds |-> "ABSENT"]
    /\ windowEmpty' = TRUE

LifecycleNext ==
    \/ FillWindow
    \/ Forget
    \/ Evaluate
    \/ \E n \in NodeIds : Join(n) \/ Resume(n)

LifecycleSpec == LifecycleInit /\ [][LifecycleNext]_lifecycleVars
==============================================================================
