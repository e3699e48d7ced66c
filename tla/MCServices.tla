----------------------------- MODULE MCServices -----------------------------
(***************************************************************************)
(* The RTR client, the prober of the agents and the supervisor of a        *)
(* plugin, instantiated for model checking.  They share no state, so a     *)
(* behaviour is one of any of them.                                        *)
(***************************************************************************)
EXTENDS Rtr, Agents, Supervisor

CONSTANTS Services
VARIABLE on

MCTables == {{1}, {1, 2}}
MCServes == [t \in Task |-> Agent]

\* The table the RTR server starts with matters to the RTR client alone.
Init ==
  /\ RtrInit /\ AgentsInit /\ SupervisorInit /\ on \in Services
  /\ on = "rtr" \/ versions = <<<<{1}>>>>

Rpki(A) == on = "rtr" /\ A /\ UNCHANGED <<agentsVars, supervisorVars, on>>
Probing(A) == on = "agents" /\ A /\ UNCHANGED <<rtrVars, supervisorVars, on>>
Plugin(A) == on = "plugin" /\ A /\ UNCHANGED <<rtrVars, agentsVars, on>>

Next == Rpki(RtrNext) \/ Probing(AgentsNext) \/ Plugin(SupervisorNext)

vars == <<rtrVars, agentsVars, supervisorVars, on>>

\* RtrFair and SupervisorFair, each of its own behaviours.
Fair ==
  /\ WF_vars(Rpki(Dial)) /\ WF_vars(Rpki(Refresh))
  /\ WF_vars(Rpki(Receive)) /\ WF_vars(Rpki(Answer))
  /\ WF_vars(Plugin(LoopStep)) /\ WF_vars(Plugin(Due))

Spec == Init /\ [][Next]_vars /\ Fair

\* Whatever notifies, lost connections and error reports came before, the RTR
\* cache comes to equal the server's table once that stays as it is (session,
\* handle); whatever launches, health checks and calls failed, a supervised
\* plugin comes back, and the loop of a stopped one ends (loop, restart).
ServicesRecover ==
  /\ on = "rtr" => CatchesUp
  /\ on = "plugin" => ComesBack
=============================================================================
