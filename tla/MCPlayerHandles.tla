--------------------------- MODULE MCPlayerHandles ---------------------------
(***************************************************************************)
(* Three parts of a server that share no state, for TLC: how sessions find *)
(* a match and end; the player handles of a match, with one connection     *)
(* more than there are handles and a cooldown no longer than the delays    *)
(* allowed; and what a client is told of energy and batteries.  An initial *)
(* state says which of them moves.                                         *)
(***************************************************************************)
EXTENDS PlayerHandles, BatterySync, MatchRegistry

VARIABLE which   \* the part that moves

HandlesStep ==
  which = "handles" /\ Next /\ UNCHANGED <<which, syncVars, registryVars>>

SyncStep == which = "sync" /\ SyncNext /\ UNCHANGED <<which, vars, registryVars>>

RegistryStep ==
  which = "registry" /\ RegistryNext /\ UNCHANGED <<which, vars, syncVars>>

\* All sessions and matches may be over, or no task MaxLoops allows be left.
AllOver ==
  /\ which = "registry" /\ \A n \in Loops : loop[n] \in {Unmade, Finished}
  /\ UNCHANGED <<which, vars, syncVars, registryVars>>

ToldInit ==
  /\ which \in {"handles", "sync", "registry"}
  /\ Init /\ SyncInit /\ RegistryInit
  /\ which # "sync" => charge = 0 /\ around = {}

ToldNext == HandlesStep \/ SyncStep \/ RegistryStep \/ AllOver

\* The fairness of each part, as long as it is the one that moves.
ToldFairness ==
  /\ WF_vars(which = "handles" /\ Tick)
  /\ \A c \in Players : /\ WF_vars(which = "handles" /\ ReceiveRoster(c))
                        /\ WF_vars(which = "handles" /\ ReceiveSnapshot(c))
  /\ SF_syncVars(which = "sync" /\ TellEnergy)
  /\ SF_syncVars(which = "sync" /\ TellBatteries)
  /\ WF_syncVars(which = "sync" /\ Learn)
  /\ \A n \in Loops : WF_registryVars(which = "registry" /\ HandleEvent(n))
  /\ \A s \in Sessions :
       /\ WF_registryVars(which = "registry" /\ Hangup(s))
       /\ WF_registryVars(which = "registry" /\ Speak(s))
       /\ WF_registryVars(which = "registry" /\ (Write(s) \/ CloseWriter(s)))

ToldSpec ==
  ToldInit /\ [][ToldNext]_<<which, vars, syncVars, registryVars>> /\ ToldFairness

\* The types of the variables of the three parts.
ToldTypes == TypeOK /\ SyncTypeOK /\ RegistryTypeOK
=============================================================================
