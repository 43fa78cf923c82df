------------------------------ MODULE MCServer ------------------------------
(***************************************************************************)
(* The life of the server process, for TLC: its start (Instance), its      *)
(* shutdown (ServerDrain) and its reloads (HotReload).  The last two meet  *)
(* only where the shutdown aborts the reload task, which HotReload has as  *)
(* Abort, so a behaviour runs one of the three.                            *)
(***************************************************************************)
EXTENDS ServerDrain, HotReload, Instance

VARIABLE part

mcVars == <<part, vars, reloadVars, instVars>>

MCInit ==
    /\ part \in {"drain", "reload", "start"} /\ Init /\ ReloadInit /\ InstInit
    /\ (part # "start" => file = Nobody)

DrainOn == part = "drain" /\ UNCHANGED <<part, reloadVars, instVars>>
ReloadOn == part = "reload" /\ UNCHANGED <<part, vars, instVars>>
StartOn == part = "start" /\ UNCHANGED <<part, vars, reloadVars>>

MCNext ==
    \/ DrainOn /\ Next
    \/ ReloadOn /\ ReloadNext
    \/ StartOn /\ InstNext

(* The fairness of the specifications, each for its own part. *)
MCSpec ==
    /\ MCInit /\ [][MCNext]_mcVars
    /\ WF_vars(part = "drain" /\ (CheckActive \/ Poll \/ Stop))
    /\ WF_vars(part = "drain" /\ Tick)
    /\ WF_reloadVars(part = "reload" /\ WatcherStep)
    /\ WF_reloadVars(part = "reload" /\ ServerStep)
    /\ WF_reloadVars(part = "reload" /\ ReloadTick)

(* What the operator asks for happens: a shutdown ends, and a file that the *)
(* watcher took becomes the configuration.                                  *)
ServerObeys == ShutdownEnds /\ TakenIsApplied
=============================================================================
