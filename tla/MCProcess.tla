----------------------------- MODULE MCProcess ------------------------------
(***************************************************************************)
(* Instances for TLC, in one state graph, of the modules about a single    *)
(* process: the file system's daemon that may be killed (HelloFS), the     *)
(* shell (ArgShell), and a thread's history, priorities and critical       *)
(* sections (Interact, Lending, Critical).  They share no state, so a      *)
(* behaviour is one of the module it begins with, and the others rest.     *)
(***************************************************************************)
EXTENDS HelloFS, ArgShell, Interact, Lending, Critical

VARIABLE instance

MCBlank == {"a"}
MCBlankRequests == {<<"a", "a", "a">>, <<"a", "a", "a", "a", "a">>}

MCLines == {<<>>, <<"<">>, <<">", "|">>, <<"|">>, <<"|", "|">>}

MCNaps == {1, 15}
MCPris == {1, 2, 4, 5, 6}
MCTimeshare == {4, 5, 6}

allVars == <<vars, shellVars, interactVars, lendingVars, criticalVars, instance>>

MCInit ==
    /\ instance \in {"killed", "shell", "interact", "lending", "critical"}
    /\ Init /\ ShellInit /\ InteractInit /\ LendingInit /\ CriticalInit
    /\ instance # "lending" => pri.priority = Min(Timeshare)

MCNext ==
    /\ \/ /\ instance = "killed" /\ (Keep \/ Kill)
          /\ UNCHANGED <<shellVars, interactVars, lendingVars, criticalVars>>
       \/ /\ instance = "shell" /\ ShellNext
          /\ UNCHANGED <<vars, interactVars, lendingVars, criticalVars>>
       \/ /\ instance = "interact" /\ InteractNext
          /\ UNCHANGED <<vars, shellVars, lendingVars, criticalVars>>
       \/ /\ instance = "lending" /\ LendingNext
          /\ UNCHANGED <<vars, shellVars, interactVars, criticalVars>>
       \/ /\ instance = "critical" /\ CriticalNext
          /\ UNCHANGED <<vars, shellVars, interactVars, lendingVars>>
    /\ UNCHANGED instance

MCSpec == MCInit /\ [][MCNext]_allVars /\ (instance = "shell" => ShellFairness)
=============================================================================
