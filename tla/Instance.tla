------------------------------ MODULE Instance ------------------------------
(***************************************************************************)
(* The start of the program (src/main.rs) and the lock that keeps it to    *)
(* one instance (src/single_instance.rs): a lock of the kernel on a file,  *)
(* which also holds the process id of its owner, for the operator.  A      *)
(* process is started once and may be killed at any time.                  *)
(***************************************************************************)
EXTENDS Integers

CONSTANTS
  Procs,    \* processes, named by their pids
  OldPid,   \* what an earlier boot may have left in the file
  Nobody    \* no process; also an empty file, which parses as pid 0

ASSUME InstanceConfig == Nobody \notin Procs \cup {OldPid}

VARIABLES
  inMain,  \* where each process is in main
  owner,   \* who holds the kernel's lock
  file,    \* the pid in the lock file
  told     \* per refused process: who held the lock, the same if its pid was in
           \* the file and it still was the owner at the read, and the pid read

instVars == <<inMain, owner, file, told>>

Over == {"exited", "killed"}
Running(p) == inMain[p] \notin Over \cup {"off"}
Untold == [by |-> Nobody, own |-> Nobody, pid |-> Nobody]

InstInit ==
  /\ inMain = [p \in Procs |-> "off"]
  /\ owner = Nobody
  /\ file \in {Nobody, OldPid}
  /\ told = [p \in Procs |-> Untold]

\* The owner has been through write_pid, and the file has its pid.
Named == file = owner /\ inMain[owner] \in {"named", "starting", "serving"}

Moves(p, place) == inMain' = [inMain EXCEPT ![p] = place]
Released(p) == owner' = IF owner = p THEN Nobody ELSE owner

\* Mutant: the file is emptied before the lock is asked for.
OpenTruncates(p) ==
  /\ inMain[p] = "off"
  /\ Moves(p, "opened") /\ file' = Nobody
  /\ UNCHANGED <<owner, told>>

\* main with --validate takes no lock: it loads the configuration and is gone.
ValidateOnly(p) ==
  /\ inMain[p] = "off" /\ Moves(p, "exited")
  /\ UNCHANGED <<owner, file, told>>

\* acquire_at opens the file without truncating it; when it cannot, main goes
\* on without the lock.
Open(p) ==
  /\ inMain[p] = "off"
  /\ Moves(p, "opened") \/ Moves(p, "unlocked")
  /\ UNCHANGED <<owner, file, told>>

\* F_SETLK: granted, held by another, or failed in some other way.
SetLock(p) ==
  /\ inMain[p] = "opened"
  /\ \/ owner = Nobody /\ owner' = p /\ Moves(p, "locked") /\ UNCHANGED told
     \/ /\ owner # Nobody /\ Moves(p, "refused")
        /\ told' = [told EXCEPT ![p].by = owner,
                                ![p].own = IF Named THEN owner ELSE Nobody]
        /\ UNCHANGED owner
     \/ Moves(p, "unlocked") /\ UNCHANGED <<owner, told>>
  /\ UNCHANGED file

\* A refused process reads the pid, says it and exits.
ReadPid(p) ==
  /\ inMain[p] = "refused" /\ Moves(p, "exited")
  /\ told' = [told EXCEPT ![p].pid = file, ![p].own = IF @ = owner THEN @ ELSE Nobody]
  /\ UNCHANGED <<owner, file>>

\* The owner empties the file, then writes its pid; neither is checked.
Truncate(p) ==
  /\ inMain[p] = "locked" /\ Moves(p, "cleared")
  /\ file' \in {Nobody, file}
  /\ UNCHANGED <<owner, told>>

WritePid(p) ==
  /\ inMain[p] = "cleared"
  /\ \/ file' = p /\ Moves(p, "named")
     \/ file' = file /\ Moves(p, "starting")
  /\ UNCHANGED <<owner, told>>

\* Config::load and the rest of main up to server.run; a configuration that
\* cannot be loaded ends the process.
LoadConfig(p) ==
  /\ inMain[p] \in {"named", "starting", "unlocked"}
  /\ \/ /\ Moves(p, IF inMain[p] = "unlocked" THEN "servingAlone" ELSE "serving")
        /\ UNCHANGED owner
     \/ Moves(p, "exited") /\ Released(p)
  /\ UNCHANGED <<file, told>>

\* The server has drained, or the process is killed: the kernel lets go of the
\* lock with its last descriptor.
Ends(p) ==
  /\ inMain[p] \in {"serving", "servingAlone"} /\ Moves(p, "exited")
  /\ Released(p) /\ UNCHANGED <<file, told>>

Kill(p) ==
  /\ Running(p) /\ Moves(p, "killed")
  /\ Released(p) /\ UNCHANGED <<file, told>>

StartStep(p) == SetLock(p) \/ ReadPid(p) \/ Truncate(p) \/ WritePid(p) \/ LoadConfig(p)

InstNext ==
  \E p \in Procs : ValidateOnly(p) \/ Open(p) \/ StartStep(p) \/ Ends(p) \/ Kill(p)

InstSpec == InstInit /\ [][InstNext]_instVars

-----------------------------------------------------------------------------
(* Properties *)

\* Types, and the lock is never left behind: whoever holds it is running.
InstTypeOK ==
  /\ owner \in Procs \cup {Nobody}
  /\ file \in Procs \cup {Nobody, OldPid}
  /\ owner # Nobody => Running(owner)

\* Two processes serve at a time only if one of them could not have the lock
\* and went on without it, which main allows with a warning.
OneServes ==
  \A p, q \in Procs : inMain[p] = "serving" /\ inMain[q] = "serving" => p = q

\* Whoever is refused is refused by a process that was running, and the pid it
\* prints is that process's, once the owner has written it and as long as it
\* still is the owner when the file is read.
RefusedByTheOwner ==
  \A p \in Procs :
    /\ inMain[p] = "refused" => told[p].by # Nobody
    /\ inMain[p] = "exited" /\ told[p].own # Nobody => told[p].pid = told[p].by

\* One process at a time serves with the lock, and whoever is refused is told
\* by whom.
SingleInstance == OneServes /\ RefusedByTheOwner
=============================================================================
