-------------------------------- MODULE Pool --------------------------------
(***************************************************************************)
(* The servers of a TCP or UDP service, tcp/service.rs and udp/service.rs: *)
(* callers pick a server while others pick and while servers are marked.   *)
(* The health flags are behind a read-write lock that lets no new reader   *)
(* in once a writer waits; the round-robin counter is bumped by every      *)
(* attempt of every caller.                                                *)
(***************************************************************************)
EXTENDS Naturals

CONSTANTS
  PoolSize,      \* number of servers
  Callers,       \* concurrent calls of next_server
  HashCallers,   \* concurrent calls of get_server_by_hash
  HashIndex,     \* hash % servers.len() of the latter
  Setters        \* concurrent calls of mark_healthy and mark_unhealthy

ASSUME PoolConfig ==
  /\ PoolSize \in Nat \ {0} /\ HashIndex \in 0 .. PoolSize - 1
  /\ Callers \cap HashCallers = {}

VARIABLES
  counter,   \* rr_counter, modulo the number of servers
  alive,        \* healthy
  guards,    \* how many read guards each caller holds
  marking,   \* where each marker is: idle, waiting for the lock
  call       \* each caller: where it is, its attempts, who else bumped since

poolVars == <<counter, alive, guards, marking, call>>

PoolIndex == 0 .. PoolSize - 1

AllCallers == Callers \cup HashCallers

NoPick == [at |-> "idle", tries |-> 0, crossed |-> FALSE, got |-> 0, served |-> TRUE]

PoolInit ==
  /\ counter = 0 /\ alive = [i \in PoolIndex |-> TRUE]
  /\ guards = [c \in AllCallers |-> 0]
  /\ marking = [m \in Setters |-> FALSE]
  /\ call = [c \in AllCallers |-> NoPick]

NoneUp == \A i \in PoolIndex : ~alive[i]

\* parking_lot: a waiting writer holds new readers back.
CanRead == \A m \in Setters : ~marking[m]

\* What a caller has when its call returned server i.  It is well served by
\* a server that is alive, or when none is, or when others moved the counter.
Returned(c, i) == [at |-> "idle", tries |-> 0, crossed |-> FALSE, got |-> i,
                   served |-> alive[i] \/ NoneUp \/ call[c].crossed]

Return(c, i) ==
  /\ call' = [call EXCEPT ![c] = Returned(c, i)]
  /\ guards' = [guards EXCEPT ![c] = 0]

\* One fetch_add of caller c; the call ends with server i or goes on.
Bump(c, ends, i) ==
  /\ counter' = (counter + 1) % PoolSize
  /\ call' = [d \in AllCallers |->
                 IF d # c /\ call[d].at = "loop" THEN [call[d] EXCEPT !.crossed = TRUE]
                 ELSE IF d # c THEN call[d]
                 ELSE IF ends THEN Returned(c, i)
                 ELSE [call[c] EXCEPT !.tries = @ + 1]]
  /\ guards' = IF ends THEN [guards EXCEPT ![c] = 0] ELSE guards

-----------------------------------------------------------------------------
\* Mutated forms of the operations below.

AttemptStopsEarly(c) ==
  /\ call[c].at = "loop"
  /\ Bump(c, alive[counter] \/ call[c].tries + 2 >= PoolSize, counter)
  /\ UNCHANGED <<alive, marking>>

AttemptUntilUp(c) ==
  /\ call[c].at = "loop"
  /\ counter' = (counter + 1) % PoolSize
  /\ IF alive[counter] THEN Return(c, counter) ELSE UNCHANGED <<call, guards>>
  /\ UNCHANGED <<alive, marking>>

-----------------------------------------------------------------------------
\* next_server: the guard, and the first server when none is healthy.
Enter(c) ==
  /\ call[c].at = "idle" /\ c \in Callers /\ CanRead
  /\ IF NoneUp THEN Return(c, 0)
     ELSE /\ guards' = [guards EXCEPT ![c] = 1]
          /\ call' = [call EXCEPT ![c] = [NoPick EXCEPT !.at = "loop"]]
  /\ UNCHANGED <<counter, alive, marking>>

\* get_server_by_hash: the hashed server when it is healthy; next_server is
\* called with the guard still held.
EnterHash(c) ==
  /\ call[c].at = "idle" /\ c \in HashCallers /\ CanRead
  /\ IF alive[HashIndex] THEN Return(c, HashIndex)
     ELSE /\ guards' = [guards EXCEPT ![c] = 1]
          /\ call' = [call EXCEPT ![c] = [NoPick EXCEPT !.at = "again"]]
  /\ UNCHANGED <<counter, alive, marking>>

EnterAgain(c) ==
  /\ call[c].at = "again" /\ CanRead
  /\ IF NoneUp THEN Return(c, 0)
     ELSE /\ guards' = [guards EXCEPT ![c] = 2]
          /\ call' = [call EXCEPT ![c] = [NoPick EXCEPT !.at = "loop"]]
  /\ UNCHANGED <<counter, alive, marking>>

\* One fetch_add of the loop; after as many as there are servers the first.
Attempt(c) ==
  /\ call[c].at = "loop"
  /\ Bump(c, alive[counter] \/ call[c].tries + 1 >= PoolSize,
          IF alive[counter] THEN counter ELSE 0)
  /\ UNCHANGED <<alive, marking>>

\* mark_healthy and mark_unhealthy: wait for the lock, then set the flag.
MarkWait(m) ==
  /\ ~marking[m] /\ CanRead
  /\ marking' = [marking EXCEPT ![m] = TRUE]
  /\ UNCHANGED <<counter, alive, guards, call>>

MarkServer(m) ==
  /\ marking[m]
  /\ \A c \in AllCallers : guards[c] = 0
  /\ \E i \in PoolIndex, up \in BOOLEAN : alive' = [alive EXCEPT ![i] = up]
  /\ marking' = [marking EXCEPT ![m] = FALSE]
  /\ UNCHANGED <<counter, guards, call>>

PoolNext ==
  \/ \E c \in AllCallers : \/ Enter(c) \/ EnterHash(c) \/ EnterAgain(c)
                           \/ Attempt(c)
  \/ \E m \in Setters : MarkWait(m) \/ MarkServer(m)

PoolSpec == PoolInit /\ [][PoolNext]_poolVars

\* A call under way goes on; the lock is given to the one that waits for it.
PoolFairSpec ==
  /\ PoolSpec
  /\ \A c \in AllCallers : WF_poolVars(Attempt(c))
  /\ \A m \in Setters : WF_poolVars(MarkServer(m))

-----------------------------------------------------------------------------

(***************************************************************************)
(* A caller gets a healthy server whenever there is one, unless another    *)
(* caller moved the shared counter between its attempts: only then can all *)
(* its attempts meet servers that are down and the first one be taken.     *)
(***************************************************************************)
PicksHealthy == \A c \in AllCallers : call[c].served

(***************************************************************************)
(* Every call of next_server returns and every mark is taken, however many *)
(* of them there are: the loop is bounded and gives its guard back.  This  *)
(* is so while no get_server_by_hash falls back to next_server: it reads   *)
(* the flags again with its guard held, which waits for a waiting mark     *)
(* that waits for the guard.                                               *)
(***************************************************************************)
PicksEnd ==
  [](\A c \in HashCallers : call[c].at # "again") =>
    /\ \A c \in Callers : call[c].at = "loop" ~> call[c].at = "idle"
    /\ \A m \in Setters : marking[m] ~> ~marking[m]
=============================================================================
