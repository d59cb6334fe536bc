---------------------------- MODULE AgentSandboxes ----------------------------
(***************************************************************************)
(* The sandboxes of one agent: handleDeploy, handleStop, cleanupOrphans    *)
(* (cmd/picoboxd/main.go) over Sandbox.Start, Wait and Stop                *)
(* (internal/isolation), with the kernel state they create and release --  *)
(* overlay mounts, cgroups and processes.                                  *)
(*                                                                         *)
(* Three kinds of goroutine call Sandbox.Stop: the deployment that rolls   *)
(* back, the one that waits for the process, and a stop request.  Mounts,  *)
(* cgroups and registry entries are named by the container id, which two   *)
(* sandboxes may share (a restart, a second deployment).                   *)
(***************************************************************************)
EXTENDS Naturals, FiniteSets

CONSTANTS
  Sandboxes,   \* one for each DeployRequest
  Ids,         \* container ids
  IdOf,        \* the id a sandbox is deployed under
  Stops,       \* the StopRequests
  MaxCrashes,  \* a bound: how many times the agent may crash
  None

ASSUME ConstantsAssumption ==
  /\ IsFiniteSet(Sandboxes)
  /\ IdOf \in [Sandboxes -> Ids]
  /\ MaxCrashes \in Nat
  /\ None \notin Sandboxes

(* The goroutines. *)
Deploy(x) == <<"deploy", x>>
Waiter(x) == <<"wait", x>>
Stopper(k) == <<"stop", k>>
Goroutines == ({"deploy", "wait"} \X Sandboxes) \union ({"stop"} \X Stops)

VARIABLES
  up,         \* the agent runs (and has cleaned up after its predecessor)
  registry,   \* sandboxRegistry: id -> sandbox, or None
  pc,         \* per goroutine: where it is
  target,     \* per stop request: the sandbox it loaded, or None
  proc,       \* per sandbox: its process
  member,     \* per sandbox: its process was put in the cgroup of its id
  mounts,     \* per id: overlays mounted on its merged directory
  cgroup,     \* per id: its cgroup exists
  left,       \* per id: mounts that a Stop could not take, or a crash left
              \* behind, and nobody has taken since (history)
  crashes

kernelVars == <<proc, member, mounts, cgroup>>
vars == <<up, registry, pc, target, proc, member, mounts, cgroup, left, crashes>>

Live(x) == proc[x] \in {"alive", "dying"}

Goto(g, l) == pc' = [pc EXCEPT ![g] = l]

(* The sandbox goroutine g is about. *)
SandboxOf(g) == IF g[1] = "stop" THEN target[g[2]] ELSE g[2]
IdFor(g) == IdOf[SandboxOf(g)]

Init ==
  /\ up = TRUE
  /\ registry = [i \in Ids |-> None]
  /\ pc = [g \in Goroutines |-> IF g[1] = "wait" THEN "none" ELSE "new"]
  /\ target = [k \in Stops |-> None]
  /\ proc = [x \in Sandboxes |-> "none"]
  /\ member = [x \in Sandboxes |-> FALSE]
  /\ mounts = [i \in Ids |-> 0]
  /\ cgroup = [i \in Ids |-> FALSE]
  /\ left = [i \in Ids |-> 0]
  /\ crashes = 0

-----------------------------------------------------------------------------
(* Sandbox.Stop, in any of the three goroutines.                           *)

(* Mutant: without force, Stop does not kill. *)
BugNoKill(g) ==
  /\ pc[g] = "kill"
  /\ Goto(g, "unmount")
  /\ UNCHANGED <<up, registry, target, kernelVars, left, crashes>>

(* SIGKILL; a process that has been waited for is left alone. *)
Kill(g) ==
  /\ pc[g] = "kill"
  /\ proc' = [proc EXCEPT ![SandboxOf(g)] = IF @ = "alive" THEN "dying" ELSE @]
  /\ Goto(g, "unmount")
  /\ UNCHANGED <<up, registry, target, member, mounts, cgroup, left, crashes>>

(* Mutant: an Unmount that fails is counted all the same. *)
BugUnmountsNothing(g) ==
  /\ pc[g] = "unmount"
  /\ mounts' = [mounts EXCEPT ![IdFor(g)] = @ - 1]
  /\ Goto(g, "rmcgroup")
  /\ UNCHANGED <<up, registry, target, proc, member, cgroup, left, crashes>>

(* The uppermost mount on the directory goes, whoever made it; or umount(2) *)
(* fails, as it does while a process just sent SIGKILL still uses it, and  *)
(* the error is discarded.  A waiter, or a rollback, does not try again.   *)
Unmount(g) ==
  /\ pc[g] = "unmount"
  /\ LET i == IdFor(g) IN
       \/ /\ mounts[i] > 0
          /\ mounts' = [mounts EXCEPT ![i] = @ - 1]
          /\ left' = [left EXCEPT ![i] = IF @ < mounts[i] THEN @ ELSE @ - 1]
       \/ /\ left' = [left EXCEPT ![i] = IF g[1] # "stop" /\ @ < mounts[i]
                                         THEN @ + 1 ELSE @]
          /\ UNCHANGED mounts
  /\ Goto(g, "rmcgroup")
  /\ UNCHANGED <<up, registry, target, proc, member, cgroup, crashes>>

(* Where Stop returns to: an error response, the end, a success response. *)
AfterStop(g) == IF g[1] = "deploy" THEN "failed" ELSE "done"

(* The kernel removes a cgroup unless a process in it is alive. *)
Occupied(i) == \E x \in Sandboxes : IdOf[x] = i /\ member[x] /\ Live(x)

RemoveCgroup(g) ==
  /\ pc[g] = "rmcgroup"
  /\ cgroup' = [cgroup EXCEPT ![IdFor(g)] = @ /\ Occupied(IdFor(g))]
  /\ Goto(g, AfterStop(g))
  /\ UNCHANGED <<up, registry, target, proc, member, mounts, left, crashes>>

StopStep(g) == Kill(g) \/ Unmount(g) \/ RemoveCgroup(g)

-----------------------------------------------------------------------------
(* handleDeploy: Sandbox.Start, then the registry, then the waiter.        *)

DeployRequest(x) ==
  /\ up /\ pc[Deploy(x)] = "new"
  /\ Goto(Deploy(x), "mount")
  /\ UNCHANGED <<up, registry, target, kernelVars, left, crashes>>

(* Mutant: an error of Start is answered without rolling back. *)
BugNoRollback(x) == Goto(Deploy(x), "failed")

(* An error of Start: roll back with Stop. *)
Fail(x) == Goto(Deploy(x), "kill")

(* Directories, the copy of the root file system, the mount. *)
MountOverlay(x) ==
  /\ pc[Deploy(x)] = "mount"
  /\ \/ /\ mounts' = [mounts EXCEPT ![IdOf[x]] = @ + 1]
        /\ Goto(Deploy(x), "spawn")
     \/ Fail(x) /\ UNCHANGED mounts
  /\ UNCHANGED <<up, registry, target, proc, member, cgroup, left, crashes>>

Spawn(x) ==
  /\ pc[Deploy(x)] = "spawn"
  /\ \/ /\ proc' = [proc EXCEPT ![x] = "alive"]
        /\ Goto(Deploy(x), "cgroup")
     \/ Fail(x) /\ UNCHANGED proc
  /\ UNCHANGED <<up, registry, target, member, mounts, cgroup, left, crashes>>

CreateCgroup(x) ==
  /\ pc[Deploy(x)] = "cgroup"
  /\ \/ /\ cgroup' = [cgroup EXCEPT ![IdOf[x]] = TRUE]
        /\ Goto(Deploy(x), "addprocess")
     \/ Fail(x) /\ UNCHANGED cgroup
  /\ UNCHANGED <<up, registry, target, proc, member, mounts, left, crashes>>

(* Mutant: an error of AddProcess is ignored. *)
BugAddProcessIgnored(x) ==
  /\ pc[Deploy(x)] = "addprocess"
  /\ Goto(Deploy(x), "limits")
  /\ \/ cgroup[IdOf[x]] /\ member' = [member EXCEPT ![x] = Live(x)]
     \/ UNCHANGED member
  /\ UNCHANGED <<up, registry, target, proc, mounts, cgroup, left, crashes>>

(* Writing the pid of a process that has exited moves nothing. *)
AddProcess(x) ==
  /\ pc[Deploy(x)] = "addprocess"
  /\ \/ /\ cgroup[IdOf[x]]
        /\ member' = [member EXCEPT ![x] = Live(x)]
        /\ Goto(Deploy(x), "limits")
     \/ Fail(x) /\ UNCHANGED member
  /\ UNCHANGED <<up, registry, target, proc, mounts, cgroup, left, crashes>>

(* memory.max and cpu.max, when the request has such limits. *)
SetLimits(x) ==
  /\ pc[Deploy(x)] = "limits"
  /\ Goto(Deploy(x), "register") \/ Fail(x)
  /\ UNCHANGED <<up, registry, target, kernelVars, left, crashes>>

(* sandboxRegistry.Store, then the log readers. *)
Register(x) ==
  /\ pc[Deploy(x)] = "register"
  /\ registry' = [registry EXCEPT ![IdOf[x]] = x]
  /\ Goto(Deploy(x), "watch")
  /\ UNCHANGED <<up, target, kernelVars, left, crashes>>

(* go func() { sb.Wait() ... }, and the answer. *)
Watch(x) ==
  /\ pc[Deploy(x)] = "watch"
  /\ pc' = [pc EXCEPT ![Deploy(x)] = "done", ![Waiter(x)] = "wait"]
  /\ UNCHANGED <<up, registry, target, kernelVars, left, crashes>>

-----------------------------------------------------------------------------
(* The waiter and the stop request.                                        *)

(* Mutant: the goroutine does not wait for the process. *)
BugReapsRunning(x) ==
  /\ pc[Waiter(x)] = "wait"
  /\ Goto(Waiter(x), "delete")
  /\ UNCHANGED <<up, registry, target, kernelVars, left, crashes>>

Reap(x) ==
  /\ pc[Waiter(x)] = "wait" /\ proc[x] = "zombie"
  /\ proc' = [proc EXCEPT ![x] = "gone"]
  /\ Goto(Waiter(x), "delete")
  /\ UNCHANGED <<up, registry, target, member, mounts, cgroup, left, crashes>>

(* Mutant: no Delete. *)
BugKeepsEntry(x) ==
  /\ pc[Waiter(x)] = "delete"
  /\ Goto(Waiter(x), "kill")
  /\ UNCHANGED <<up, registry, target, kernelVars, left, crashes>>

(* Delete by key, whoever the entry is for. *)
DeleteEntry(x) ==
  /\ pc[Waiter(x)] = "delete"
  /\ registry' = [registry EXCEPT ![IdOf[x]] = None]
  /\ Goto(Waiter(x), "kill")
  /\ UNCHANGED <<up, target, kernelVars, left, crashes>>

(* Load the sandbox, or answer "not found". *)
StopRequest(k) ==
  /\ up /\ pc[Stopper(k)] = "new"
  /\ \E i \in Ids :
       /\ target' = [target EXCEPT ![k] = registry[i]]
       /\ Goto(Stopper(k), IF registry[i] = None THEN "missing" ELSE "kill")
  /\ UNCHANGED <<up, registry, kernelVars, left, crashes>>

-----------------------------------------------------------------------------
(* The environment: processes end by themselves or by the signal, the      *)
(* agent dies and is started again.                                        *)

(* The agent that started x has crashed; init has adopted the process. *)
Orphan(x) == "lost" \in {pc[Deploy(x)], pc[Waiter(x)]}

Exit(x) ==
  /\ Live(x)
  /\ proc' = [proc EXCEPT ![x] = IF Orphan(x) THEN "gone" ELSE "zombie"]
  /\ UNCHANGED <<up, registry, pc, target, member, mounts, cgroup, left, crashes>>

(* Any of the containers may outlive the agent. *)
AgentCrash ==
  /\ up /\ crashes < MaxCrashes
  /\ up' = FALSE
  /\ crashes' = crashes + 1
  /\ registry' = [i \in Ids |-> None]
  /\ pc' = [g \in Goroutines |->
       IF pc[g] \in {"new", "none", "done", "failed", "missing"} THEN pc[g] ELSE "lost"]
  /\ \E S \in SUBSET {x \in Sandboxes : proc[x] = "alive"} :
       proc' = [x \in Sandboxes |->
         IF proc[x] = "none" \/ x \in S THEN proc[x] ELSE "gone"]
  /\ left' = mounts
  /\ UNCHANGED <<target, member, mounts, cgroup>>

(* The mounts it looks for are under containers/, the overlays elsewhere.  *)
CleanupOrphans ==
  /\ ~up
  /\ up' = TRUE
  /\ cgroup' = [i \in Ids |-> cgroup[i] /\ Occupied(i)]
  /\ UNCHANGED <<registry, pc, target, proc, member, mounts, left, crashes>>

-----------------------------------------------------------------------------
DeployStep(x) ==
  \/ MountOverlay(x) \/ Spawn(x) \/ CreateCgroup(x) \/ AddProcess(x)
  \/ SetLimits(x) \/ Register(x) \/ Watch(x)

WaitStep(x) == Reap(x) \/ DeleteEntry(x)

Next ==
  \/ \E x \in Sandboxes : DeployRequest(x) \/ DeployStep(x) \/ WaitStep(x) \/ Exit(x)
  \/ \E k \in Stops : StopRequest(k)
  \/ \E g \in Goroutines : StopStep(g)
  \/ AgentCrash \/ CleanupOrphans

Spec == Init /\ [][Next]_vars

(* The waiter and Stop run, and a process that was sent SIGKILL dies. *)
Fairness ==
  /\ \A x \in Sandboxes :
       /\ WF_vars(DeployStep(x))
       /\ WF_vars(WaitStep(x))
       /\ WF_vars(proc[x] = "dying" /\ Exit(x))
  /\ \A g \in Goroutines : WF_vars(StopStep(g))

FairSpec == Spec /\ Fairness

-----------------------------------------------------------------------------
(* Properties                                                              *)

Locations ==
  {"new", "none", "mount", "spawn", "cgroup", "addprocess", "limits", "register",
   "watch", "wait", "delete", "kill", "unmount", "rmcgroup",
   "done", "failed", "missing", "lost"}

TypeOK ==
  /\ up \in BOOLEAN
  /\ registry \in [Ids -> Sandboxes \union {None}]
  /\ pc \in [Goroutines -> Locations]
  /\ target \in [Stops -> Sandboxes \union {None}]
  /\ proc \in [Sandboxes -> {"none", "alive", "dying", "zombie", "gone"}]
  /\ member \in [Sandboxes -> BOOLEAN]
  /\ mounts \in [Ids -> Nat]
  /\ cgroup \in [Ids -> BOOLEAN]
  /\ left \in [Ids -> Nat]
  /\ crashes \in 0..MaxCrashes

(* Sandbox x has not had its mount taken away yet by a Stop of its own. *)
Owes(x) ==
  \/ pc[Deploy(x)] \in {"spawn", "cgroup", "addprocess", "limits", "register",
                        "watch", "kill", "unmount"}
  \/ pc[Waiter(x)] \in {"wait", "delete", "kill", "unmount"}

Owing(i) == {x \in Sandboxes : IdOf[x] = i /\ Owes(x)}

(* Once every deployment of an id has failed and rolled back, or its       *)
(* process has ended and been cleaned up after, no mount is left but those *)
(* umount(2) refused to take (its error is discarded) and those a crashed  *)
(* agent left: Start has no error path, and Stop no interleaving with      *)
(* another Stop of the id, that loses one (main.go:236-288).               *)
NoMountLeak == \A i \in Ids : Owing(i) = {} => mounts[i] <= left[i]

(* The registry never keeps a sandbox whose process has been cleaned up    *)
(* after, to be "stopped" with success or entered by pid again: its waiter *)
(* starts after the Store and ends with a Delete (main.go:247, 281-283).   *)
NoDeadSandboxTracked ==
  \A i \in Ids : registry[i] # None =>
    \/ pc[Deploy(registry[i])] = "watch"
    \/ pc[Waiter(registry[i])] \in {"wait", "delete"}

(* What is registered and runs is in the cgroup of its id, and that cgroup *)
(* exists, although Stops of other sandboxes with this id remove it        *)
(* whenever they can (sandbox_linux.go:77-92, 113).                        *)
RegisteredIsConfined ==
  \A i \in Ids : LET x == registry[i] IN
    x # None /\ Live(x) => member[x] /\ IdOf[x] = i /\ cgroup[i]

(* Nobody waits for the process of x: its deployment was rolled back, or   *)
(* the agent that started it crashed.                                      *)
Stray(x) ==
  /\ proc[x] # "none"
  /\ \/ pc[Deploy(x)] \in {"kill", "unmount", "rmcgroup", "failed", "lost"}
     \/ pc[Waiter(x)] = "lost"

Busy(x) ==
  \/ pc[Deploy(x)] \in {"mount", "spawn", "cgroup", "addprocess", "limits",
                        "register", "watch", "kill", "unmount", "rmcgroup"}
  \/ pc[Waiter(x)] \in {"wait", "delete", "kill", "unmount", "rmcgroup"}

(* A cgroup outlives the sandboxes of its id only if the process of one of *)
(* them was never waited for (RemoveCgroup fails while it dies).           *)
OnlyStraysKeepCgroup ==
  \A i \in Ids : cgroup[i] =>
    \E x \in Sandboxes : IdOf[x] = i /\ (Busy(x) \/ Stray(x))

(* A stop request that found a sandbox ends its process, which is reaped,  *)
(* and takes it out of the registry, unless the agent crashes meanwhile.   *)
StopReleases ==
  \A k \in Stops, x \in Sandboxes, n \in 0..MaxCrashes :
    (pc[Stopper(k)] = "kill" /\ target[k] = x /\ crashes = n)
      ~> \/ proc[x] = "gone" /\ registry[IdOf[x]] # x
         \/ crashes > n

-----------------------------------------------------------------------------
(* What the repository says and the code does not do.                      *)

(* picobox.proto:70: a StopRequest terminates a specific container -- so   *)
(* one that was deployed and still runs has to be in the registry, where   *)
(* the request looks for it.                                               *)
RunningIsTracked ==
  \A x \in Sandboxes :
    pc[Waiter(x)] = "wait" /\ proc[x] = "alive" => registry[IdOf[x]] # None

=============================================================================
