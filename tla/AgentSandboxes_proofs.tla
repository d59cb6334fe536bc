------------------------ MODULE AgentSandboxes_proofs ------------------------
(***************************************************************************)
(* What AgentSandboxes guarantees for every number of sandboxes, of them   *)
(* with the same id, of stop requests and of crashes.  The argument: the   *)
(* position of its deployment and of its waiter tell what has happened to  *)
(* a sandbox (Progress, Tracked); whoever may still have a mount is        *)
(* counted against the mounts there are (MountBound); and a cgroup has an  *)
(* owner as long as it exists (Kept).                                      *)
(***************************************************************************)
EXTENDS AgentSandboxes, FiniteSetTheorems, TLAPS

BeforeSpawn == {"new", "mount", "spawn"}
Created == {"addprocess", "limits", "register", "watch"}
InCgroup == {"limits", "register", "watch"}
Rollback == {"kill", "unmount", "rmcgroup", "failed"}
InStop == {"kill", "unmount", "rmcgroup"}

ProgressOf(x) ==
  /\ pc[Deploy(x)] \in BeforeSpawn => proc[x] = "none"
  /\ pc[Deploy(x)] \in BeforeSpawn \union {"cgroup", "addprocess"} => ~member[x]
  /\ pc[Deploy(x)] \in Created \union {"cgroup", "done"} => proc[x] # "none"
  /\ pc[Waiter(x)] # "none" => pc[Deploy(x)] = "done"
  /\ pc[Deploy(x)] = "done" => pc[Waiter(x)] # "none"
  /\ Live(x) => \/ pc[Deploy(x)] \in Created \union Rollback \union {"cgroup", "lost"}
                \/ pc[Waiter(x)] \in {"wait", "lost"}
  /\ member[x] /\ Live(x) => cgroup[IdOf[x]]
  /\ pc[Deploy(x)] \in InCgroup \/ pc[Waiter(x)] \in {"wait", "delete"}
       => (Live(x) => member[x])

Progress == \A x \in Sandboxes : ProgressOf(x)

TrackedOf(i) ==
  registry[i] # None =>
    /\ IdOf[registry[i]] = i
    /\ \/ pc[Deploy(registry[i])] = "watch"
       \/ pc[Waiter(registry[i])] \in {"wait", "delete"}

Tracked == \A i \in Ids : TrackedOf(i)

MountBoundOf(i) == mounts[i] <= left[i] + Cardinality(Owing(i))

MountBound == \A i \in Ids : MountBoundOf(i)

Keeps(x) ==
  \/ pc[Deploy(x)] \in Created
  \/ pc[Waiter(x)] \in {"wait", "delete"} \union InStop
  \/ Stray(x)

Kept == \A i \in Ids : cgroup[i] => \E x \in Sandboxes : IdOf[x] = i /\ Keeps(x)

IInv == TypeOK /\ Progress /\ Tracked /\ MountBound /\ Kept

-----------------------------------------------------------------------------
(* Where the goroutines are: a step that moves one moves no other. *)

LEMMA GoroutineNames ==
  /\ \A x \in Sandboxes : Deploy(x) \in Goroutines /\ Waiter(x) \in Goroutines
  /\ \A k \in Stops : Stopper(k) \in Goroutines
  /\ \A g \in Goroutines : \/ \E x \in Sandboxes : g = Deploy(x) \/ g = Waiter(x)
                          \/ \E k \in Stops : g = Stopper(k)
  /\ \A x, y : Deploy(x) = Deploy(y) <=> x = y
  /\ \A x, y : Waiter(x) = Waiter(y) <=> x = y
  /\ \A x, y : Deploy(x) # Waiter(y) /\ Deploy(x) # Stopper(y) /\ Waiter(x) # Stopper(y)
  /\ \A x : SandboxOf(Deploy(x)) = x /\ SandboxOf(Waiter(x)) = x
  /\ \A x : AfterStop(Deploy(x)) = "failed" /\ AfterStop(Waiter(x)) = "done"
  /\ \A k : AfterStop(Stopper(k)) = "done"
<1>1. \A x \in Sandboxes : Deploy(x) \in Goroutines /\ Waiter(x) \in Goroutines
  BY DEF Deploy, Waiter, Goroutines
<1>2. \A k \in Stops : Stopper(k) \in Goroutines
  BY DEF Stopper, Goroutines
<1>3. \A g \in Goroutines : \/ \E x \in Sandboxes : g = Deploy(x) \/ g = Waiter(x)
                           \/ \E k \in Stops : g = Stopper(k)
  BY DEF Deploy, Waiter, Stopper, Goroutines
<1>4. \A x, y : Deploy(x) = Deploy(y) <=> x = y
  BY DEF Deploy
<1>5. \A x, y : Waiter(x) = Waiter(y) <=> x = y
  BY DEF Waiter
<1>6. \A x, y : Deploy(x) # Waiter(y) /\ Deploy(x) # Stopper(y) /\ Waiter(x) # Stopper(y)
  BY DEF Deploy, Waiter, Stopper
<1>7. \A x : SandboxOf(Deploy(x)) = x /\ SandboxOf(Waiter(x)) = x
  BY DEF Deploy, Waiter, SandboxOf
<1>8. /\ \A x : AfterStop(Deploy(x)) = "failed" /\ AfterStop(Waiter(x)) = "done"
      /\ \A k : AfterStop(Stopper(k)) = "done"
  BY DEF Deploy, Waiter, Stopper, AfterStop
<1> QED BY <1>1, <1>2, <1>3, <1>4, <1>5, <1>6, <1>7, <1>8

LEMMA GotoDeploy ==
  ASSUME TypeOK, NEW x \in Sandboxes, NEW l, Goto(Deploy(x), l)
  PROVE  /\ pc'[Deploy(x)] = l
         /\ \A y \in Sandboxes : y # x => pc'[Deploy(y)] = pc[Deploy(y)]
         /\ \A y \in Sandboxes : pc'[Waiter(y)] = pc[Waiter(y)]
  BY GoroutineNames DEF TypeOK, Goto

LEMMA GotoWaiter ==
  ASSUME TypeOK, NEW x \in Sandboxes, NEW l, Goto(Waiter(x), l)
  PROVE  /\ pc'[Waiter(x)] = l
         /\ \A y \in Sandboxes : y # x => pc'[Waiter(y)] = pc[Waiter(y)]
         /\ \A y \in Sandboxes : pc'[Deploy(y)] = pc[Deploy(y)]
  BY GoroutineNames DEF TypeOK, Goto

LEMMA GotoStopper ==
  ASSUME TypeOK, NEW k \in Stops, NEW l, Goto(Stopper(k), l)
  PROVE  \A y \in Sandboxes : pc'[Deploy(y)] = pc[Deploy(y)] /\ pc'[Waiter(y)] = pc[Waiter(y)]
  BY GoroutineNames DEF TypeOK, Goto

-----------------------------------------------------------------------------
(* An Unmount takes a mount of the id, or leaves all of them: a mount left *)
(* by the goroutine that owed it is counted.                               *)
LEMMA UnmountEffect ==
  ASSUME TypeOK, NEW g \in Goroutines, Unmount(g)
  PROVE  /\ mounts' \in [Ids -> Nat] /\ left' \in [Ids -> Nat]
         /\ \A i \in Ids :
              /\ i # IdFor(g) => mounts'[i] = mounts[i] /\ left'[i] = left[i]
              /\ \/ mounts'[i] = mounts[i] - 1 /\ left'[i] = left[i]
                 \/ mounts'[i] - left'[i] <= 0
                 \/ /\ mounts'[i] = mounts[i]
                    /\ left'[i] = IF g[1] # "stop" /\ i = IdFor(g) THEN left[i] + 1
                                  ELSE left[i]
<1>0. mounts \in [Ids -> Nat] /\ left \in [Ids -> Nat]
  BY DEF TypeOK
<1> DEFINE j == IdFor(g)
<1>1. CASE /\ mounts[j] > 0
           /\ mounts' = [mounts EXCEPT ![j] = @ - 1]
           /\ left' = [left EXCEPT ![j] = IF @ < mounts[j] THEN @ ELSE @ - 1]
  <2>1. CASE j \in Ids
    <3>1. mounts[j] \in Nat /\ left[j] \in Nat /\ mounts[j] - 1 \in Nat
      BY <1>0, <1>1, <2>1
    <3>2. (IF left[j] < mounts[j] THEN left[j] ELSE left[j] - 1) \in Nat
      BY <1>1, <3>1
    <3> HIDE DEF j
    <3> QED BY <1>0, <1>1, <2>1, <3>1, <3>2 DEF j
  <2>2. CASE j \notin Ids
    <3>1. mounts' = mounts /\ left' = left
      BY <1>0, <1>1, <2>2
    <3> QED BY <1>0, <2>2, <3>1
  <2> QED BY <2>1, <2>2
<1>2. CASE /\ left' = [left EXCEPT ![j] = IF g[1] # "stop" /\ @ < mounts[j]
                                         THEN @ + 1 ELSE @]
           /\ UNCHANGED mounts
  <2>1. CASE j \in Ids
    BY <1>0, <1>2, <2>1
  <2>2. CASE j \notin Ids
    <3>1. mounts' = mounts /\ left' = left
      BY <1>0, <1>2, <2>2
    <3> QED BY <1>0, <2>2, <3>1
  <2> QED BY <2>1, <2>2
<1> QED BY <1>1, <1>2 DEF Unmount

(* Every step keeps the variables in their types. *)
LEMMA TypeStep == TypeOK /\ [Next]_vars => TypeOK'
<1> SUFFICES ASSUME TypeOK, [Next]_vars PROVE TypeOK'
  OBVIOUS
<1> USE ConstantsAssumption DEF TypeOK, Locations, Goto, kernelVars
<1>1. ASSUME NEW x \in Sandboxes, DeployRequest(x) PROVE TypeOK'
  BY <1>1 DEF DeployRequest
<1>2. ASSUME NEW x \in Sandboxes, MountOverlay(x) PROVE TypeOK'
  BY <1>2 DEF MountOverlay, Fail
<1>3. ASSUME NEW x \in Sandboxes, Spawn(x) PROVE TypeOK'
  BY <1>3 DEF Spawn, Fail
<1>4. ASSUME NEW x \in Sandboxes, CreateCgroup(x) PROVE TypeOK'
  BY <1>4 DEF CreateCgroup, Fail
<1>5. ASSUME NEW x \in Sandboxes, AddProcess(x) PROVE TypeOK'
  <2>1. Live(x) \in BOOLEAN
    BY DEF Live
  <2> QED BY <1>5, <2>1 DEF AddProcess, Fail
<1>6. ASSUME NEW x \in Sandboxes, SetLimits(x) PROVE TypeOK'
  BY <1>6 DEF SetLimits, Fail
<1>7. ASSUME NEW x \in Sandboxes, Register(x) PROVE TypeOK'
  BY <1>7 DEF Register
<1>8. ASSUME NEW x \in Sandboxes, Watch(x) PROVE TypeOK'
  BY <1>8 DEF Watch
<1>9. ASSUME NEW x \in Sandboxes, WaitStep(x) \/ Exit(x) PROVE TypeOK'
  BY <1>9 DEF WaitStep, Reap, DeleteEntry, Exit
<1>10. ASSUME NEW k \in Stops, StopRequest(k) PROVE TypeOK'
  BY <1>10 DEF StopRequest
<1>11. ASSUME NEW g \in Goroutines, StopStep(g) PROVE TypeOK'
  <2>1. CASE Kill(g)
    BY <2>1 DEF Kill
  <2>2. CASE Unmount(g)
    <3>1. mounts' \in [Ids -> Nat] /\ left' \in [Ids -> Nat]
      BY <2>2, UnmountEffect
    <3>2. pc' \in [Goroutines -> Locations]
      BY <2>2 DEF Unmount
    <3> QED BY <2>2, <3>1, <3>2 DEF Unmount
  <2>3. CASE RemoveCgroup(g)
    <3>1. \A i : Occupied(i) \in BOOLEAN
      BY DEF Occupied
    <3> QED BY <2>3, <3>1 DEF RemoveCgroup, AfterStop
  <2> QED BY <1>11, <2>1, <2>2, <2>3 DEF StopStep
<1>12. CASE AgentCrash
  <2>1. proc' \in [Sandboxes -> {"none", "alive", "dying", "zombie", "gone"}]
    BY <1>12 DEF AgentCrash
  <2>2. pc' \in [Goroutines -> Locations]
    BY <1>12 DEF AgentCrash
  <2>3. registry' \in [Ids -> Sandboxes \union {None}] /\ crashes' \in 0..MaxCrashes
    BY <1>12 DEF AgentCrash
  <2> QED BY <1>12, <2>1, <2>2, <2>3 DEF AgentCrash
<1>13. CASE CleanupOrphans
  BY <1>13 DEF CleanupOrphans, Occupied
<1>14. CASE UNCHANGED vars
  BY <1>14 DEF vars
<1> QED BY <1>1, <1>2, <1>3, <1>4, <1>5, <1>6, <1>7, <1>8, <1>9, <1>10, <1>11,
           <1>12, <1>13, <1>14 DEF Next, DeployStep

-----------------------------------------------------------------------------
(* Every step keeps what a goroutine's position tells about its sandbox. *)
LEMMA ProgressStep == TypeOK /\ Progress /\ [Next]_vars => Progress'
<1> SUFFICES ASSUME TypeOK, Progress, [Next]_vars PROVE Progress'
  OBVIOUS
<1> USE ConstantsAssumption
    DEF TypeOK, Progress, ProgressOf, Live, kernelVars,
        BeforeSpawn, Created, InCgroup, Rollback
<1>1. ASSUME NEW x \in Sandboxes, DeployRequest(x) PROVE Progress'
  <2>1. /\ pc'[Deploy(x)] \in {"mount"}
        /\ \A y \in Sandboxes : y # x => pc'[Deploy(y)] = pc[Deploy(y)]
        /\ \A y \in Sandboxes : pc'[Waiter(y)] = pc[Waiter(y)]
    BY <1>1, GotoDeploy DEF DeployRequest
  <2> QED BY <1>1, <2>1, GotoDeploy DEF DeployRequest
<1>2. ASSUME NEW x \in Sandboxes, MountOverlay(x) PROVE Progress'
  <2>1. /\ pc'[Deploy(x)] \in {"spawn", "kill"}
        /\ \A y \in Sandboxes : y # x => pc'[Deploy(y)] = pc[Deploy(y)]
        /\ \A y \in Sandboxes : pc'[Waiter(y)] = pc[Waiter(y)]
    BY <1>2, GotoDeploy DEF MountOverlay, Fail
  <2> QED BY <1>2, <2>1, GotoDeploy DEF MountOverlay, Fail
<1>3. ASSUME NEW x \in Sandboxes, Spawn(x) PROVE Progress'
  <2>1. /\ pc'[Deploy(x)] \in {"cgroup", "kill"}
        /\ \A y \in Sandboxes : y # x => pc'[Deploy(y)] = pc[Deploy(y)]
        /\ \A y \in Sandboxes : pc'[Waiter(y)] = pc[Waiter(y)]
    BY <1>3, GotoDeploy DEF Spawn, Fail
  <2> QED BY <1>3, <2>1, GotoDeploy DEF Spawn, Fail
<1>4. ASSUME NEW x \in Sandboxes, CreateCgroup(x) PROVE Progress'
  <2>1. /\ pc'[Deploy(x)] \in {"addprocess", "kill"}
        /\ \A y \in Sandboxes : y # x => pc'[Deploy(y)] = pc[Deploy(y)]
        /\ \A y \in Sandboxes : pc'[Waiter(y)] = pc[Waiter(y)]
    BY <1>4, GotoDeploy DEF CreateCgroup, Fail
  <2> QED BY <1>4, <2>1, GotoDeploy DEF CreateCgroup, Fail
<1>5. ASSUME NEW x \in Sandboxes, AddProcess(x) PROVE Progress'
  <2>1. /\ pc'[Deploy(x)] \in {"limits", "kill"}
        /\ \A y \in Sandboxes : y # x => pc'[Deploy(y)] = pc[Deploy(y)]
        /\ \A y \in Sandboxes : pc'[Waiter(y)] = pc[Waiter(y)]
    BY <1>5, GotoDeploy DEF AddProcess, Fail
  <2> QED BY <1>5, <2>1, GotoDeploy DEF AddProcess, Fail
<1>6. ASSUME NEW x \in Sandboxes, SetLimits(x) PROVE Progress'
  <2>1. /\ pc'[Deploy(x)] \in {"register", "kill"}
        /\ \A y \in Sandboxes : y # x => pc'[Deploy(y)] = pc[Deploy(y)]
        /\ \A y \in Sandboxes : pc'[Waiter(y)] = pc[Waiter(y)]
    BY <1>6, GotoDeploy DEF SetLimits, Fail
  <2> QED BY <1>6, <2>1, GotoDeploy DEF SetLimits, Fail
<1>7. ASSUME NEW x \in Sandboxes, Register(x) PROVE Progress'
  <2>1. /\ pc'[Deploy(x)] \in {"watch"}
        /\ \A y \in Sandboxes : y # x => pc'[Deploy(y)] = pc[Deploy(y)]
        /\ \A y \in Sandboxes : pc'[Waiter(y)] = pc[Waiter(y)]
    BY <1>7, GotoDeploy DEF Register
  <2> QED BY <1>7, <2>1, GotoDeploy DEF Register
<1>8. ASSUME NEW x \in Sandboxes, Watch(x) PROVE Progress'
  <2>1. /\ pc'[Deploy(x)] = "done" /\ pc'[Waiter(x)] = "wait"
        /\ \A y \in Sandboxes : y # x => /\ pc'[Deploy(y)] = pc[Deploy(y)]
                                      /\ pc'[Waiter(y)] = pc[Waiter(y)]
    BY <1>8, GoroutineNames DEF Watch
  <2>2. pc[Deploy(x)] = "watch" /\ pc[Waiter(x)] = "none"
    BY <1>8, GoroutineNames DEF Watch
  <2>3. ProgressOf(x)'
    BY <1>8, <2>1, <2>2 DEF Watch
  <2>4. ASSUME NEW y \in Sandboxes, y # x PROVE ProgressOf(y)'
    BY <1>8, <2>1, <2>4 DEF Watch
  <2> QED BY <2>3, <2>4
<1>9. ASSUME NEW x \in Sandboxes, Reap(x) PROVE Progress'
  <2>1. /\ pc'[Waiter(x)] = "delete"
        /\ \A y \in Sandboxes : y # x => pc'[Waiter(y)] = pc[Waiter(y)]
        /\ \A y \in Sandboxes : pc'[Deploy(y)] = pc[Deploy(y)]
    BY <1>9, GotoWaiter DEF Reap
  <2> QED BY <1>9, <2>1 DEF Reap
<1>10. ASSUME NEW x \in Sandboxes, DeleteEntry(x) PROVE Progress'
  <2>1. /\ pc'[Waiter(x)] = "kill"
        /\ \A y \in Sandboxes : y # x => pc'[Waiter(y)] = pc[Waiter(y)]
        /\ \A y \in Sandboxes : pc'[Deploy(y)] = pc[Deploy(y)]
    BY <1>10, GotoWaiter DEF DeleteEntry
  <2> QED BY <1>10, <2>1 DEF DeleteEntry
<1>11. ASSUME NEW x \in Sandboxes, Exit(x) PROVE Progress'
  BY <1>11 DEF Exit
<1>12. ASSUME NEW k \in Stops, StopRequest(k) PROVE Progress'
  BY <1>12, GotoStopper DEF StopRequest
<1>13. ASSUME NEW g \in Goroutines, StopStep(g) PROVE Progress'
  <2>1. PICK l \in {"unmount", "rmcgroup", "done", "failed"} :
           Goto(g, l) /\ (l = "failed" => \E x : g = Deploy(x))
                      /\ (l = "done" => ~\E x : g = Deploy(x))
    BY <1>13, GoroutineNames DEF StopStep, Kill, Unmount, RemoveCgroup, AfterStop, Deploy
  <2>2. /\ pc[g] \in InStop
        /\ member' = member
        /\ \A y \in Sandboxes : proc'[y] = proc[y] \/ (proc[y] = "alive" /\ proc'[y] = "dying")
        /\ \A y \in Sandboxes : member[y] /\ Live(y) /\ cgroup[IdOf[y]] => cgroup'[IdOf[y]]
    BY <1>13 DEF StopStep, Kill, Unmount, RemoveCgroup, InStop, Occupied
  <2>3. ASSUME NEW x \in Sandboxes, g = Deploy(x) PROVE Progress'
    <3>1. /\ pc'[Deploy(x)] = l /\ l # "done"
          /\ \A y \in Sandboxes : y # x => pc'[Deploy(y)] = pc[Deploy(y)]
          /\ \A y \in Sandboxes : pc'[Waiter(y)] = pc[Waiter(y)]
      BY <2>1, <2>3, GotoDeploy
    <3> QED BY <2>2, <2>3, <3>1 DEF InStop
  <2>4. ASSUME NEW x \in Sandboxes, g = Waiter(x) PROVE Progress'
    <3>1. /\ pc'[Waiter(x)] = l
          /\ \A y \in Sandboxes : y # x => pc'[Waiter(y)] = pc[Waiter(y)]
          /\ \A y \in Sandboxes : pc'[Deploy(y)] = pc[Deploy(y)]
      BY <2>1, <2>4, GotoWaiter
    <3> QED BY <2>2, <2>4, <3>1 DEF InStop
  <2>5. ASSUME NEW k \in Stops, g = Stopper(k) PROVE Progress'
    <3>1. \A y \in Sandboxes : /\ pc'[Deploy(y)] = pc[Deploy(y)]
                             /\ pc'[Waiter(y)] = pc[Waiter(y)]
      BY <2>1, <2>5, GotoStopper
    <3> QED BY <2>2, <3>1
  <2>6. \/ \E x \in Sandboxes : g = Deploy(x) \/ g = Waiter(x)
        \/ \E k \in Stops : g = Stopper(k)
    BY GoroutineNames
  <2> HIDE DEF Progress
  <2> QED BY <2>3, <2>4, <2>5, <2>6
<1>14. CASE AgentCrash
  <2> DEFINE kept == {"new", "none", "done", "failed", "missing"}
  <2>1. \A y \in Sandboxes : proc'[y] = proc[y] \/ (proc[y] # "none" /\ proc'[y] = "gone")
    BY <1>14 DEF AgentCrash
  <2>2. \A g \in Goroutines : pc'[g] = IF pc[g] \in kept THEN pc[g] ELSE "lost"
    BY <1>14 DEF AgentCrash
  <2>3. \A y \in Sandboxes :
          /\ pc'[Deploy(y)] = IF pc[Deploy(y)] \in kept THEN pc[Deploy(y)] ELSE "lost"
          /\ pc'[Waiter(y)] = IF pc[Waiter(y)] \in kept THEN pc[Waiter(y)] ELSE "lost"
    BY <2>2, GoroutineNames
  <2>4. member' = member /\ cgroup' = cgroup
    BY <1>14 DEF AgentCrash
  <2>5. ASSUME NEW y \in Sandboxes PROVE ProgressOf(y)'
    BY <2>1, <2>3, <2>4
  <2> QED BY <2>5
<1>15. CASE CleanupOrphans
  <2>1. \A y \in Sandboxes : member[y] /\ Live(y) /\ cgroup[IdOf[y]] => cgroup'[IdOf[y]]
    BY <1>15 DEF CleanupOrphans, Occupied
  <2> QED BY <1>15, <2>1 DEF CleanupOrphans
<1>16. CASE UNCHANGED vars
  BY <1>16 DEF vars
<1> QED BY <1>1, <1>2, <1>3, <1>4, <1>5, <1>6, <1>7, <1>8, <1>9, <1>10, <1>11,
           <1>12, <1>13, <1>14, <1>15, <1>16 DEF Next, DeployStep, WaitStep

-----------------------------------------------------------------------------
(* What the steps of a deployment before its Store have in common. *)
LEMMA BeforeStore ==
  ASSUME TypeOK, NEW x \in Sandboxes,
         \/ DeployRequest(x) \/ MountOverlay(x) \/ Spawn(x)
         \/ CreateCgroup(x) \/ AddProcess(x) \/ SetLimits(x)
  PROVE  /\ pc[Deploy(x)] \in {"new", "mount", "spawn", "cgroup", "addprocess", "limits"}
         /\ pc'[Deploy(x)] \in {"mount", "spawn", "cgroup", "addprocess", "limits",
                                "register", "kill"}
         /\ \A y \in Sandboxes : y # x => pc'[Deploy(y)] = pc[Deploy(y)]
         /\ \A y \in Sandboxes : pc'[Waiter(y)] = pc[Waiter(y)]
         /\ registry' = registry /\ left' = left
<1>1. PICK l \in {"mount", "spawn", "cgroup", "addprocess", "limits", "register", "kill"} :
         Goto(Deploy(x), l)
  BY DEF DeployRequest, MountOverlay, Spawn, CreateCgroup, AddProcess, SetLimits, Fail
<1>2. /\ pc[Deploy(x)] \in {"new", "mount", "spawn", "cgroup", "addprocess", "limits"}
      /\ registry' = registry /\ left' = left
  BY DEF DeployRequest, MountOverlay, Spawn, CreateCgroup, AddProcess, SetLimits
<1> QED BY <1>1, <1>2, GotoDeploy

(* What the steps of a Stop have in common. *)
LEMMA DuringStop ==
  ASSUME TypeOK, NEW g \in Goroutines, StopStep(g)
  PROVE  /\ pc[g] \in InStop
         /\ \A y \in Sandboxes :
              /\ pc[Deploy(y)] \notin InStop => pc'[Deploy(y)] = pc[Deploy(y)]
              /\ pc[Deploy(y)] \in InStop => pc'[Deploy(y)] \in InStop \union {"failed"}
              /\ pc[Waiter(y)] \notin InStop => pc'[Waiter(y)] = pc[Waiter(y)]
              /\ pc[Waiter(y)] \in InStop => pc'[Waiter(y)] \in InStop \union {"done"}
         /\ registry' = registry
<1>1. PICK l : Goto(g, l) /\ l \in InStop \union {AfterStop(g)}
  BY DEF StopStep, Kill, Unmount, RemoveCgroup, InStop
<1>2. pc[g] \in InStop /\ registry' = registry
  BY DEF StopStep, Kill, Unmount, RemoveCgroup, InStop
<1>3. \A h \in Goroutines : pc'[h] = IF h = g THEN l ELSE pc[h]
  BY <1>1 DEF Goto, TypeOK
<1> QED BY <1>1, <1>2, <1>3, GoroutineNames

(* A crash keeps a goroutine that has ended or not begun where it is. *)
LEMMA AfterCrash ==
  ASSUME TypeOK, AgentCrash
  PROVE  LET kept == {"new", "none", "done", "failed", "missing"} IN
         \A y \in Sandboxes :
           /\ pc'[Deploy(y)] = IF pc[Deploy(y)] \in kept THEN pc[Deploy(y)] ELSE "lost"
           /\ pc'[Waiter(y)] = IF pc[Waiter(y)] \in kept THEN pc[Waiter(y)] ELSE "lost"
<1>1. \A g \in Goroutines :
        pc'[g] = IF pc[g] \in {"new", "none", "done", "failed", "missing"}
                 THEN pc[g] ELSE "lost"
  BY DEF AgentCrash
<1> QED BY <1>1, GoroutineNames

-----------------------------------------------------------------------------
(* The registry holds a sandbox only until its waiter has deleted it. *)
LEMMA TrackedStep == TypeOK /\ Tracked /\ [Next]_vars => Tracked'
<1> SUFFICES ASSUME TypeOK, Tracked, [Next]_vars PROVE Tracked'
  OBVIOUS
<1> USE ConstantsAssumption DEF Tracked, TrackedOf, kernelVars
<1>0. \A i \in Ids : registry[i] # None => registry[i] \in Sandboxes
  BY DEF TypeOK
<1>1. ASSUME NEW x \in Sandboxes,
             \/ DeployRequest(x) \/ MountOverlay(x) \/ Spawn(x)
             \/ CreateCgroup(x) \/ AddProcess(x) \/ SetLimits(x)
      PROVE  Tracked'
  BY <1>0, <1>1, BeforeStore
<1>2. ASSUME NEW x \in Sandboxes, Register(x) PROVE Tracked'
  <2>1. /\ pc'[Deploy(x)] = "watch"
        /\ \A y \in Sandboxes : y # x => pc'[Deploy(y)] = pc[Deploy(y)]
        /\ \A y \in Sandboxes : pc'[Waiter(y)] = pc[Waiter(y)]
    BY <1>2, GotoDeploy DEF Register
  <2>2. /\ registry'[IdOf[x]] = x
        /\ \A i \in Ids : i # IdOf[x] => registry'[i] = registry[i]
    BY <1>2 DEF Register, TypeOK
  <2> QED BY <1>0, <2>1, <2>2
<1>3. ASSUME NEW x \in Sandboxes, Watch(x) PROVE Tracked'
  <2>1. /\ pc'[Waiter(x)] = "wait"
        /\ \A y \in Sandboxes : y # x => /\ pc'[Deploy(y)] = pc[Deploy(y)]
                                      /\ pc'[Waiter(y)] = pc[Waiter(y)]
    BY <1>3, GoroutineNames DEF Watch, TypeOK
  <2>2. registry' = registry
    BY <1>3 DEF Watch
  <2>3. ASSUME NEW i \in Ids PROVE TrackedOf(i)'
    BY <1>0, <2>1, <2>2
  <2> QED BY <2>3
<1>4. ASSUME NEW x \in Sandboxes, Reap(x) PROVE Tracked'
  <2>1. /\ pc'[Waiter(x)] = "delete"
        /\ \A y \in Sandboxes : y # x => pc'[Waiter(y)] = pc[Waiter(y)]
        /\ \A y \in Sandboxes : pc'[Deploy(y)] = pc[Deploy(y)]
    BY <1>4, GotoWaiter DEF Reap
  <2> QED BY <1>0, <1>4, <2>1 DEF Reap
<1>5. ASSUME NEW x \in Sandboxes, DeleteEntry(x) PROVE Tracked'
  <2>1. /\ \A y \in Sandboxes : y # x => pc'[Waiter(y)] = pc[Waiter(y)]
        /\ \A y \in Sandboxes : pc'[Deploy(y)] = pc[Deploy(y)]
    BY <1>5, GotoWaiter DEF DeleteEntry
  <2>2. /\ registry'[IdOf[x]] = None
        /\ \A i \in Ids : i # IdOf[x] => registry'[i] = registry[i]
    BY <1>5 DEF DeleteEntry, TypeOK
  <2> QED BY <1>0, <2>1, <2>2
<1>6. ASSUME NEW x \in Sandboxes, Exit(x) PROVE Tracked'
  BY <1>6 DEF Exit
<1>7. ASSUME NEW k \in Stops, StopRequest(k) PROVE Tracked'
  BY <1>0, <1>7, GotoStopper DEF StopRequest
<1>8. ASSUME NEW g \in Goroutines, StopStep(g) PROVE Tracked'
  BY <1>0, <1>8, DuringStop DEF InStop
<1>9. CASE AgentCrash
  BY <1>9 DEF AgentCrash
<1>10. CASE CleanupOrphans
  BY <1>10 DEF CleanupOrphans
<1>11. CASE UNCHANGED vars
  BY <1>11 DEF vars
<1> QED BY <1>1, <1>2, <1>3, <1>4, <1>5, <1>6, <1>7, <1>8, <1>9, <1>10, <1>11
        DEF Next, DeployStep, WaitStep

-----------------------------------------------------------------------------
(* Every cgroup has a sandbox that is still to remove it, or a stray. *)
LEMMA KeptStep == TypeOK /\ Progress /\ Kept /\ [Next]_vars => Kept'
<1> SUFFICES ASSUME TypeOK, Progress, Kept, [Next]_vars PROVE Kept'
  OBVIOUS
<1> USE ConstantsAssumption DEF kernelVars
<1>a. ASSUME \A i \in Ids : cgroup'[i] => cgroup[i],
             \A x \in Sandboxes : Keeps(x) => Keeps(x)'
      PROVE  Kept'
  BY <1>a DEF Kept
<1>1. ASSUME NEW x \in Sandboxes,
             DeployRequest(x) \/ MountOverlay(x) \/ Spawn(x) \/ AddProcess(x) \/ SetLimits(x)
      PROVE  Kept'
  <2>1. cgroup' = cgroup /\ \A y \in Sandboxes : proc[y] # "none" => proc'[y] # "none"
    BY <1>1 DEF DeployRequest, MountOverlay, Spawn, AddProcess, SetLimits, TypeOK
  <2>2. pc[Deploy(x)] \in Created => pc'[Deploy(x)] \in Created \union {"kill"}
    BY <1>1, GotoDeploy
       DEF DeployRequest, MountOverlay, Spawn, AddProcess, SetLimits, Fail, Created
  <2>3. ASSUME NEW y \in Sandboxes, Keeps(y) PROVE Keeps(y)'
    BY <1>1, <2>1, <2>2, <2>3, BeforeStore DEF Keeps, Created, Stray, Progress, ProgressOf
  <2> QED BY <1>a, <2>1, <2>3
<1>2. ASSUME NEW x \in Sandboxes, CreateCgroup(x) PROVE Kept'
  <2>1. ASSUME NEW y \in Sandboxes, Keeps(y) PROVE Keeps(y)'
    BY <1>2, <2>1, BeforeStore DEF CreateCgroup, Keeps, Created, Stray
  <2>2. CASE Goto(Deploy(x), "addprocess") /\ cgroup' = [cgroup EXCEPT ![IdOf[x]] = TRUE]
    <3>1. Keeps(x)'
      BY <2>2, GotoDeploy DEF Keeps, Created
    <3>2. \A i \in Ids : i # IdOf[x] => cgroup'[i] = cgroup[i]
      BY <2>2 DEF TypeOK
    <3> QED BY <2>1, <3>1, <3>2 DEF Kept
  <2>3. CASE cgroup' = cgroup
    BY <1>a, <2>1, <2>3
  <2> QED BY <1>2, <2>2, <2>3 DEF CreateCgroup
<1>3. ASSUME NEW x \in Sandboxes, Register(x) PROVE Kept'
  <2>1. /\ pc'[Deploy(x)] = "watch"
        /\ \A y \in Sandboxes : y # x => pc'[Deploy(y)] = pc[Deploy(y)]
        /\ \A y \in Sandboxes : pc'[Waiter(y)] = pc[Waiter(y)]
    BY <1>3, GotoDeploy DEF Register
  <2> QED BY <1>3, <1>a, <2>1 DEF Register, Keeps, Created, Stray
<1>4. ASSUME NEW x \in Sandboxes, Watch(x) PROVE Kept'
  <2>1. /\ pc'[Waiter(x)] = "wait"
        /\ \A y \in Sandboxes : y # x => /\ pc'[Deploy(y)] = pc[Deploy(y)]
                                      /\ pc'[Waiter(y)] = pc[Waiter(y)]
    BY <1>4, GoroutineNames DEF Watch, TypeOK
  <2> QED BY <1>4, <1>a, <2>1 DEF Watch, Keeps, Stray
<1>5. ASSUME NEW x \in Sandboxes, WaitStep(x) PROVE Kept'
  <2>1. /\ pc'[Waiter(x)] \in {"delete", "kill"} /\ pc[Waiter(x)] \in {"wait", "delete"}
        /\ \A y \in Sandboxes : y # x => pc'[Waiter(y)] = pc[Waiter(y)]
        /\ \A y \in Sandboxes : pc'[Deploy(y)] = pc[Deploy(y)]
    BY <1>5, GotoWaiter DEF WaitStep, Reap, DeleteEntry
  <2>2. cgroup' = cgroup /\ \A y \in Sandboxes : proc[y] # "none" => proc'[y] # "none"
    BY <1>5 DEF WaitStep, Reap, DeleteEntry, TypeOK
  <2> QED BY <1>a, <2>1, <2>2 DEF Keeps, Stray, InStop
<1>6. ASSUME NEW x \in Sandboxes, Exit(x) PROVE Kept'
  BY <1>6, <1>a DEF Exit, Keeps, Stray, TypeOK
<1>7. ASSUME NEW k \in Stops, StopRequest(k) PROVE Kept'
  BY <1>7, <1>a, GotoStopper DEF StopRequest, Keeps, Stray
<1>8. ASSUME NEW g \in Goroutines, StopStep(g) PROVE Kept'
  <2>1. \A y \in Sandboxes : proc'[y] = "none" <=> proc[y] = "none"
    BY <1>8 DEF StopStep, Kill, Unmount, RemoveCgroup, TypeOK
  <2>2. CASE Kill(g) \/ Unmount(g)
    <3>1. cgroup' = cgroup
      BY <2>2 DEF Kill, Unmount
    <3>2. \A x \in Sandboxes : pc[Waiter(x)] \in InStop => pc'[Waiter(x)] \in InStop
      <4>1. PICK l \in InStop : Goto(g, l)
        BY <2>2 DEF Kill, Unmount, InStop
      <4> QED BY <4>1, GoroutineNames DEF Goto, TypeOK
    <3>3. ASSUME NEW x \in Sandboxes, Keeps(x) PROVE Keeps(x)'
      BY <1>8, <2>1, <3>2, <3>3, DuringStop DEF Keeps, Stray, InStop, Created
    <3> QED BY <1>a, <3>1, <3>3
  <2>3. CASE RemoveCgroup(g)
    <3>1. ASSUME NEW x \in Sandboxes, Keeps(x), pc[Waiter(x)] \notin InStop \/ Stray(x)
          PROVE  Keeps(x)'
      BY <1>8, <2>1, <3>1, DuringStop DEF Keeps, Stray, InStop, Created
    <3>2. ASSUME NEW i \in Ids, cgroup'[i]
          PROVE  \E x \in Sandboxes : IdOf[x] = i /\ Keeps(x)'
      <4>1. CASE i = IdFor(g)
        <5>1. Occupied(i)
          BY <2>3, <3>2, <4>1 DEF RemoveCgroup, TypeOK
        <5>2. PICK y \in Sandboxes : IdOf[y] = i /\ member[y] /\ Live(y)
          BY <5>1 DEF Occupied
        <5>3. Keeps(y) /\ (pc[Waiter(y)] \notin InStop \/ Stray(y))
          BY <5>2 DEF Progress, ProgressOf, Keeps, Stray, Live, Created, Rollback, InStop
        <5> QED BY <3>1, <5>2, <5>3
      <4>2. CASE i # IdFor(g)
        <5>1. cgroup[i]
          BY <2>3, <3>2, <4>2 DEF RemoveCgroup, TypeOK
        <5>2. PICK y \in Sandboxes : IdOf[y] = i /\ Keeps(y)
          BY <5>1 DEF Kept
        <5>3. g # Waiter(y)
          BY <4>2, <5>2, GoroutineNames DEF IdFor
        <5>4. pc'[Waiter(y)] = pc[Waiter(y)]
          BY <2>3, <5>3, GoroutineNames DEF RemoveCgroup, Goto, TypeOK
        <5>5. Keeps(y)'
          BY <1>8, <2>1, <5>2, <5>4, DuringStop DEF Keeps, Stray, InStop, Created
        <5> QED BY <5>2, <5>5
      <4> QED BY <4>1, <4>2
    <3> QED BY <3>2 DEF Kept
  <2> QED BY <1>8, <2>2, <2>3 DEF StopStep
<1>9. CASE AgentCrash
  <2>1. cgroup' = cgroup /\ \A y \in Sandboxes : proc[y] # "none" => proc'[y] # "none"
    BY <1>9 DEF AgentCrash
  <2>2. ASSUME NEW y \in Sandboxes, Keeps(y) PROVE Keeps(y)'
    BY <1>9, <2>1, <2>2, AfterCrash
       DEF Keeps, Stray, Progress, ProgressOf, Created, InStop
  <2> QED BY <1>a, <2>1, <2>2
<1>10. CASE CleanupOrphans
  BY <1>10, <1>a DEF CleanupOrphans, Keeps, Stray
<1>11. CASE UNCHANGED vars
  BY <1>11, <1>a DEF vars, Keeps, Stray
<1> QED BY <1>1, <1>2, <1>3, <1>4, <1>5, <1>6, <1>7, <1>8, <1>9, <1>10, <1>11
        DEF Next, DeployStep, WaitStep

-----------------------------------------------------------------------------
(* Counting: a set that loses at most one element, or gains one. *)
LEMMA Counting ==
  ASSUME NEW S, NEW T, IsFiniteSet(S), IsFiniteSet(T), NEW x
  PROVE  /\ Cardinality(S) \in Nat /\ Cardinality(T) \in Nat
         /\ S \subseteq T => Cardinality(S) <= Cardinality(T)
         /\ S \subseteq T \union {x} => Cardinality(S) <= Cardinality(T) + 1
         /\ S \subseteq T /\ x \in T /\ x \notin S => Cardinality(S) + 1 <= Cardinality(T)
<1>1. Cardinality(S) \in Nat /\ Cardinality(T) \in Nat
  BY FS_CardinalityType
<1>2. S \subseteq T => Cardinality(S) <= Cardinality(T)
  BY FS_Subset
<1>3. ASSUME S \subseteq T \union {x} PROVE Cardinality(S) <= Cardinality(T) + 1
  <2>0. /\ IsFiniteSet(T \union {x})
        /\ Cardinality(T \union {x}) = IF x \in T THEN Cardinality(T) ELSE Cardinality(T) + 1
    BY FS_AddElement, Zenon
  <2>1. IsFiniteSet(T \union {x}) /\ Cardinality(T \union {x}) <= Cardinality(T) + 1
    BY <1>1, <2>0
  <2>2. Cardinality(S) <= Cardinality(T \union {x})
    BY <1>3, <2>1, FS_Subset
  <2>3. Cardinality(T \union {x}) \in Nat
    BY <2>1, FS_CardinalityType
  <2> QED BY <1>1, <2>1, <2>2, <2>3
<1>4. ASSUME S \subseteq T, x \in T, x \notin S PROVE Cardinality(S) + 1 <= Cardinality(T)
  <2>1. IsFiniteSet(S \union {x}) /\ Cardinality(S \union {x}) = Cardinality(S) + 1
    BY <1>4, FS_AddElement
  <2>2. Cardinality(S \union {x}) <= Cardinality(T)
    BY <1>4, FS_Subset
  <2> QED BY <2>1, <2>2
<1> QED BY <1>1, <1>2, <1>3, <1>4

LEMMA OwingFinite == \A i \in Ids : IsFiniteSet(Owing(i)) /\ IsFiniteSet(Owing(i)')
<1> TAKE i \in Ids
<1>1. Owing(i) \subseteq Sandboxes /\ Owing(i)' \subseteq Sandboxes
  BY DEF Owing
<1> QED BY <1>1, ConstantsAssumption, FS_Subset

(* The mounts of an id are those left behind and those somebody owes. *)
LEMMA MountBoundStep == TypeOK /\ Progress /\ MountBound /\ [Next]_vars => MountBound'
<1> SUFFICES ASSUME TypeOK, Progress, MountBound, [Next]_vars PROVE MountBound'
  OBVIOUS
<1> USE ConstantsAssumption DEF kernelVars
<1> DEFINE more == {"spawn", "cgroup", "addprocess", "limits", "register", "watch",
                    "kill", "unmount"}
<1>0. \A i \in Ids : mounts[i] \in Nat /\ left[i] \in Nat
  BY DEF TypeOK
<1>a. ASSUME left' = left, \A i \in Ids : mounts'[i] <= mounts[i],
             mounts' \in [Ids -> Nat],
             \A y \in Sandboxes : Owes(y) => Owes(y)'
      PROVE  MountBound'
  <2> SUFFICES ASSUME NEW i \in Ids PROVE MountBoundOf(i)'
    BY DEF MountBound
  <2>1. Owing(i) \subseteq Owing(i)'
    BY <1>a DEF Owing
  <2>2. Cardinality(Owing(i)) <= Cardinality(Owing(i)')
    BY <2>1, OwingFinite, Counting
  <2>3. Cardinality(Owing(i)) \in Nat /\ Cardinality(Owing(i)') \in Nat
    BY OwingFinite, Counting
  <2>4. mounts[i] <= left[i] + Cardinality(Owing(i)) /\ mounts'[i] \in Nat
    BY <1>a DEF MountBound, MountBoundOf
  <2> QED BY <1>0, <1>a, <2>2, <2>3, <2>4 DEF MountBoundOf
<1>1. ASSUME NEW x \in Sandboxes,
             DeployRequest(x) \/ Spawn(x) \/ CreateCgroup(x) \/ AddProcess(x) \/ SetLimits(x)
      PROVE  MountBound'
  <2>1. mounts' = mounts
    BY <1>1 DEF DeployRequest, Spawn, CreateCgroup, AddProcess, SetLimits
  <2>2. pc[Deploy(x)] \in more => pc'[Deploy(x)] \in more
    BY <1>1, GotoDeploy DEF DeployRequest, Spawn, CreateCgroup, AddProcess, SetLimits, Fail
  <2>3. ASSUME NEW y \in Sandboxes, Owes(y) PROVE Owes(y)'
    BY <1>1, <2>2, <2>3, BeforeStore DEF Owes
  <2>4. mounts' \in [Ids -> Nat] /\ \A i \in Ids : mounts'[i] <= mounts[i]
    BY <1>0, <2>1 DEF TypeOK
  <2> QED BY <1>1, <1>a, <2>3, <2>4, BeforeStore
<1>2. ASSUME NEW x \in Sandboxes, MountOverlay(x) PROVE MountBound'
  <2>1. left' = left /\ \A y \in Sandboxes : Owes(y) => Owes(y)'
    BY <1>2, BeforeStore DEF MountOverlay, Owes
  <2>2. CASE mounts' = mounts
    <3>1. mounts' \in [Ids -> Nat] /\ \A i \in Ids : mounts'[i] <= mounts[i]
      BY <1>0, <2>2 DEF TypeOK
    <3> QED BY <1>a, <2>1, <3>1
  <2>3. CASE Goto(Deploy(x), "spawn") /\ mounts' = [mounts EXCEPT ![IdOf[x]] = @ + 1]
    <3> SUFFICES ASSUME NEW i \in Ids PROVE MountBoundOf(i)'
      BY DEF MountBound
    <3>1. Cardinality(Owing(i)) \in Nat /\ Cardinality(Owing(i)') \in Nat
      BY OwingFinite, Counting
    <3>2. Owing(i) \subseteq Owing(i)'
      BY <2>1 DEF Owing
    <3>3. mounts[i] <= left[i] + Cardinality(Owing(i))
      BY DEF MountBound, MountBoundOf
    <3>4. CASE i = IdOf[x]
      <4>1. pc[Waiter(x)] = "none" /\ pc[Deploy(x)] = "mount"
        BY <1>2 DEF MountOverlay, Progress, ProgressOf
      <4>2. x \in Owing(i)' /\ x \notin Owing(i)
        BY <2>3, <3>4, <4>1, GotoDeploy DEF Owing, Owes
      <4>3. Cardinality(Owing(i)) + 1 <= Cardinality(Owing(i)')
        BY <3>2, <4>2, OwingFinite, Counting
      <4>4. mounts'[i] = mounts[i] + 1
        BY <2>3, <3>4 DEF TypeOK
      <4> QED BY <1>0, <2>1, <3>1, <3>3, <4>3, <4>4 DEF MountBoundOf
    <3>5. CASE i # IdOf[x]
      <4>1. mounts'[i] = mounts[i]
        BY <2>3, <3>5 DEF TypeOK
      <4>2. Cardinality(Owing(i)) <= Cardinality(Owing(i)')
        BY <3>2, OwingFinite, Counting
      <4> QED BY <1>0, <2>1, <3>1, <3>3, <4>1, <4>2 DEF MountBoundOf
    <3> QED BY <3>4, <3>5
  <2> QED BY <1>2, <2>2, <2>3 DEF MountOverlay
<1>3. ASSUME NEW x \in Sandboxes, Register(x) \/ Watch(x) \/ WaitStep(x) \/ Exit(x)
      PROVE  MountBound'
  <2>1. mounts' = mounts /\ left' = left
    BY <1>3 DEF Register, Watch, WaitStep, Reap, DeleteEntry, Exit
  <2>2. CASE Register(x)
    BY <1>a, <2>1, <2>2, GotoDeploy DEF Register, Owes, TypeOK
  <2>3. CASE Watch(x)
    <3>1. /\ pc'[Waiter(x)] = "wait"
          /\ \A y \in Sandboxes : y # x => /\ pc'[Deploy(y)] = pc[Deploy(y)]
                                        /\ pc'[Waiter(y)] = pc[Waiter(y)]
      BY <2>3, GoroutineNames DEF Watch, TypeOK
    <3> QED BY <1>a, <2>1, <3>1 DEF Owes, TypeOK
  <2>4. CASE WaitStep(x)
    <3>1. pc'[Waiter(x)] \in {"delete", "kill"}
      BY <2>4, GotoWaiter DEF WaitStep, Reap, DeleteEntry
    <3>2. /\ \A y \in Sandboxes : y # x => pc'[Waiter(y)] = pc[Waiter(y)]
          /\ \A y \in Sandboxes : pc'[Deploy(y)] = pc[Deploy(y)]
      BY <2>4, GotoWaiter DEF WaitStep, Reap, DeleteEntry
    <3> QED BY <1>a, <2>1, <3>1, <3>2 DEF Owes, TypeOK
  <2>5. CASE Exit(x)
    BY <1>a, <2>1, <2>5 DEF Exit, Owes, TypeOK
  <2> QED BY <1>3, <2>2, <2>3, <2>4, <2>5
<1>4. ASSUME NEW k \in Stops, StopRequest(k) PROVE MountBound'
  BY <1>4, <1>a, GotoStopper DEF StopRequest, Owes, TypeOK
<1>5. ASSUME NEW g \in Goroutines, Kill(g) PROVE MountBound'
  <2>1. ASSUME NEW y \in Sandboxes, Owes(y) PROVE Owes(y)'
    <3>1. \A h \in Goroutines : pc'[h] = IF h = g THEN "unmount" ELSE pc[h]
      BY <1>5 DEF Kill, Goto, TypeOK
    <3> QED BY <2>1, <3>1, GoroutineNames DEF Owes
  <2> QED BY <1>5, <1>a, <2>1 DEF Kill, TypeOK
<1>6. ASSUME NEW g \in Goroutines, RemoveCgroup(g) PROVE MountBound'
  <2>1. ASSUME NEW y \in Sandboxes, Owes(y) PROVE Owes(y)'
    <3>1. \A h \in Goroutines : pc'[h] = pc[h] \/ pc[h] = "rmcgroup"
      BY <1>6 DEF RemoveCgroup, Goto, TypeOK
    <3>2. pc[Deploy(y)] \in more => pc'[Deploy(y)] = pc[Deploy(y)]
      BY <3>1, GoroutineNames
    <3>3. pc[Waiter(y)] \in {"wait", "delete", "kill", "unmount"}
            => pc'[Waiter(y)] = pc[Waiter(y)]
      BY <3>1, GoroutineNames
    <3> QED BY <2>1, <3>2, <3>3 DEF Owes
  <2> QED BY <1>6, <1>a, <2>1 DEF RemoveCgroup, TypeOK
<1>7. ASSUME NEW g \in Goroutines, Unmount(g) PROVE MountBound'
  <2> SUFFICES ASSUME NEW i \in Ids PROVE MountBoundOf(i)'
    BY DEF MountBound
  <2>0. /\ Cardinality(Owing(i)) \in Nat /\ Cardinality(Owing(i)') \in Nat
        /\ mounts[i] <= left[i] + Cardinality(Owing(i))
    BY OwingFinite, Counting DEF MountBound, MountBoundOf
  <2>1. /\ mounts'[i] \in Nat /\ left'[i] \in Nat
        /\ i # IdFor(g) => mounts'[i] = mounts[i] /\ left'[i] = left[i]
        /\ \/ mounts'[i] = mounts[i] - 1 /\ left'[i] = left[i]
           \/ mounts'[i] - left'[i] <= 0
           \/ /\ mounts'[i] = mounts[i]
              /\ left'[i] = IF g[1] # "stop" /\ i = IdFor(g) THEN left[i] + 1 ELSE left[i]
    BY <1>7, UnmountEffect
  <2>2. \A h \in Goroutines : h # g => pc'[h] = pc[h]
    BY <1>7 DEF Unmount, Goto, TypeOK
  <2>3. ASSUME NEW x \in Sandboxes, g = Deploy(x) \/ g = Waiter(x) PROVE MountBoundOf(i)'
    <3>1. IdFor(g) = IdOf[x] /\ g[1] # "stop"
      BY <2>3, GoroutineNames DEF IdFor, Deploy, Waiter
    <3>2. \A y \in Sandboxes : y # x /\ Owes(y) => Owes(y)'
      BY <2>2, <2>3, GoroutineNames DEF Owes
    <3>3. CASE i = IdOf[x]
      <4>1. Owing(i) \subseteq Owing(i)' \union {x}
        BY <3>2 DEF Owing
      <4>2. Cardinality(Owing(i)) <= Cardinality(Owing(i)') + 1
        BY <4>1, OwingFinite, Counting
      <4> QED BY <1>0, <2>0, <2>1, <3>1, <3>3, <4>2 DEF MountBoundOf
    <3>4. CASE i # IdOf[x]
      <4>1. Owing(i) \subseteq Owing(i)'
        BY <3>2, <3>4 DEF Owing
      <4>2. Cardinality(Owing(i)) <= Cardinality(Owing(i)')
        BY <4>1, OwingFinite, Counting
      <4> QED BY <1>0, <2>0, <2>1, <3>1, <3>4, <4>2 DEF MountBoundOf
    <3> QED BY <3>3, <3>4
  <2>4. ASSUME NEW k \in Stops, g = Stopper(k) PROVE MountBoundOf(i)'
    <3>0. \A y \in Sandboxes : Deploy(y) # g /\ Waiter(y) # g
      BY <2>4, GoroutineNames
    <3>1. \A y \in Sandboxes : Owes(y) => Owes(y)'
      BY <2>2, <3>0, GoroutineNames DEF Owes
    <3>2. Owing(i) \subseteq Owing(i)'
      BY <3>1 DEF Owing
    <3>3. Cardinality(Owing(i)) <= Cardinality(Owing(i)')
      BY <3>2, OwingFinite, Counting
    <3>4. g[1] = "stop"
      BY <2>4 DEF Stopper
    <3> QED BY <1>0, <2>0, <2>1, <3>3, <3>4 DEF MountBoundOf
  <2>5. \/ \E x \in Sandboxes : g = Deploy(x) \/ g = Waiter(x)
        \/ \E k \in Stops : g = Stopper(k)
    BY GoroutineNames
  <2> QED BY <2>3, <2>4, <2>5
<1>8. CASE AgentCrash
  <2> SUFFICES ASSUME NEW i \in Ids PROVE MountBoundOf(i)'
    BY DEF MountBound
  <2>1. Cardinality(Owing(i)') \in Nat
    BY OwingFinite, Counting
  <2>2. mounts'[i] = mounts[i] /\ left'[i] = mounts[i]
    BY <1>8 DEF AgentCrash
  <2> QED BY <1>0, <2>1, <2>2 DEF MountBoundOf
<1>9. CASE CleanupOrphans
  BY <1>9, <1>a DEF CleanupOrphans, Owes, TypeOK
<1>10. CASE UNCHANGED vars
  BY <1>10, <1>a DEF vars, Owes, TypeOK
<1> QED BY <1>1, <1>2, <1>3, <1>4, <1>5, <1>6, <1>7, <1>8, <1>9, <1>10
        DEF Next, DeployStep, StopStep

-----------------------------------------------------------------------------
LEMMA InitIInv == Init => IInv
<1> SUFFICES ASSUME Init PROVE IInv
  OBVIOUS
<1>1. TypeOK
  BY ConstantsAssumption DEF Init, TypeOK, Locations
<1>2. \A x \in Sandboxes : pc[Deploy(x)] = "new" /\ pc[Waiter(x)] = "none"
  BY GoroutineNames DEF Init, Deploy, Waiter
<1>3. Progress
  BY <1>2 DEF Init, Progress, ProgressOf, Live, BeforeSpawn, Created, InCgroup, Rollback
<1>4. Tracked /\ Kept
  BY DEF Init, Tracked, TrackedOf, Kept
<1>5. MountBound
  <2> SUFFICES ASSUME NEW i \in Ids PROVE MountBoundOf(i)
    BY DEF MountBound
  <2>1. Cardinality(Owing(i)) \in Nat
    BY OwingFinite, Counting
  <2> QED BY <2>1 DEF Init, MountBoundOf
<1> QED BY <1>1, <1>3, <1>4, <1>5 DEF IInv

LEMMA IInvStep == IInv /\ [Next]_vars => IInv'
  BY TypeStep, ProgressStep, TrackedStep, MountBoundStep, KeptStep DEF IInv

THEOREM Invariance == Spec => []IInv
  BY InitIInv, IInvStep, PTL DEF Spec

(* The variables keep their types. *)
THEOREM TypeCorrect == Spec => []TypeOK
<1>1. IInv => TypeOK
  BY DEF IInv
<1> QED BY <1>1, Invariance, PTL

(* When all deployments of an id are over and cleaned up after, no mount   *)
(* is left but those umount(2) refused to take and those a crashed agent   *)
(* left: no error path and no interleaving of Stops loses another.         *)
THEOREM MountsReleased == Spec => []NoMountLeak
<1>1. IInv => NoMountLeak
  <2> SUFFICES ASSUME IInv, NEW i \in Ids, Owing(i) = {} PROVE mounts[i] <= left[i]
    BY DEF NoMountLeak
  <2>1. Cardinality(Owing(i)) = 0
    BY FS_EmptySet
  <2>2. mounts[i] <= left[i] + Cardinality(Owing(i)) /\ left[i] \in Nat
    BY DEF IInv, MountBound, MountBoundOf, TypeOK
  <2> QED BY <2>1, <2>2
<1> QED BY <1>1, Invariance, PTL

(* The registry keeps no sandbox that has been cleaned up after. *)
THEOREM TrackedIsAlive == Spec => []NoDeadSandboxTracked
<1>1. IInv => NoDeadSandboxTracked
  BY DEF IInv, Tracked, TrackedOf, NoDeadSandboxTracked
<1> QED BY <1>1, Invariance, PTL

(* A registered sandbox that runs is in its cgroup, which exists. *)
THEOREM Confinement == Spec => []RegisteredIsConfined
<1>1. IInv => RegisteredIsConfined
  BY DEF IInv, TypeOK, Tracked, TrackedOf, Progress, ProgressOf, InCgroup,
         RegisteredIsConfined
<1> QED BY <1>1, Invariance, PTL

(* A cgroup is left over only by a process nobody waited for. *)
THEOREM CgroupsReleased == Spec => []OnlyStraysKeepCgroup
<1>1. IInv => OnlyStraysKeepCgroup
  BY DEF IInv, Kept, Keeps, Created, InStop, OnlyStraysKeepCgroup, Busy
<1> QED BY <1>1, Invariance, PTL

=============================================================================
