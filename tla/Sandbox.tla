-------------------------------- MODULE Sandbox --------------------------------
(***************************************************************************)
(* yma-sandbox.  SandboxRuntime::spawn runs a WASM module beside a task    *)
(* that samples the memory every 100ms, and joins that task before it      *)
(* returns.  The task owns both ends of the shutdown channel and looks at  *)
(* a copy of the monitor taken when it started, which nothing updates:     *)
(* SamplerEnds and SpawnReturns, translated as they stand, are actions     *)
(* that no behaviour ever takes, and a spawn that got past the compiler    *)
(* never returns.                                                          *)
(*                                                                         *)
(* ResourceMonitor also stands by itself, its counters being atomics that  *)
(* any thread may update: update_memory loads the peak and then stores.    *)
(***************************************************************************)
EXTENDS Naturals, FiniteSets

CONSTANTS
  Spawns,                 (* calls of spawn                                *)
  MemorySizes,            (* MB a module's memory can grow to, or a caller *)
                          (* of update_memory reports                      *)
  MaxMemoryMb,            (* the quota's max_memory_mb                     *)
  Reporters               (* threads that share one ResourceMonitor        *)

ASSUME QuotaAssumption == MaxMemoryMb \in Nat /\ MemorySizes \subseteq Nat

VARIABLES
  spawn,                  (* spawn[s]: [at, result]                        *)
  sampler,                (* the memory task of s: its state and its copy  *)
                          (* of the peak                                   *)
  peak,                   (* peak_memory_mb of the shared monitor          *)
  report,                 (* report[r]: an update_memory in progress       *)
  reported,               (* history: the sizes reported so far            *)
  collided                (* history: two updates ran at the same time     *)

sandboxVars == <<spawn, sampler, peak, report, reported, collided>>

NoReport == [mb |-> 0, seen |-> 0, on |-> FALSE]

SandboxInit ==
  /\ spawn = [s \in Spawns |-> [at |-> "none", result |-> "none"]]
  /\ sampler = [s \in Spawns |-> [on |-> FALSE, peak |-> 0]]
  /\ peak = 0
  /\ report = [r \in Reporters |-> NoReport]
  /\ reported = {}
  /\ collided = FALSE

WithinMemory(mb) == mb <= MaxMemoryMb

\* Compilation and instantiation come before the task and return their error.
SpawnRefused(s) ==
  /\ spawn[s].at = "none"
  /\ spawn' = [spawn EXCEPT ![s] = [at |-> "returned", result |-> "Refused"]]
  /\ UNCHANGED <<sampler, peak, report, reported, collided>>

SpawnStarts(s) ==
  /\ spawn[s].at = "none"
  /\ spawn' = [spawn EXCEPT ![s].at = "running"]
  /\ sampler' = [sampler EXCEPT ![s] = [on |-> TRUE, peak |-> 0]]
  /\ UNCHANGED <<peak, report, reported, collided>>

\* The function ends, fails or is cut off by the timeout (or there is none to
\* call); then the size of the memory, which overrides what it returned.
ModuleEnds(s) ==
  /\ spawn[s].at = "running"
  /\ \E outcome \in {"Ok", "RuntimeError", "ExecutionTimeout"}, mb \in MemorySizes :
       spawn' = [spawn EXCEPT ![s] =
         [at |-> "joining",
          result |-> IF WithinMemory(mb) THEN outcome ELSE "MemoryQuotaExceeded"]]
  /\ UNCHANGED <<sampler, peak, report, reported, collided>>

\* A sample over the quota ends the task; the others change nothing.
SamplerEnds(s) ==
  /\ sampler[s].on
  /\ ~WithinMemory(sampler[s].peak)
  /\ sampler' = [sampler EXCEPT ![s].on = FALSE]
  /\ UNCHANGED <<spawn, peak, report, reported, collided>>

SpawnReturns(s) ==
  /\ spawn[s].at = "joining"
  /\ ~sampler[s].on
  /\ spawn' = [spawn EXCEPT ![s].at = "returned"]
  /\ UNCHANGED <<sampler, peak, report, reported, collided>>

-----------------------------------------------------------------------------
(***************************************************************************)
(* ResourceMonitor::update_memory.                                         *)
(***************************************************************************)
UpdateBegin(r, mb) ==
  /\ ~report[r].on
  /\ report' = [report EXCEPT ![r] = [mb |-> mb, seen |-> peak, on |-> TRUE]]
  /\ collided' = (collided \/ \E o \in Reporters : report[o].on)
  /\ UNCHANGED <<spawn, sampler, peak, reported>>

\* Mutant of NewPeak: the last size is kept.
LastSize(mb, seen) == mb

NewPeak(mb, seen) == IF mb > seen THEN mb ELSE peak

UpdateFinish(r) ==
  /\ report[r].on
  /\ peak' = NewPeak(report[r].mb, report[r].seen)
  /\ reported' = reported \cup {report[r].mb}
  /\ report' = [report EXCEPT ![r] = NoReport]
  /\ UNCHANGED <<spawn, sampler, collided>>

SandboxNext ==
  \/ \E s \in Spawns : \/ SpawnRefused(s)
                       \/ SpawnStarts(s)
                       \/ ModuleEnds(s)
                       \/ SamplerEnds(s)
                       \/ SpawnReturns(s)
  \/ \E r \in Reporters : UpdateFinish(r) \/ \E mb \in MemorySizes : UpdateBegin(r, mb)

SandboxSpec == SandboxInit /\ [][SandboxNext]_sandboxVars

-----------------------------------------------------------------------------
SandboxTypeOK ==
  /\ spawn \in [Spawns -> [at : {"none", "running", "joining", "returned"},
                           result : {"none", "Refused", "Ok", "RuntimeError",
                                     "ExecutionTimeout", "MemoryQuotaExceeded"}]]
  /\ sampler \in [Spawns -> [on : BOOLEAN, peak : Nat]]
  /\ peak \in MemorySizes \cup {0}
  /\ report \in [Reporters -> [mb : Nat, seen : Nat, on : BOOLEAN]]
  /\ reported \subseteq MemorySizes
  /\ collided \in BOOLEAN

\* The peak is the largest size reported, as long as no two updates ran at the
\* same time: two that do can leave the smaller one.  It is never a size that
\* nobody reported.
PeakIsLargest ==
  /\ peak \in reported \cup {0}
  /\ ~collided => \A mb \in reported : mb <= peak

(***************************************************************************)
(* What the proof in ServiceProofs needs: without a collision there is one *)
(* update at a time, and the peak it has loaded is still the peak.         *)
(***************************************************************************)
LoadedIsCurrent ==
  ~collided => \A r \in Reporters : report[r].on =>
    /\ report[r].seen = peak
    /\ \A o \in Reporters : report[o].on => o = r

SizesAreReal == \A r \in Reporters : report[r].on => report[r].mb \in MemorySizes

SandboxInv == SandboxTypeOK /\ PeakIsLargest /\ LoadedIsCurrent /\ SizesAreReal
=============================================================================
