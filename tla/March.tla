-------------------------------- MODULE March --------------------------------
(***************************************************************************)
(* marchc as a whole: the compiler fills the blob table, runner_execute    *)
(* asks the loader for the compiled word, and the virtual machine runs     *)
(* what the loader has put in memory.  The three share the blob table      *)
(* (compiler and loader) and the memory (loader and machine); everything   *)
(* but the table is lost when the process dies.                            *)
(***************************************************************************)
EXTENDS Compiler

CONSTANTS
  JunkWords,  \* see Loader
  WordBits,   \* see VM
  MaxData,    \* see VM
  MaxReturn,  \* see VM
  MapHash,    \* see VM
  MaxRuns     \* bound: calls of runner_execute

VARIABLES
  cache, heap, links,      \* see Loader
  vm, entry, ip, ds, rs, nodes,  \* see VM
  program,                 \* history: the source file the process has read
  given,                   \* history: the data stack at the start of the run
  runs                     \* calls of runner_execute so far

L == INSTANCE Loader WITH rows <- blobs
V == INSTANCE VM

(* A word has room for the two bits of the tag and a sign; every number    *)
(* has a hash, of the same length, though maybe not one of its own.        *)
ASSUME MachineAssumption ==
  /\ WordBits \in Nat /\ WordBits > 2 /\ MaxData \in Nat /\ MaxReturn \in Nat
  /\ MaxRuns \in Nat /\ JunkWords \subseteq Int
  /\ MapHash \in [0..V!PowerOfTwo[WordBits] - 1 -> Seq(0..31) \ {<<>>}]
  /\ \A k \in DOMAIN MapHash : Len(MapHash[k]) = Len(MapHash[0])

memory  == <<cache, links>>
machine == <<vm, entry, ip, ds, rs, nodes>>
history == <<program, given, runs>>
allVars == <<vars, memory, heap, machine, history>>

MarchInit ==
  /\ Init
  /\ L!LoaderInit
  /\ V!VMInit
  /\ program = src /\ given = <<>> /\ runs = 0

(* The compiler, up to the call of loader_link_cid. *)
Compile ==
  /\ ReadSource \/ CompileStep
  /\ UNCHANGED <<memory, heap, machine, history>>

Execute ==
  /\ runs < MaxRuns
  /\ RunnerExecute
  /\ runs' = runs + 1
  /\ UNCHANGED <<memory, heap, machine, program, given>>

(* loader_link_cid for the word itself, and the steps of its recursion.    *)
Linking == phase = "link" /\ vm = "idle"
Asked == dict[target].cid

LinkWord ==
  /\ Linking
  /\ links = <<>>
  /\ ~L!Linked(Asked)
  /\ L!LinkCid(Asked, links)
  /\ UNCHANGED <<vars, machine, history>>

LinkItem ==
  /\ Linking
  /\ L!LinkStep
  /\ UNCHANGED <<vars, machine, history>>

LinkError ==
  /\ Linking
  /\ L!LinkFail
  /\ Fail
  /\ UNCHANGED <<heap, machine, history>>

(* The word is in the cache: vm_run. *)
StartRun ==
  /\ Linking
  /\ links = <<>>
  /\ L!Linked(Asked)
  /\ V!VMRun(cache[Asked])
  /\ given' = ds
  /\ UNCHANGED <<vars, memory, program, runs>>

MachineStep ==
  /\ V!VMStep
  /\ UNCHANGED <<vars, memory, history>>

(* vm_run returns, and runner_execute with it. *)
FinishExecute ==
  /\ V!Halt
  /\ phase' = "ready"
  /\ UNCHANGED <<sourceVars, quotStack, compileVars, restarts, memory, history>>

(* The process dies: its memory is gone. *)
NewProcess ==
  /\ Restart
  /\ cache' = L!NoCache /\ heap' = <<>> /\ links' = <<>>
  /\ vm' = "idle" /\ entry' = 0 /\ ip' = [obj |-> 0, pos |-> 1] /\ ds' = <<>> /\ rs' = <<>>
  /\ nodes' = <<>>
  /\ program' = src' /\ given' = <<>> /\ runs' = 0

Running == LinkWord \/ LinkItem \/ LinkError \/ StartRun \/ MachineStep \/ FinishExecute

MarchNext == Compile \/ Execute \/ Running \/ NewProcess

(* One thread: a word that is linked and run goes on to the end of the     *)
(* run.  That the compiler goes on is the fairness of Compiler!Spec.       *)
MarchSpec == MarchInit /\ [][MarchNext]_allVars /\ WF_allVars(Running)

-----------------------------------------------------------------------------
(* Properties. *)

(* The state of the loader and the machine keeps its type. *)
MachineTypeOK ==
  /\ L!LoaderTypeOK
  /\ vm \in {"idle", "running", "fault"}
  /\ ds \in Seq(V!Values) /\ rs \in Seq(V!Values)
  /\ ip \in [obj : 0..Len(heap), pos : Nat]

(* What is in the CID cache is the complete linked form of its row, with   *)
(* every reference relocated to the linked form of what it refers to; at   *)
(* all times, from one run to the next and after a failed link.            *)
CacheFaithful == L!CacheFaithful

(* Each row is linked once, and never inside itself. *)
LinkedOnce == L!LinkedOnce

(* Whatever is called comes to an end, once it is linked: loops included.  *)
RunEnds == vm = "running" ~> vm # "running"
=============================================================================
