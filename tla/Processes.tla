----------------------------- MODULE Processes -----------------------------
(***************************************************************************)
(* Processes, process.c, on the heap of KHeap: process_create takes two    *)
(* blocks, one for process_t and one, in vmm_create_page_directory, for    *)
(* the directory, each with the whole search of kmalloc; process_destroy   *)
(* gives both back.  Between these calls the kernel uses the heap for      *)
(* texts, as kmain does, of any size.  What a directory says is in VMM.    *)
(***************************************************************************)
EXTENDS KHeap

CONSTANTS
  PROCESS,     \* sizeof(process_t)          (16)
  DIRECTORY    \* sizeof(page_directory_t)   (4096)

ASSUME ProcessSizes == {PROCESS, DIRECTORY} \subseteq Sizes

VARIABLES
  procs,   \* processes, by their pointers -> page_directory
  texts,   \* pointers the kernel holds for itself
  call,    \* the call that is running, and how far it is
  proc     \* the local variable "process"

processVars == <<procs, texts, call, proc>>
allVars == <<vars, processVars>>

ProcessInit ==
  /\ Init
  /\ procs = [p \in {} |-> 0] /\ texts = {}
  /\ call = "none" /\ proc = 0

\* The pointer kmalloc returns when its search ends at current.
Found == current + HDR

WithProcess(directory) ==
  [p \in DOMAIN procs \cup {proc} |-> IF p = proc THEN directory ELSE procs[p]]

----------------------------------------------------------------------------
(* process_create *)

process_create ==
  /\ call = "none"
  /\ kmalloc(PROCESS)
  /\ call' = "process"
  /\ UNCHANGED <<procs, texts, proc>>

GotProcess ==
  /\ call = "process"
  /\ kmalloc_take
  /\ proc' = Found
  /\ call' = "space"
  /\ UNCHANGED <<procs, texts>>

\* 0 is returned.
NoProcess ==
  /\ call = "process"
  /\ kmalloc_fail
  /\ call' = "none"
  /\ UNCHANGED <<procs, texts, proc>>

vmm_create_page_directory ==
  /\ call = "space"
  /\ kmalloc(DIRECTORY)
  /\ call' = "directory"
  /\ UNCHANGED <<procs, texts, proc>>

GotDirectory ==
  /\ call = "directory"
  /\ kmalloc_take
  /\ procs' = WithProcess(Found)
  /\ call' = "none" /\ proc' = 0
  /\ UNCHANGED texts

\* Mutant: no process is returned, and process_t is not given back.
NoDirectoryForgets ==
  /\ call = "directory"
  /\ kmalloc_fail
  /\ call' = "none" /\ proc' = 0
  /\ UNCHANGED <<procs, texts>>

\* The result is not looked at: the process has the directory 0.
NoDirectory ==
  /\ call = "directory"
  /\ kmalloc_fail
  /\ procs' = WithProcess(0)
  /\ call' = "none" /\ proc' = 0
  /\ UNCHANGED texts

----------------------------------------------------------------------------
(* process_destroy *)

Forget(p) ==
  /\ procs' = [q \in DOMAIN procs \ {p} |-> procs[q]]
  /\ proc' = p
  /\ UNCHANGED texts

process_destroy(p) ==
  /\ call = "none"
  /\ procs[p] # 0
  /\ kfree(procs[p])
  /\ call' = "free_directory"
  /\ Forget(p)

\* vmm_destroy_page_directory(0) does nothing.
process_destroy_spaceless(p) ==
  /\ call = "none"
  /\ procs[p] = 0
  /\ kfree(p)
  /\ call' = "free_process"
  /\ Forget(p)

FreeProcess ==
  /\ call = "free_directory"
  /\ kfree(proc)
  /\ call' = "free_process"
  /\ UNCHANGED <<procs, texts, proc>>

----------------------------------------------------------------------------
(* The kernel's own texts *)

AskText(n) ==
  /\ call = "none"
  /\ kmalloc(n)
  /\ call' = "text"
  /\ UNCHANGED <<procs, texts, proc>>

GotText ==
  /\ call = "text"
  /\ kmalloc_take
  /\ texts' = texts \cup {Found}
  /\ call' = "none"
  /\ UNCHANGED <<procs, proc>>

NoText ==
  /\ call = "text"
  /\ kmalloc_fail
  /\ call' = "none"
  /\ UNCHANGED <<procs, texts, proc>>

FreeText(t) ==
  /\ call = "none"
  /\ kfree(t)
  /\ texts' = texts \ {t}
  /\ call' = "free_text"
  /\ UNCHANGED <<procs, proc>>

----------------------------------------------------------------------------
Loop == (kmalloc_next \/ kfree_merge \/ kfree_next) /\ UNCHANGED processVars

\* process_destroy goes on when its first kfree is done.
Freed ==
  /\ kfree_done
  /\ call' = IF call = "free_directory" THEN call ELSE "none"
  /\ proc' = IF call = "free_directory" THEN proc ELSE 0
  /\ UNCHANGED <<procs, texts>>

Running ==
  \/ Loop \/ Freed
  \/ GotProcess \/ NoProcess
  \/ vmm_create_page_directory \/ GotDirectory \/ NoDirectory
  \/ FreeProcess
  \/ GotText \/ NoText

ProcessNext ==
  \/ Running
  \/ process_create
  \/ \E p \in DOMAIN procs : process_destroy(p) \/ process_destroy_spaceless(p)
  \/ \E n \in Sizes : AskText(n)
  \/ \E t \in texts : FreeText(t)

ProcessSpec == ProcessInit /\ [][ProcessNext]_allVars
FairProcessSpec == ProcessSpec /\ WF_allVars(Running)

----------------------------------------------------------------------------
Spaces == {procs[p] : p \in DOMAIN procs} \ {0}

\* The block a call in its middle holds.
InHand == IF call \in {"space", "directory", "free_directory"} THEN {proc} ELSE {}

\* The blocks of the heap in use are those of the processes, of their spaces
\* and of the kernel, at every step of every call: none is in two hands, none
\* leaks when an allocation in the middle fails, and each has the size of its use.
EveryBlockHasItsOwner ==
  /\ DOMAIN live = DOMAIN procs \cup Spaces \cup texts \cup InHand
  /\ DOMAIN procs \cap Spaces = {}
  /\ texts \cap (DOMAIN procs \cup Spaces) = {}
  /\ InHand \cap (DOMAIN procs \cup Spaces \cup texts) = {}
  /\ \A p, q \in DOMAIN procs : procs[p] = procs[q] /\ procs[p] # 0 => p = q
  /\ \A p \in DOMAIN procs \cup InHand : live[p] = PROCESS
  /\ \A d \in Spaces : live[d] = DIRECTORY

\* kmalloc, kfree, process_create and process_destroy return.
CallsReturn == call # "none" ~> call = "none"
============================================================================
