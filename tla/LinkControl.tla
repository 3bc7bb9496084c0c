---------------------------- MODULE LinkControl ----------------------------
(***************************************************************************)
(* What a program does to an open link besides sending and receiving: its  *)
(* context (nis_setctx and its readers, mxx.c), its protocol template      *)
(* (tcp_settst, and tcp_settst_r below nis_cntl), tcp_awaken, the requests *)
(* of an ARP link (arp.c), and the end of the link, which frees the        *)
(* context.  Of the calls on the template the references are followed, not *)
(* what they write.                                                        *)
(*                                                                         *)
(* No lock protects the context, and every call may begin while others     *)
(* run; `raced' records that a call wrote the context while another one    *)
(* wrote or read it.  Freeing memory twice, writing memory that is not     *)
(* there and writing behind the end of a block leave the heap undefined:   *)
(* recorded in `corrupt'.  The flags of attr, the options of the socket,   *)
(* the pointer of NI_SETCTX and what a program does with the address it    *)
(* got from nis_refctx are not followed.                                   *)
(***************************************************************************)
EXTENDS Integers, FiniteSets

CONSTANTS Callers,     \* threads of the program
          Contexts,    \* contexts: records with a size and data
          MaxLeaks,    \* bound: calls that keep their reference
          None         \* no context

ASSUME LinkControlAssumption ==
  /\ IsFiniteSet(Callers)
  /\ \A x \in Contexts : x.size \in Nat \ {0}
  /\ None \notin Contexts
  /\ MaxLeaks \in Nat

\* The steps that write the context.
CtxSteps == {"setctx", "malloc"}

VARIABLES
  proto,      \* proto_type: "TCP" or "IP"
  stat,       \* of the object: "normal", "closewait", "unloaded"
  refs,
  leaked,     \* history: references nobody will drop
  pipe,       \* pipe packets queued at the port
  ncb_ctx_,   \* what it points to: "NULL", "live", "freed"
  size,       \* ncb_ctx_size_
  data,       \* what the block holds
  last,       \* history: the context of the last nis_setctx
  oom,        \* history: that call found no memory
  corrupt,    \* history: freed memory was freed again or written
  stale,      \* history: a whole heap, and freed memory was read
  pc, arg,    \* of each caller
  raced       \* history: a writer of the context overlapped another call on it

objvars == <<proto, stat, refs, leaked, pipe>>
ctxvars == <<ncb_ctx_, size, data, last, oom, corrupt, stale>>
callvars == <<pc, arg, raced>>
vars == <<objvars, ctxvars, callvars>>

\* An open link, as tcp_create or arp_create leaves it.
Init ==
  /\ proto \in {"TCP", "IP"}
  /\ stat = "normal" /\ refs = 0 /\ leaked = 0 /\ pipe = 0
  /\ ncb_ctx_ = "NULL" /\ size = 0 /\ data = None
  /\ last = None /\ oom = FALSE /\ corrupt = FALSE /\ stale = FALSE
  /\ pc = [c \in Callers |-> "idle"] /\ arg = [c \in Callers |-> None]
  /\ raced = FALSE

Goto(c, step) == pc' = [pc EXCEPT ![c] = step] /\ UNCHANGED <<arg, raced>>

\* The calls on the context that one at `step' gets in the way of.
Rivals(step) ==
  LET rivals == CASE step = "setctx" -> CtxSteps \cup {"getctx"}
                  [] step = "getctx" -> CtxSteps
                  [] OTHER -> {}
  IN  {d \in Callers : pc[d] \in rivals}

\* A call enters a step with an argument, whoever else is inside.
Enter(c, step, x) ==
  /\ pc' = [pc EXCEPT ![c] = step]
  /\ arg' = [arg EXCEPT ![c] = x]
  /\ raced' = (raced \/ Rivals(step) # {})

-----------------------------------------------------------------------------
(* The object and its references                                           *)

\* if (ncb_ctx_) free(ncb_ctx_)
Free ==
  /\ ncb_ctx_' = IF ncb_ctx_ = "NULL" THEN "NULL" ELSE "freed"
  /\ corrupt' = (corrupt \/ ncb_ctx_ = "freed")

\* tcp_unload, udp_unload and arp_unload free the context alike.
unload ==
  /\ IF size # 0 THEN Free ELSE UNCHANGED <<ncb_ctx_, corrupt>>
  /\ UNCHANGED <<size, data, last, oom, stale>>

\* The last reference to a closing object unloads it (external: object.h).
objdefr ==
  /\ refs' = refs - 1
  /\ IF stat = "closewait" /\ refs' = 0
     THEN stat' = "unloaded" /\ unload
     ELSE UNCHANGED <<stat, ctxvars>>
  /\ UNCHANGED <<proto, leaked, pipe>>

objrefr == stat = "normal" /\ refs' = refs + 1 /\ UNCHANGED <<proto, stat, leaked, pipe>>

\* A call references the open link, then goes on at `step' with x.
Call(c, step, x) ==
  /\ pc[c] = "idle"
  /\ objrefr
  /\ Enter(c, step, x)
  /\ UNCHANGED ctxvars

\* A reference is dropped: that of a nested call, then that of the call.
Return(c) ==
  /\ pc[c] \in {"nested", "return"}
  /\ objdefr
  /\ pc' = [pc EXCEPT ![c] = IF @ = "nested" THEN "return" ELSE "idle"]
  /\ arg' = [arg EXCEPT ![c] = None]
  /\ UNCHANGED raced

\* Mutant of arp_destroy: the reference of objreff is kept.
DestroyReferenced(c) ==
  /\ pc[c] = "idle"
  /\ stat = "normal" /\ stat' = "closewait" /\ refs' = refs + 1
  /\ UNCHANGED <<proto, leaked, pipe, ctxvars, callvars>>

\* objreff, ioclose and objdefr: arp_destroy, like tcp_destroy and udp_destroy.
arp_destroy(c) ==
  /\ pc[c] = "idle"
  /\ stat = "normal" /\ stat' = "closewait" /\ refs' = refs + 1
  /\ Goto(c, "return")
  /\ UNCHANGED <<proto, leaked, pipe, ctxvars>>

\* No path of tcp_awaken drops the reference, whether a packet is queued or not.
tcp_awaken(c) ==
  /\ pc[c] = "idle"
  /\ stat = "normal"
  /\ leaked < MaxLeaks
  /\ refs' = refs + 1 /\ leaked' = leaked + 1
  /\ pipe' \in {pipe, pipe + 1}
  /\ UNCHANGED <<proto, stat, ctxvars, callvars>>

\* Nor is the reference for the callback dropped.
so_dispatch_pipe_event ==
  /\ pipe > 0
  /\ pipe' = pipe - 1
  /\ \/ stat = "normal" /\ refs' = refs + 1 /\ leaked' = leaked + 1
     \/ stat # "normal" /\ UNCHANGED <<refs, leaked>>
  /\ UNCHANGED <<proto, stat, ctxvars, callvars>>

-----------------------------------------------------------------------------
(* The context                                                             *)

\* A context, or None to clear.
nis_setctx(c, x) == Call(c, "setctx", x)

SetCtx(c, step) == Goto(c, step) /\ UNCHANGED objvars

\* Mutant of ClearCtx: the size is kept with the pointer.
ClearKeepsSize(c) ==
  /\ pc[c] = "setctx" /\ arg[c] = None
  /\ Free
  /\ last' = None /\ oom' = FALSE
  /\ SetCtx(c, "return")
  /\ UNCHANGED <<size, data, stale>>

\* The memory is freed, the size reset, and the pointer kept.
ClearCtx(c) ==
  /\ pc[c] = "setctx" /\ arg[c] = None
  /\ Free
  /\ size' = 0 /\ last' = None /\ oom' = FALSE
  /\ SetCtx(c, "return")
  /\ UNCHANGED <<data, stale>>

\* Another size: the old block is freed ...
ResizeCtx(c) ==
  /\ pc[c] = "setctx" /\ arg[c] # None /\ arg[c].size # size
  /\ Free
  /\ size' = arg[c].size
  /\ SetCtx(c, "malloc")
  /\ UNCHANGED <<data, last, oom, stale>>

\* ... and a new one allocated and written, or not.  As many bytes are copied as
\* ncb_ctx_size_ says now, which another writer may have changed meanwhile.
AllocateCtx(c) ==
  /\ pc[c] = "malloc"
  /\ last' = arg[c]
  /\ \/ /\ ncb_ctx_' = "live" /\ data' = arg[c] /\ oom' = FALSE
        /\ corrupt' = (corrupt \/ size > arg[c].size)
     \/ oom' = TRUE /\ UNCHANGED <<ncb_ctx_, data, corrupt>>
  /\ SetCtx(c, "return")
  /\ UNCHANGED <<size, stale>>

\* Mutant of CopyCtx: the block of the right size keeps its contents.
CopyNothing(c) ==
  /\ pc[c] = "setctx" /\ arg[c] # None /\ arg[c].size = size
  /\ last' = arg[c]
  /\ SetCtx(c, "return")
  /\ UNCHANGED <<ncb_ctx_, size, data, oom, corrupt, stale>>

\* The same size: the block is written again, also when it is not there.
CopyCtx(c) ==
  /\ pc[c] = "setctx" /\ arg[c] # None /\ arg[c].size = size
  /\ last' = arg[c]
  /\ data' = arg[c]
  /\ corrupt' = (corrupt \/ ncb_ctx_ # "live")
  /\ SetCtx(c, "return")
  /\ UNCHANGED <<ncb_ctx_, size, oom, stale>>

\* The readers copy the context ...
nis_getctx(c) == Call(c, "getctx", None)

GetCtx(c) ==
  /\ pc[c] = "getctx"
  /\ stale' = (stale \/ (~oom /\ ~corrupt /\ ncb_ctx_ = "freed" /\ size # 0))
  /\ Goto(c, "return")
  /\ UNCHANGED <<objvars, ncb_ctx_, size, data, last, oom, corrupt>>

\* ... or hand out its address, or its size.
nis_refctx(c) == Call(c, "return", None)
nis_ctxsize(c) == Call(c, "return", None)

-----------------------------------------------------------------------------
(* The template                                                            *)

\* Its three fields are written, or read, without a lock.
tcp_settst(c) == proto = "TCP" /\ Call(c, "return", None)
tcp_gettst(c) == proto = "TCP" /\ Call(c, "return", None)

nis_cntl(c) == Call(c, "cntl", None)

\* NI_SETTST: another reference, of a TCP link that is still open.  Each field is
\* exchanged, and its old value written back.
tcp_settst_r(c) ==
  /\ pc[c] = "cntl"
  /\ proto = "TCP"
  /\ objrefr
  /\ Goto(c, "nested")
  /\ UNCHANGED ctxvars

\* NI_GETTST
tcp_gettst_r(c) ==
  /\ pc[c] = "cntl"
  /\ proto = "TCP"
  /\ objrefr
  /\ Goto(c, "nested")
  /\ UNCHANGED ctxvars

\* Attributes and pointers, and templates of a link that has none or is closing
CntlReturn(c) ==
  /\ pc[c] = "cntl"
  /\ Goto(c, "return")
  /\ UNCHANGED <<objvars, ctxvars>>

\* The default branch returns without objdefr.
CntlUnknown(c) ==
  /\ pc[c] = "cntl"
  /\ leaked < MaxLeaks
  /\ leaked' = leaked + 1
  /\ Goto(c, "idle")
  /\ UNCHANGED <<proto, stat, refs, pipe, ctxvars>>

tcp_getaddr(c) == proto = "TCP" /\ Call(c, "return", None)
tcp_setopt(c) == proto = "TCP" /\ Call(c, "return", None)
tcp_getopt(c) == proto = "TCP" /\ Call(c, "return", None)

-----------------------------------------------------------------------------
(* ARP                                                                     *)

\* SendARP blocks, then the callback sees the answer.
arp_nrequest(c) == proto = "IP" /\ Call(c, "sendarp", None)

SendARP(c) ==
  /\ pc[c] = "sendarp"
  /\ Goto(c, "return")
  /\ UNCHANGED <<objvars, ctxvars>>

-----------------------------------------------------------------------------

Step(c) ==
  \/ Return(c) \/ ClearCtx(c) \/ ResizeCtx(c) \/ AllocateCtx(c) \/ CopyCtx(c)
  \/ GetCtx(c) \/ SendARP(c) \/ tcp_settst_r(c) \/ tcp_gettst_r(c)
  \/ CntlReturn(c) \/ CntlUnknown(c)

Begin(c) ==
  \/ \E x \in Contexts \cup {None} : nis_setctx(c, x)
  \/ nis_getctx(c) \/ nis_refctx(c) \/ nis_ctxsize(c)
  \/ tcp_settst(c) \/ tcp_gettst(c) \/ tcp_getaddr(c) \/ tcp_setopt(c) \/ tcp_getopt(c)
  \/ nis_cntl(c) \/ tcp_awaken(c) \/ arp_nrequest(c) \/ arp_destroy(c)

Next == so_dispatch_pipe_event \/ \E c \in Callers : Begin(c) \/ Step(c)

Spec == Init /\ [][Next]_vars

\* A thread inside a call goes on.
FairSpec == Spec /\ \A c \in Callers : WF_vars(Step(c))
-----------------------------------------------------------------------------
(* Properties                                                              *)

\* Between its writers the context is that of the last nis_setctx, in memory
\* that is allocated, after any sequence of new sizes, same sizes and
\* clearings, as long as its writers did not overlap, memory was there and the
\* heap is whole.
ContextReadBack ==
  (~raced /\ ~oom /\ ~corrupt /\ stat # "unloaded"
     /\ \A c \in Callers : pc[c] \notin CtxSteps) =>
    IF last = None THEN size = 0
    ELSE ncb_ctx_ = "live" /\ data = last /\ size = last.size

\* nis_getctx, which looks at the pointer and the size only, copies from freed
\* memory at most when a nis_setctx runs at the same time (or when the last
\* nis_setctx found no memory, which is not recorded): clearing leaves the
\* pointer, and the size has to tell the reader; the end of the link frees the
\* context, and the reference of the reader has to keep it away.
NoStaleRead == stale => raced

\* The context does not outlive its link, also when it was cleared or could
\* not be replaced.
NoContextLeak == (~raced /\ ~corrupt /\ stat = "unloaded") => ncb_ctx_ # "live"

\* A closed link is unloaded, unless it was awakened or asked for an unknown
\* command: those calls keep their reference for ever.
ControlEnds ==
  (stat = "closewait" /\ leaked = 0) ~> (stat = "unloaded" \/ leaked > 0)

\* The comment of nis_setctx: a NULL pointer clears the context.  What was
\* cleared is gone: no later call frees it again, while there is memory and the
\* calls do not overlap.
FreedOnce == (~oom /\ ~raced) => ~corrupt
-----------------------------------------------------------------------------
(* The inductive invariant behind the theorems of LinkControlProofs        *)

TypeOK ==
  /\ proto \in {"TCP", "IP"}
  /\ stat \in {"normal", "closewait", "unloaded"}
  /\ refs \in Nat
  /\ leaked \in Nat
  /\ pipe \in Nat
  /\ ncb_ctx_ \in {"NULL", "live", "freed"}
  /\ size \in Nat
  /\ data \in Contexts \cup {None}
  /\ last \in Contexts \cup {None}
  /\ oom \in BOOLEAN
  /\ corrupt \in BOOLEAN
  /\ stale \in BOOLEAN
  /\ pc \in [Callers -> {"idle", "setctx", "malloc", "getctx", "cntl",
                         "nested", "sendarp", "return"}]
  /\ arg \in [Callers -> Contexts \cup {None}]
  /\ raced \in BOOLEAN

\* The calls that hold a reference, and those that hold another one through
\* tcp_settst_r or tcp_gettst_r.
Inside == {c \in Callers : pc[c] # "idle"}
Nested == {c \in Callers : pc[c] = "nested"}

RefsCounted ==
  /\ refs = leaked + Cardinality(Inside) + Cardinality(Nested)
  /\ stat = "unloaded" => refs = 0

\* Who allocates has a context to store.
Carried == \A c \in Callers : pc[c] = "malloc" => arg[c] \in Contexts

\* Unless it raced, a writer of the context is alone with it.
WritersAlone ==
  ~raced => \A c, d \in Callers :
    pc[c] \in CtxSteps /\ pc[d] \in CtxSteps \cup {"getctx"} => c = d

\* The context between its writers, and between free and malloc.
ContextSteps ==
  ~raced =>
    /\ size = 0 => ncb_ctx_ # "live"
    /\ \A c \in Callers :
         pc[c] = "malloc" => ncb_ctx_ # "live" /\ size = arg[c].size
    /\ (~oom /\ ~corrupt /\ stat # "unloaded" /\ \A c \in Callers : pc[c] # "malloc")
         => IF last = None THEN size = 0
            ELSE ncb_ctx_ = "live" /\ data = last /\ size = last.size

ControlInv ==
  /\ TypeOK
  /\ RefsCounted
  /\ Carried
  /\ WritersAlone
  /\ ContextSteps
  /\ NoContextLeak
  /\ NoStaleRead
=============================================================================
