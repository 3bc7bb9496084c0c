------------------------- MODULE LinkControlProofs -------------------------
(***************************************************************************)
(* Theorems about LinkControl, for any finite set of callers, any contexts *)
(* and any number of kept references.  ControlInv is the inductive         *)
(* invariant; each action preserves it by a lemma of its own.              *)
(***************************************************************************)
EXTENDS LinkControl, TLAPS, FiniteSetTheorems

-----------------------------------------------------------------------------
(* Counting references                                                     *)

NestedSteps == {"nested"}
Moves(c, s) == pc' = [pc EXCEPT ![c] = s]

\* The calls can be counted.
LEMMA CallsFinite ==
  /\ IsFiniteSet(Inside) /\ Cardinality(Inside) \in Nat
  /\ IsFiniteSet(Nested) /\ Cardinality(Nested) \in Nat
<1>1. Inside \subseteq Callers /\ Nested \subseteq Callers
  BY DEF Inside, Nested
<1> QED
  BY <1>1, LinkControlAssumption, FS_Subset, FS_CardinalityType

\* A caller that moves enters or leaves the count, or stays.
LEMMA InsideMoves ==
  ASSUME TypeOK, NEW c \in Callers, NEW s, Moves(c, s)
  PROVE  /\ pc[c] = "idle" /\ s # "idle" =>
              Cardinality(Inside') = Cardinality(Inside) + 1
         /\ pc[c] # "idle" /\ s = "idle" =>
              Cardinality(Inside') = Cardinality(Inside) - 1
         /\ (pc[c] = "idle" <=> s = "idle") =>
              Cardinality(Inside') = Cardinality(Inside)
<1>1. CASE pc[c] = "idle" /\ s # "idle"
  <2>1. Inside' = Inside \cup {c} /\ c \notin Inside
    BY <1>1 DEF TypeOK, Inside, Moves
  <2> QED
    BY <1>1, <2>1, CallsFinite, FS_AddElement
<1>2. CASE pc[c] # "idle" /\ s = "idle"
  <2>1. Inside' = Inside \ {c} /\ c \in Inside
    BY <1>2 DEF TypeOK, Inside, Moves
  <2> QED
    BY <1>2, <2>1, CallsFinite, FS_RemoveElement
<1>3. CASE pc[c] = "idle" <=> s = "idle"
  <2>1. Inside' = Inside
    BY <1>3 DEF TypeOK, Inside, Moves
  <2> QED
    BY <1>3, <2>1
<1> QED
  BY <1>1, <1>2, <1>3

\* So does one that nests a call.
LEMMA NestedMoves ==
  ASSUME TypeOK, NEW c \in Callers, NEW s, Moves(c, s)
  PROVE  /\ pc[c] \notin NestedSteps /\ s \in NestedSteps =>
              Cardinality(Nested') = Cardinality(Nested) + 1
         /\ pc[c] \in NestedSteps /\ s \notin NestedSteps =>
              Cardinality(Nested') = Cardinality(Nested) - 1
         /\ (pc[c] \in NestedSteps <=> s \in NestedSteps) =>
              Cardinality(Nested') = Cardinality(Nested)
<1>1. CASE pc[c] \notin NestedSteps /\ s \in NestedSteps
  <2>1. Nested' = Nested \cup {c} /\ c \notin Nested
    BY <1>1 DEF TypeOK, Nested, NestedSteps, Moves
  <2> QED
    BY <1>1, <2>1, CallsFinite, FS_AddElement
<1>2. CASE pc[c] \in NestedSteps /\ s \notin NestedSteps
  <2>1. Nested' = Nested \ {c} /\ c \in Nested
    BY <1>2 DEF TypeOK, Nested, NestedSteps, Moves
  <2> QED
    BY <1>2, <2>1, CallsFinite, FS_RemoveElement
<1>3. CASE pc[c] \in NestedSteps <=> s \in NestedSteps
  <2>1. Nested' = Nested
    BY <1>3 DEF TypeOK, Nested, NestedSteps, Moves
  <2> QED
    BY <1>3, <2>1
<1> QED
  BY <1>1, <1>2, <1>3

\* A call that runs keeps the link: it is counted, and the link not unloaded.
LEMMA InsideHolds ==
  ASSUME ControlInv, NEW c \in Callers, pc[c] # "idle"
  PROVE  refs > 0 /\ stat # "unloaded"
<1>1. Inside # {}
  BY DEF Inside
<1>2. Cardinality(Inside) # 0
  BY <1>1, CallsFinite, FS_EmptySet
<1> QED
  BY <1>2, CallsFinite DEF ControlInv, TypeOK, RefsCounted

-----------------------------------------------------------------------------
(* One lemma per action                                                    *)

\* A new link has no context.
LEMMA InitInv == Init => ControlInv
<1> SUFFICES ASSUME Init PROVE ControlInv
  OBVIOUS
<1>1. TypeOK
  BY DEF Init, TypeOK
<1>2. RefsCounted
  <2>1. Inside = {} /\ Nested = {}
    BY DEF Init, Inside, Nested
  <2> QED
    BY <2>1, FS_EmptySet DEF Init, RefsCounted
<1>3. WritersAlone /\ ContextSteps /\ NoContextLeak /\ NoStaleRead /\ Carried
  BY DEF Init, WritersAlone, ContextSteps, NoContextLeak, NoStaleRead, Carried,
     CtxSteps
<1> QED
  BY <1>1, <1>2, <1>3 DEF ControlInv

\* A call takes its reference and enters; a race is recorded.
LEMMA CallInv ==
  ASSUME ControlInv, NEW c \in Callers,
         NEW step \in {"setctx", "getctx", "cntl", "sendarp", "return"},
         NEW x \in Contexts \cup {None}, Call(c, step, x)
  PROVE  ControlInv'
<1>1. TypeOK'
  BY LinkControlAssumption DEF ControlInv, TypeOK, Call, objrefr,
     Enter, objvars, ctxvars, callvars
<1>2. RefsCounted'
  <2>1. Moves(c, step) /\ pc[c] = "idle"
    BY DEF Call, objrefr, Enter, Moves
  <2>2. TypeOK
    BY DEF ControlInv
  <2>3. Cardinality(Inside') = Cardinality(Inside) + 1
    BY <2>1, <2>2, InsideMoves
  <2>4. Cardinality(Nested') = Cardinality(Nested)
    BY <2>1, <2>2, NestedMoves DEF NestedSteps
  <2> QED
    BY <2>3, <2>4, CallsFinite DEF ControlInv, TypeOK, RefsCounted, Call,
       objrefr, Enter, objvars, ctxvars, callvars
<1>3. WritersAlone'
  <2>1. SUFFICES ASSUME ~raced', NEW d \in Callers, NEW e \in Callers,
                        pc'[d] \in CtxSteps, pc'[e] \in CtxSteps \cup {"getctx"}
                 PROVE  d = e
    BY DEF WritersAlone
  <2>2. ~raced /\ Rivals(step) = {}
    BY <2>1 DEF ControlInv, TypeOK, Call, Enter
  <2>3. \A u \in Callers : pc'[u] = IF u = c THEN step ELSE pc[u]
    BY DEF ControlInv, TypeOK, Call, Enter
  <2>4. CASE d # c /\ e # c
    BY <2>1, <2>2, <2>3, <2>4 DEF ControlInv, WritersAlone
  <2>5. CASE d = c /\ e # c
    <3>1. step = "setctx"
      BY <2>1, <2>3, <2>5 DEF CtxSteps
    <3> QED
      BY <2>1, <2>2, <2>3, <2>5, <3>1 DEF Rivals
  <2>6. CASE d # c /\ e = c
    <3>1. step \in {"setctx", "getctx"}
      BY <2>1, <2>3, <2>6 DEF CtxSteps
    <3> QED
      BY <2>1, <2>2, <2>3, <2>6, <3>1 DEF Rivals
  <2> QED
    BY <2>4, <2>5, <2>6
<1>4. ContextSteps'
  BY LinkControlAssumption DEF ControlInv, TypeOK, Carried, ContextSteps,
     WritersAlone,
     CtxSteps, Call, objrefr, Enter, objvars, ctxvars,
     callvars
<1>5. NoContextLeak'
  BY LinkControlAssumption DEF ControlInv, TypeOK, NoContextLeak,
     ContextSteps, Call, objrefr, Enter, objvars, ctxvars, callvars
<1>6. NoStaleRead'
  BY DEF ControlInv, TypeOK, NoStaleRead, ContextSteps, WritersAlone,
     CtxSteps, Call, objrefr, Enter, objvars, ctxvars, callvars
<1>7. Carried'
  BY DEF ControlInv, TypeOK, Carried, WritersAlone, CtxSteps, Call, objrefr,
     Enter, objvars, ctxvars, callvars
<1> QED
  BY <1>1, <1>2, <1>3, <1>4, <1>5, <1>6, <1>7 DEF ControlInv

\* The last reference of a closing link unloads it; nobody is inside then.
LEMMA ReturnInv ==
  ASSUME ControlInv, NEW c \in Callers, Return(c)
  PROVE  ControlInv'
<1>a. refs > 0 /\ stat # "unloaded"
  BY InsideHolds DEF ControlInv, Return
<1>1. TypeOK'
  <2>1. refs - 1 \in Nat
    BY <1>a DEF ControlInv, TypeOK
  <2> QED
    BY <2>1 DEF ControlInv, TypeOK, Return, objdefr, unload, Free, ctxvars
<1>2. RefsCounted'
  <2>1. TypeOK
    BY DEF ControlInv
  <2>2. CASE pc[c] = "nested"
    <3>1. Moves(c, "return")
      BY <2>2 DEF Return, Moves
    <3>2. /\ Cardinality(Inside') = Cardinality(Inside)
          /\ Cardinality(Nested') = Cardinality(Nested) - 1
      BY <2>1, <2>2, <3>1, InsideMoves, NestedMoves DEF NestedSteps
    <3> QED
      BY <1>a, <3>2, CallsFinite DEF ControlInv, TypeOK, RefsCounted, Return,
         objdefr, unload
  <2>3. CASE pc[c] = "return"
    <3>1. Moves(c, "idle")
      BY <2>3 DEF Return, Moves
    <3>2. /\ Cardinality(Inside') = Cardinality(Inside) - 1
          /\ Cardinality(Nested') = Cardinality(Nested)
      BY <2>1, <2>3, <3>1, InsideMoves, NestedMoves DEF NestedSteps
    <3> QED
      BY <1>a, <3>2, CallsFinite DEF ControlInv, TypeOK, RefsCounted, Return,
         objdefr, unload
  <2> QED
    BY <2>2, <2>3 DEF Return
<1>3. WritersAlone'
  BY DEF ControlInv, TypeOK, WritersAlone, CtxSteps, Return,
     objdefr, unload, Free, objvars, ctxvars, callvars
<1>4. ContextSteps'
  BY LinkControlAssumption, <1>a DEF ControlInv, TypeOK, Carried, ContextSteps,
     WritersAlone, CtxSteps, Return, objdefr, unload, Free, objvars,
     ctxvars, callvars
<1>5. NoContextLeak'
  BY LinkControlAssumption, <1>a DEF ControlInv, TypeOK, NoContextLeak,
     ContextSteps, Return, objdefr, unload, Free, objvars, ctxvars,
     callvars
<1>6. NoStaleRead'
  BY DEF ControlInv, TypeOK, NoStaleRead, ContextSteps, WritersAlone,
     CtxSteps, Return, objdefr, unload, Free, objvars, ctxvars,
     callvars
<1>7. Carried'
  BY DEF ControlInv, TypeOK, Carried, WritersAlone, CtxSteps, Return, objdefr,
     unload, Free, objvars, ctxvars,
     callvars
<1> QED
  BY <1>1, <1>2, <1>3, <1>4, <1>5, <1>6, <1>7 DEF ControlInv

\* The link begins to close.
LEMMA Arp_destroyInv ==
  ASSUME ControlInv, NEW c \in Callers, arp_destroy(c)
  PROVE  ControlInv'
<1>1. TypeOK'
  BY LinkControlAssumption DEF ControlInv, TypeOK, arp_destroy, Goto,
     objvars, ctxvars, callvars
<1>2. RefsCounted'
  <2>1. Moves(c, "return") /\ pc[c] = "idle"
    BY DEF arp_destroy, Goto, Moves
  <2>2. TypeOK
    BY DEF ControlInv
  <2>3. Cardinality(Inside') = Cardinality(Inside) + 1
    BY <2>1, <2>2, InsideMoves
  <2>4. Cardinality(Nested') = Cardinality(Nested)
    BY <2>1, <2>2, NestedMoves DEF NestedSteps
  <2> QED
    BY <2>3, <2>4, CallsFinite DEF ControlInv, TypeOK, RefsCounted,
       arp_destroy, Goto, objvars, ctxvars, callvars
<1>3. WritersAlone'
  BY DEF ControlInv, TypeOK, WritersAlone, CtxSteps, arp_destroy,
     Goto, objvars, ctxvars, callvars
<1>4. ContextSteps'
  BY LinkControlAssumption DEF ControlInv, TypeOK, Carried, ContextSteps,
     WritersAlone,
     CtxSteps, arp_destroy, Goto, objvars, ctxvars,
     callvars
<1>5. NoContextLeak'
  BY LinkControlAssumption DEF ControlInv, TypeOK, NoContextLeak,
     ContextSteps, arp_destroy, Goto, objvars, ctxvars, callvars
<1>6. NoStaleRead'
  BY DEF ControlInv, TypeOK, NoStaleRead, ContextSteps, WritersAlone,
     CtxSteps, arp_destroy, Goto, objvars, ctxvars, callvars
<1>7. Carried'
  BY DEF ControlInv, TypeOK, Carried, WritersAlone, CtxSteps, arp_destroy,
     Goto, objvars, ctxvars, callvars
<1> QED
  BY <1>1, <1>2, <1>3, <1>4, <1>5, <1>6, <1>7 DEF ControlInv

\* tcp_awaken keeps a reference for ever.
LEMMA Tcp_awakenInv ==
  ASSUME ControlInv, NEW c \in Callers, tcp_awaken(c)
  PROVE  ControlInv'
<1>1. TypeOK'
  BY LinkControlAssumption DEF ControlInv, TypeOK, tcp_awaken,
     objvars, ctxvars, callvars
<1>2. RefsCounted'
  <2>1. Inside' = Inside /\ Nested' = Nested
    BY DEF Inside, Nested, tcp_awaken, objvars, ctxvars, callvars
  <2> QED
    BY <2>1, CallsFinite DEF ControlInv, TypeOK, RefsCounted, tcp_awaken,
       objvars, ctxvars, callvars
<1>3. WritersAlone'
  BY DEF ControlInv, TypeOK, WritersAlone, CtxSteps, tcp_awaken,
     objvars, ctxvars, callvars
<1>4. ContextSteps'
  BY LinkControlAssumption DEF ControlInv, TypeOK, Carried, ContextSteps,
     WritersAlone,
     CtxSteps, tcp_awaken, objvars, ctxvars, callvars
<1>5. NoContextLeak'
  BY LinkControlAssumption DEF ControlInv, TypeOK, NoContextLeak,
     ContextSteps, tcp_awaken, objvars, ctxvars, callvars
<1>6. NoStaleRead'
  BY DEF ControlInv, TypeOK, NoStaleRead, ContextSteps, WritersAlone,
     CtxSteps, tcp_awaken, objvars, ctxvars, callvars
<1>7. Carried'
  BY DEF ControlInv, TypeOK, Carried, WritersAlone, CtxSteps, tcp_awaken,
     objvars, ctxvars, callvars
<1> QED
  BY <1>1, <1>2, <1>3, <1>4, <1>5, <1>6, <1>7 DEF ControlInv

\* So does the callback of the pipe.
LEMMA So_dispatch_pipe_eventInv ==
  ASSUME ControlInv, so_dispatch_pipe_event
  PROVE  ControlInv'
<1>1. TypeOK'
  BY LinkControlAssumption DEF ControlInv, TypeOK,
     so_dispatch_pipe_event, objvars, ctxvars, callvars
<1>2. RefsCounted'
  <2>1. Inside' = Inside /\ Nested' = Nested
    BY DEF Inside, Nested, so_dispatch_pipe_event, objvars, ctxvars,
       callvars
  <2> QED
    BY <2>1, CallsFinite DEF ControlInv, TypeOK, RefsCounted,
       so_dispatch_pipe_event, objvars, ctxvars, callvars
<1>3. WritersAlone'
  BY DEF ControlInv, TypeOK, WritersAlone, CtxSteps,
     so_dispatch_pipe_event, objvars, ctxvars, callvars
<1>4. ContextSteps'
  BY LinkControlAssumption DEF ControlInv, TypeOK, Carried, ContextSteps,
     WritersAlone,
     CtxSteps, so_dispatch_pipe_event, objvars, ctxvars,
     callvars
<1>5. NoContextLeak'
  BY LinkControlAssumption DEF ControlInv, TypeOK, NoContextLeak,
     ContextSteps, so_dispatch_pipe_event, objvars, ctxvars, callvars
<1>6. NoStaleRead'
  BY DEF ControlInv, TypeOK, NoStaleRead, ContextSteps, WritersAlone,
     CtxSteps, so_dispatch_pipe_event, objvars, ctxvars, callvars
<1>7. Carried'
  BY DEF ControlInv, TypeOK, Carried, WritersAlone, CtxSteps,
     so_dispatch_pipe_event, objvars, ctxvars, callvars
<1> QED
  BY <1>1, <1>2, <1>3, <1>4, <1>5, <1>6, <1>7 DEF ControlInv

\* Clearing frees the block.
LEMMA ClearCtxInv ==
  ASSUME ControlInv, NEW c \in Callers, ClearCtx(c)
  PROVE  ControlInv'
<1>a. refs > 0 /\ stat # "unloaded"
  BY InsideHolds DEF ControlInv, ClearCtx, SetCtx
<1>1. TypeOK'
  BY LinkControlAssumption, <1>a DEF ControlInv, TypeOK, ClearCtx,
     Free, SetCtx, Goto, objvars, ctxvars, callvars
<1>2. RefsCounted'
  <2>1. Moves(c, "return") /\ pc[c] = "setctx"
    BY DEF ClearCtx, Free, SetCtx, Goto, Moves
  <2>2. TypeOK
    BY DEF ControlInv
  <2>3. Cardinality(Inside') = Cardinality(Inside)
    BY <2>1, <2>2, InsideMoves
  <2>4. Cardinality(Nested') = Cardinality(Nested)
    BY <2>1, <2>2, NestedMoves DEF NestedSteps
  <2> QED
    BY <1>a, <2>3, <2>4, CallsFinite DEF ControlInv, TypeOK, RefsCounted,
       ClearCtx, Free, SetCtx, Goto, objvars, ctxvars, callvars
<1>3. WritersAlone'
  BY DEF ControlInv, TypeOK, WritersAlone, CtxSteps, ClearCtx, Free,
     SetCtx, Goto, objvars, ctxvars, callvars
<1>4. ContextSteps'
  BY LinkControlAssumption, <1>a DEF ControlInv, TypeOK, Carried, ContextSteps,
     WritersAlone, CtxSteps, ClearCtx, Free, SetCtx, Goto, objvars,
     ctxvars, callvars
<1>5. NoContextLeak'
  BY LinkControlAssumption, <1>a DEF ControlInv, TypeOK, NoContextLeak,
     ContextSteps, ClearCtx, Free, SetCtx, Goto, objvars, ctxvars,
     callvars
<1>6. NoStaleRead'
  BY DEF ControlInv, TypeOK, NoStaleRead, ContextSteps, WritersAlone,
     CtxSteps, ClearCtx, Free, SetCtx, Goto, objvars, ctxvars,
     callvars
<1>7. Carried'
  BY DEF ControlInv, TypeOK, Carried, WritersAlone, CtxSteps, ClearCtx, Free,
     SetCtx, Goto, objvars, ctxvars,
     callvars
<1> QED
  BY <1>1, <1>2, <1>3, <1>4, <1>5, <1>6, <1>7 DEF ControlInv

\* The block of another size is freed first.
LEMMA ResizeCtxInv ==
  ASSUME ControlInv, NEW c \in Callers, ResizeCtx(c)
  PROVE  ControlInv'
<1>a. refs > 0 /\ stat # "unloaded"
  BY InsideHolds DEF ControlInv, ResizeCtx, SetCtx
<1>1. TypeOK'
  <2>1. arg[c] \in Contexts /\ arg[c].size \in Nat
    BY LinkControlAssumption DEF ControlInv, TypeOK, ResizeCtx
  <2> QED
    BY <2>1 DEF ControlInv, TypeOK, ResizeCtx, Free, SetCtx, Goto, objvars
<1>2. RefsCounted'
  <2>1. Moves(c, "malloc") /\ pc[c] = "setctx"
    BY DEF ResizeCtx, Free, SetCtx, Goto, Moves
  <2>2. TypeOK
    BY DEF ControlInv
  <2>3. Cardinality(Inside') = Cardinality(Inside)
    BY <2>1, <2>2, InsideMoves
  <2>4. Cardinality(Nested') = Cardinality(Nested)
    BY <2>1, <2>2, NestedMoves DEF NestedSteps
  <2> QED
    BY <1>a, <2>3, <2>4, CallsFinite DEF ControlInv, TypeOK, RefsCounted,
       ResizeCtx, Free, SetCtx, Goto, objvars, ctxvars, callvars
<1>3. WritersAlone'
  BY DEF ControlInv, TypeOK, WritersAlone, CtxSteps, ResizeCtx,
     Free, SetCtx, Goto, objvars, ctxvars, callvars
<1>4. ContextSteps'
  BY LinkControlAssumption, <1>a DEF ControlInv, TypeOK, Carried, ContextSteps,
     WritersAlone, CtxSteps, ResizeCtx, Free, SetCtx, Goto, objvars,
     ctxvars, callvars
<1>5. NoContextLeak'
  BY LinkControlAssumption, <1>a DEF ControlInv, TypeOK, NoContextLeak,
     ContextSteps, ResizeCtx, Free, SetCtx, Goto, objvars, ctxvars,
     callvars
<1>6. NoStaleRead'
  BY DEF ControlInv, TypeOK, NoStaleRead, ContextSteps, WritersAlone,
     CtxSteps, ResizeCtx, Free, SetCtx, Goto, objvars, ctxvars,
     callvars
<1>7. Carried'
  BY DEF ControlInv, TypeOK, Carried, WritersAlone, CtxSteps, ResizeCtx, Free,
     SetCtx, Goto, objvars, ctxvars,
     callvars
<1> QED
  BY <1>1, <1>2, <1>3, <1>4, <1>5, <1>6, <1>7 DEF ControlInv

\* The new block holds the context, or there is none.
LEMMA AllocateCtxInv ==
  ASSUME ControlInv, NEW c \in Callers, AllocateCtx(c)
  PROVE  ControlInv'
<1>a. refs > 0 /\ stat # "unloaded"
  BY InsideHolds DEF ControlInv, AllocateCtx, SetCtx
<1>1. TypeOK'
  <2>1. arg[c] \in Contexts /\ arg[c].size \in Nat
    BY LinkControlAssumption DEF ControlInv, Carried, AllocateCtx
  <2> QED
    BY <2>1 DEF ControlInv, TypeOK, AllocateCtx, SetCtx, Goto, objvars
<1>2. RefsCounted'
  <2>1. Moves(c, "return") /\ pc[c] = "malloc"
    BY DEF AllocateCtx, SetCtx, Goto, Moves
  <2>2. TypeOK
    BY DEF ControlInv
  <2>3. Cardinality(Inside') = Cardinality(Inside)
    BY <2>1, <2>2, InsideMoves
  <2>4. Cardinality(Nested') = Cardinality(Nested)
    BY <2>1, <2>2, NestedMoves DEF NestedSteps
  <2> QED
    BY <1>a, <2>3, <2>4, CallsFinite DEF ControlInv, TypeOK, RefsCounted,
       AllocateCtx, SetCtx, Goto, objvars, ctxvars, callvars
<1>3. WritersAlone'
  BY DEF ControlInv, TypeOK, WritersAlone, CtxSteps, AllocateCtx,
     SetCtx, Goto, objvars, ctxvars, callvars
<1>4. ContextSteps'
  BY LinkControlAssumption, <1>a DEF ControlInv, TypeOK, Carried, ContextSteps,
     WritersAlone, CtxSteps, AllocateCtx, SetCtx, Goto, objvars,
     ctxvars, callvars
<1>5. NoContextLeak'
  BY LinkControlAssumption, <1>a DEF ControlInv, TypeOK, NoContextLeak,
     ContextSteps, AllocateCtx, SetCtx, Goto, objvars, ctxvars,
     callvars
<1>6. NoStaleRead'
  BY DEF ControlInv, TypeOK, NoStaleRead, ContextSteps, WritersAlone,
     CtxSteps, AllocateCtx, SetCtx, Goto, objvars, ctxvars, callvars
<1>7. Carried'
  BY DEF ControlInv, TypeOK, Carried, WritersAlone, CtxSteps, AllocateCtx,
     SetCtx, Goto, objvars, ctxvars, callvars
<1> QED
  BY <1>1, <1>2, <1>3, <1>4, <1>5, <1>6, <1>7 DEF ControlInv

\* A block of the same size is written again.
LEMMA CopyCtxInv ==
  ASSUME ControlInv, NEW c \in Callers, CopyCtx(c)
  PROVE  ControlInv'
<1>a. refs > 0 /\ stat # "unloaded"
  BY InsideHolds DEF ControlInv, CopyCtx, SetCtx
<1>1. TypeOK'
  <2>1. arg[c] \in Contexts /\ arg[c].size \in Nat
    BY LinkControlAssumption DEF ControlInv, TypeOK, CopyCtx
  <2> QED
    BY <2>1 DEF ControlInv, TypeOK, CopyCtx, SetCtx, Goto, objvars
<1>2. RefsCounted'
  <2>1. Moves(c, "return") /\ pc[c] = "setctx"
    BY DEF CopyCtx, SetCtx, Goto, Moves
  <2>2. TypeOK
    BY DEF ControlInv
  <2>3. Cardinality(Inside') = Cardinality(Inside)
    BY <2>1, <2>2, InsideMoves
  <2>4. Cardinality(Nested') = Cardinality(Nested)
    BY <2>1, <2>2, NestedMoves DEF NestedSteps
  <2> QED
    BY <1>a, <2>3, <2>4, CallsFinite DEF ControlInv, TypeOK, RefsCounted,
       CopyCtx, SetCtx, Goto, objvars, ctxvars, callvars
<1>3. WritersAlone'
  BY DEF ControlInv, TypeOK, WritersAlone, CtxSteps, CopyCtx,
     SetCtx, Goto, objvars, ctxvars, callvars
<1>4. ContextSteps'
  BY LinkControlAssumption, <1>a DEF ControlInv, TypeOK, Carried, ContextSteps,
     WritersAlone, CtxSteps, CopyCtx, SetCtx, Goto, objvars,
     ctxvars, callvars
<1>5. NoContextLeak'
  BY LinkControlAssumption, <1>a DEF ControlInv, TypeOK, NoContextLeak,
     ContextSteps, CopyCtx, SetCtx, Goto, objvars, ctxvars, callvars
<1>6. NoStaleRead'
  BY DEF ControlInv, TypeOK, NoStaleRead, ContextSteps, WritersAlone,
     CtxSteps, CopyCtx, SetCtx, Goto, objvars, ctxvars, callvars
<1>7. Carried'
  BY DEF ControlInv, TypeOK, Carried, WritersAlone, CtxSteps, CopyCtx, SetCtx,
     Goto, objvars, ctxvars, callvars
<1> QED
  BY <1>1, <1>2, <1>3, <1>4, <1>5, <1>6, <1>7 DEF ControlInv

\* A reader finds a whole context, or a writer is there and it raced.
LEMMA GetCtxInv ==
  ASSUME ControlInv, NEW c \in Callers, GetCtx(c)
  PROVE  ControlInv'
<1>a. refs > 0 /\ stat # "unloaded"
  BY InsideHolds DEF ControlInv, GetCtx
<1>1. TypeOK'
  BY LinkControlAssumption, <1>a DEF ControlInv, TypeOK, GetCtx,
     Goto, objvars, ctxvars, callvars
<1>2. RefsCounted'
  <2>1. Moves(c, "return") /\ pc[c] = "getctx"
    BY DEF GetCtx, Goto, Moves
  <2>2. TypeOK
    BY DEF ControlInv
  <2>3. Cardinality(Inside') = Cardinality(Inside)
    BY <2>1, <2>2, InsideMoves
  <2>4. Cardinality(Nested') = Cardinality(Nested)
    BY <2>1, <2>2, NestedMoves DEF NestedSteps
  <2> QED
    BY <1>a, <2>3, <2>4, CallsFinite DEF ControlInv, TypeOK, RefsCounted,
       GetCtx, Goto, objvars, ctxvars, callvars
<1>3. WritersAlone'
  BY DEF ControlInv, TypeOK, WritersAlone, CtxSteps, GetCtx, Goto,
     objvars, ctxvars, callvars
<1>4. ContextSteps'
  BY LinkControlAssumption, <1>a DEF ControlInv, TypeOK, Carried, ContextSteps,
     WritersAlone, CtxSteps, GetCtx, Goto, objvars, ctxvars, callvars
<1>5. NoContextLeak'
  BY LinkControlAssumption, <1>a DEF ControlInv, TypeOK, NoContextLeak,
     ContextSteps, GetCtx, Goto, objvars, ctxvars, callvars
<1>6. NoStaleRead'
  <2>1. SUFFICES ASSUME ~raced, ~oom, ~corrupt PROVE ~(ncb_ctx_ = "freed" /\ size # 0)
    BY DEF ControlInv, NoStaleRead, GetCtx, Goto
  <2>2. \A d \in Callers : pc[d] # "malloc"
    BY <2>1 DEF ControlInv, WritersAlone, CtxSteps, GetCtx
  <2> QED
    BY <1>a, <2>1, <2>2 DEF ControlInv, ContextSteps
<1>7. Carried'
  BY DEF ControlInv, TypeOK, Carried, WritersAlone, CtxSteps, GetCtx, Goto,
     objvars, ctxvars, callvars
<1> QED
  BY <1>1, <1>2, <1>3, <1>4, <1>5, <1>6, <1>7 DEF ControlInv

\* A reply of ARP changes nothing here.
LEMMA SendARPInv ==
  ASSUME ControlInv, NEW c \in Callers, SendARP(c)
  PROVE  ControlInv'
<1>a. refs > 0 /\ stat # "unloaded"
  BY InsideHolds DEF ControlInv, SendARP
<1>1. TypeOK'
  BY LinkControlAssumption, <1>a DEF ControlInv, TypeOK, SendARP,
     Goto, objvars, ctxvars, callvars
<1>2. RefsCounted'
  <2>1. Moves(c, "return") /\ pc[c] = "sendarp"
    BY DEF SendARP, Goto, Moves
  <2>2. TypeOK
    BY DEF ControlInv
  <2>3. Cardinality(Inside') = Cardinality(Inside)
    BY <2>1, <2>2, InsideMoves
  <2>4. Cardinality(Nested') = Cardinality(Nested)
    BY <2>1, <2>2, NestedMoves DEF NestedSteps
  <2> QED
    BY <1>a, <2>3, <2>4, CallsFinite DEF ControlInv, TypeOK, RefsCounted,
       SendARP, Goto, objvars, ctxvars, callvars
<1>3. WritersAlone'
  BY DEF ControlInv, TypeOK, WritersAlone, CtxSteps, SendARP, Goto,
     objvars, ctxvars, callvars
<1>4. ContextSteps'
  BY LinkControlAssumption, <1>a DEF ControlInv, TypeOK, Carried, ContextSteps,
     WritersAlone, CtxSteps, SendARP, Goto, objvars, ctxvars, callvars
<1>5. NoContextLeak'
  BY LinkControlAssumption, <1>a DEF ControlInv, TypeOK, NoContextLeak,
     ContextSteps, SendARP, Goto, objvars, ctxvars, callvars
<1>6. NoStaleRead'
  BY DEF ControlInv, TypeOK, NoStaleRead, ContextSteps, WritersAlone,
     CtxSteps, SendARP, Goto, objvars, ctxvars, callvars
<1>7. Carried'
  BY DEF ControlInv, TypeOK, Carried, WritersAlone, CtxSteps, SendARP, Goto,
     objvars, ctxvars, callvars
<1> QED
  BY <1>1, <1>2, <1>3, <1>4, <1>5, <1>6, <1>7 DEF ControlInv

\* The nested call takes another reference.
LEMMA Tcp_settst_rInv ==
  ASSUME ControlInv, NEW c \in Callers, tcp_settst_r(c)
  PROVE  ControlInv'
<1>a. refs > 0 /\ stat # "unloaded"
  BY InsideHolds DEF ControlInv, tcp_settst_r, objrefr
<1>1. TypeOK'
  BY LinkControlAssumption, <1>a DEF ControlInv, TypeOK, tcp_settst_r,
     objrefr, Goto, objvars, ctxvars, callvars
<1>2. RefsCounted'
  <2>1. Moves(c, "nested") /\ pc[c] = "cntl"
    BY DEF tcp_settst_r, objrefr, Goto, Moves
  <2>2. TypeOK
    BY DEF ControlInv
  <2>3. Cardinality(Inside') = Cardinality(Inside)
    BY <2>1, <2>2, InsideMoves
  <2>4. Cardinality(Nested') = Cardinality(Nested) + 1
    BY <2>1, <2>2, NestedMoves DEF NestedSteps
  <2> QED
    BY <1>a, <2>3, <2>4, CallsFinite DEF ControlInv, TypeOK, RefsCounted,
       tcp_settst_r, objrefr, Goto, objvars, ctxvars, callvars
<1>3. WritersAlone'
  BY DEF ControlInv, TypeOK, WritersAlone, CtxSteps, tcp_settst_r,
     objrefr, Goto, objvars, ctxvars, callvars
<1>4. ContextSteps'
  BY LinkControlAssumption, <1>a DEF ControlInv, TypeOK, Carried, ContextSteps,
     WritersAlone, CtxSteps, tcp_settst_r, objrefr, Goto, objvars,
     ctxvars, callvars
<1>5. NoContextLeak'
  BY LinkControlAssumption, <1>a DEF ControlInv, TypeOK, NoContextLeak,
     ContextSteps, tcp_settst_r, objrefr, Goto, objvars, ctxvars,
     callvars
<1>6. NoStaleRead'
  BY DEF ControlInv, TypeOK, NoStaleRead, ContextSteps, WritersAlone,
     CtxSteps, tcp_settst_r, objrefr, Goto, objvars, ctxvars,
     callvars
<1>7. Carried'
  BY DEF ControlInv, TypeOK, Carried, WritersAlone, CtxSteps, tcp_settst_r,
     objrefr, Goto, objvars, ctxvars,
     callvars
<1> QED
  BY <1>1, <1>2, <1>3, <1>4, <1>5, <1>6, <1>7 DEF ControlInv

\* So does the reader.
LEMMA Tcp_gettst_rInv ==
  ASSUME ControlInv, NEW c \in Callers, tcp_gettst_r(c)
  PROVE  ControlInv'
<1>a. refs > 0 /\ stat # "unloaded"
  BY InsideHolds DEF ControlInv, tcp_gettst_r, objrefr
<1>1. TypeOK'
  BY LinkControlAssumption, <1>a DEF ControlInv, TypeOK, tcp_gettst_r,
     objrefr, Goto, objvars, ctxvars, callvars
<1>2. RefsCounted'
  <2>1. Moves(c, "nested") /\ pc[c] = "cntl"
    BY DEF tcp_gettst_r, objrefr, Goto, Moves
  <2>2. TypeOK
    BY DEF ControlInv
  <2>3. Cardinality(Inside') = Cardinality(Inside)
    BY <2>1, <2>2, InsideMoves
  <2>4. Cardinality(Nested') = Cardinality(Nested) + 1
    BY <2>1, <2>2, NestedMoves DEF NestedSteps
  <2> QED
    BY <1>a, <2>3, <2>4, CallsFinite DEF ControlInv, TypeOK, RefsCounted,
       tcp_gettst_r, objrefr, Goto, objvars, ctxvars, callvars
<1>3. WritersAlone'
  BY DEF ControlInv, TypeOK, WritersAlone, CtxSteps, tcp_gettst_r,
     objrefr, Goto, objvars, ctxvars, callvars
<1>4. ContextSteps'
  BY LinkControlAssumption, <1>a DEF ControlInv, TypeOK, Carried, ContextSteps,
     WritersAlone, CtxSteps, tcp_gettst_r, objrefr, Goto, objvars,
     ctxvars, callvars
<1>5. NoContextLeak'
  BY LinkControlAssumption, <1>a DEF ControlInv, TypeOK, NoContextLeak,
     ContextSteps, tcp_gettst_r, objrefr, Goto, objvars, ctxvars,
     callvars
<1>6. NoStaleRead'
  BY DEF ControlInv, TypeOK, NoStaleRead, ContextSteps, WritersAlone,
     CtxSteps, tcp_gettst_r, objrefr, Goto, objvars, ctxvars,
     callvars
<1>7. Carried'
  BY DEF ControlInv, TypeOK, Carried, WritersAlone, CtxSteps, tcp_gettst_r,
     objrefr, Goto, objvars, ctxvars,
     callvars
<1> QED
  BY <1>1, <1>2, <1>3, <1>4, <1>5, <1>6, <1>7 DEF ControlInv

\* A command is done.
LEMMA CntlReturnInv ==
  ASSUME ControlInv, NEW c \in Callers, CntlReturn(c)
  PROVE  ControlInv'
<1>a. refs > 0 /\ stat # "unloaded"
  BY InsideHolds DEF ControlInv, CntlReturn
<1>1. TypeOK'
  BY LinkControlAssumption, <1>a DEF ControlInv, TypeOK, CntlReturn,
     Goto, objvars, ctxvars, callvars
<1>2. RefsCounted'
  <2>1. Moves(c, "return") /\ pc[c] = "cntl"
    BY DEF CntlReturn, Goto, Moves
  <2>2. TypeOK
    BY DEF ControlInv
  <2>3. Cardinality(Inside') = Cardinality(Inside)
    BY <2>1, <2>2, InsideMoves
  <2>4. Cardinality(Nested') = Cardinality(Nested)
    BY <2>1, <2>2, NestedMoves DEF NestedSteps
  <2> QED
    BY <1>a, <2>3, <2>4, CallsFinite DEF ControlInv, TypeOK, RefsCounted,
       CntlReturn, Goto, objvars, ctxvars, callvars
<1>3. WritersAlone'
  BY DEF ControlInv, TypeOK, WritersAlone, CtxSteps, CntlReturn,
     Goto, objvars, ctxvars, callvars
<1>4. ContextSteps'
  BY LinkControlAssumption, <1>a DEF ControlInv, TypeOK, Carried, ContextSteps,
     WritersAlone, CtxSteps, CntlReturn, Goto, objvars, ctxvars, callvars
<1>5. NoContextLeak'
  BY LinkControlAssumption, <1>a DEF ControlInv, TypeOK, NoContextLeak,
     ContextSteps, CntlReturn, Goto, objvars, ctxvars, callvars
<1>6. NoStaleRead'
  BY DEF ControlInv, TypeOK, NoStaleRead, ContextSteps, WritersAlone,
     CtxSteps, CntlReturn, Goto, objvars, ctxvars, callvars
<1>7. Carried'
  BY DEF ControlInv, TypeOK, Carried, WritersAlone, CtxSteps, CntlReturn,
     Goto, objvars, ctxvars, callvars
<1> QED
  BY <1>1, <1>2, <1>3, <1>4, <1>5, <1>6, <1>7 DEF ControlInv

\* An unknown command keeps its reference for ever.
LEMMA CntlUnknownInv ==
  ASSUME ControlInv, NEW c \in Callers, CntlUnknown(c)
  PROVE  ControlInv'
<1>a. refs > 0 /\ stat # "unloaded"
  BY InsideHolds DEF ControlInv, CntlUnknown
<1>1. TypeOK'
  BY LinkControlAssumption, <1>a DEF ControlInv, TypeOK, CntlUnknown,
     Goto, objvars, ctxvars, callvars
<1>2. RefsCounted'
  <2>1. Moves(c, "idle") /\ pc[c] = "cntl"
    BY DEF CntlUnknown, Goto, Moves
  <2>2. TypeOK
    BY DEF ControlInv
  <2>3. Cardinality(Inside') = Cardinality(Inside) - 1
    BY <2>1, <2>2, InsideMoves
  <2>4. Cardinality(Nested') = Cardinality(Nested)
    BY <2>1, <2>2, NestedMoves DEF NestedSteps
  <2> QED
    BY <1>a, <2>3, <2>4, CallsFinite DEF ControlInv, TypeOK, RefsCounted,
       CntlUnknown, Goto, objvars, ctxvars, callvars
<1>3. WritersAlone'
  BY DEF ControlInv, TypeOK, WritersAlone, CtxSteps, CntlUnknown,
     Goto, objvars, ctxvars, callvars
<1>4. ContextSteps'
  BY LinkControlAssumption, <1>a DEF ControlInv, TypeOK, Carried, ContextSteps,
     WritersAlone, CtxSteps, CntlUnknown, Goto, objvars, ctxvars, callvars
<1>5. NoContextLeak'
  BY LinkControlAssumption, <1>a DEF ControlInv, TypeOK, NoContextLeak,
     ContextSteps, CntlUnknown, Goto, objvars, ctxvars, callvars
<1>6. NoStaleRead'
  BY DEF ControlInv, TypeOK, NoStaleRead, ContextSteps, WritersAlone,
     CtxSteps, CntlUnknown, Goto, objvars, ctxvars, callvars
<1>7. Carried'
  BY DEF ControlInv, TypeOK, Carried, WritersAlone, CtxSteps, CntlUnknown,
     Goto, objvars, ctxvars, callvars
<1> QED
  BY <1>1, <1>2, <1>3, <1>4, <1>5, <1>6, <1>7 DEF ControlInv

-----------------------------------------------------------------------------
(* The theorems                                                            *)

\* Every step of the specification preserves the invariant.
LEMMA NextInv == ControlInv /\ [Next]_vars => ControlInv'
<1> SUFFICES ASSUME ControlInv, [Next]_vars PROVE ControlInv'
  OBVIOUS
<1>1. CASE so_dispatch_pipe_event
  BY <1>1, So_dispatch_pipe_eventInv
<1>2. ASSUME NEW c \in Callers, Begin(c) PROVE ControlInv'
  <2>1. CASE \E x \in Contexts \cup {None} : nis_setctx(c, x)
    BY <2>1, CallInv DEF nis_setctx
  <2>2. CASE tcp_settst(c)
    BY <2>2, CallInv DEF tcp_settst
  <2>3. CASE \/ nis_getctx(c) \/ nis_refctx(c) \/ nis_ctxsize(c)
             \/ tcp_gettst(c) \/ tcp_getaddr(c) \/ tcp_setopt(c)
             \/ tcp_getopt(c) \/ nis_cntl(c) \/ arp_nrequest(c)
    BY <2>3, CallInv DEF nis_getctx, nis_refctx, nis_ctxsize, tcp_gettst,
       tcp_getaddr, tcp_setopt, tcp_getopt, nis_cntl, arp_nrequest
  <2>4. CASE tcp_awaken(c) \/ arp_destroy(c)
    BY <2>4, Tcp_awakenInv, Arp_destroyInv
  <2> QED
    BY <1>2, <2>1, <2>2, <2>3, <2>4 DEF Begin
<1>3. ASSUME NEW c \in Callers, Step(c) PROVE ControlInv'
  BY <1>3, ReturnInv, ClearCtxInv, ResizeCtxInv, AllocateCtxInv, CopyCtxInv,
     GetCtxInv, SendARPInv, Tcp_settst_rInv,
     Tcp_gettst_rInv, CntlReturnInv, CntlUnknownInv DEF Step
<1>4. CASE UNCHANGED vars
  <2>1. UNCHANGED <<proto, stat, refs, leaked, pipe, ncb_ctx_, size, data, last,
                    oom, corrupt, stale, pc, arg, raced>>
    BY <1>4 DEF vars, objvars, ctxvars, callvars
  <2>2. Inside' = Inside /\ Nested' = Nested
    BY <2>1 DEF Inside, Nested
  <2> QED
    BY <2>1, <2>2 DEF ControlInv, TypeOK, RefsCounted, WritersAlone,
       ContextSteps, NoContextLeak, NoStaleRead, Carried
<1> QED
  BY <1>1, <1>2, <1>3, <1>4 DEF Next

\* The invariant holds in every reachable state: the count of the object is the
\* number of running calls, nested ones twice, and of the references nobody
\* drops.
THEOREM ControlInvariant == Spec => []ControlInv
<1>1. Init => ControlInv
  BY InitInv
<1>2. ControlInv /\ [Next]_vars => ControlInv'
  BY NextInv
<1> QED
  BY <1>1, <1>2, PTL DEF Spec

\* Whatever sizes nis_setctx is called with, and however the readers and the
\* end of the link interleave with it, the context is that of its last call.
THEOREM ControlContextReadBack == Spec => []ContextReadBack
<1>1. ControlInv => ContextReadBack
  BY DEF ControlInv, ContextSteps, ContextReadBack, CtxSteps
<1> QED
  BY <1>1, ControlInvariant, PTL

\* The unload of the link frees the context: nobody is left inside nis_setctx
\* to allocate it again.
THEOREM ControlNoContextLeak == Spec => []NoContextLeak
<1>1. ControlInv => NoContextLeak
  BY DEF ControlInv
<1> QED
  BY <1>1, ControlInvariant, PTL

\* nis_getctx reads freed memory only beside a nis_setctx, for any number of
\* callers: clearing resets the size it looks at, and its reference keeps the
\* unload, which frees the context, away.
THEOREM ControlNoStaleRead == Spec => []NoStaleRead
<1>1. ControlInv => NoStaleRead
  BY DEF ControlInv
<1> QED
  BY <1>1, ControlInvariant, PTL
=============================================================================
