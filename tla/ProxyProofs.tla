----------------------------- MODULE ProxyProofs -----------------------------
(***************************************************************************)
(* Proofs about Proxy, for any number of threads, clients, descriptors and *)
(* heap blocks.  Whatever the threads do to the list they share: the types *)
(* of all variables, and that every accepted connection is owned by exactly*)
(* one thread.  When the clients come one at a time (MaxActive = 1): the   *)
(* cache is a coherent list, every client receives the page it asked for,  *)
(* nothing undefined happens, and the cache is an LRU cache.               *)
(* When every request is a miss (OwnPages, Roomy), however many threads    *)
(* serve at the same time: search never goes astray in the list, nothing   *)
(* undefined happens, and every client receives the page it asked for.     *)
(***************************************************************************)
EXTENDS ProxyInvariants, SequenceFacts, FiniteSetTheorems, TLAPS

-----------------------------------------------------------------------------
(* The types, and who owns a connection. *)

LEMMA InitIInv == Init => IInv
  <1> SUFFICES ASSUME Init PROVE IInv
    OBVIOUS
  <1> USE DEF Init, NewDll
  <1>1. ListTypeOK
    BY DEF ListTypeOK, Addr
  <1>2. ProcessTypeOK
    BY DEF ProcessTypeOK, Labels, NoFd, Free, Closed
  <1>3. CellsOwned /\ PrintReturns /\ RequestKnown
    BY DEF CellsOwned, PrintReturns, Printing, RequestKnown, Accepted, Busy
  <1>4. ConnectionOwned
    BY ClientsAssumption
    DEF ConnectionOwned, NoDescriptorShared, HeldIsOpen, OpenIsHeld, OneDescriptor,
        HeldByMain, HeldBy, Serving, Accepted, Free
  <1> QED
    BY <1>1, <1>2, <1>3, <1>4 DEF IInv, TypeOK

(***************************************************************************)
(* A step inside trans that touches neither the descriptors nor the cells  *)
(* keeps the ownership of both.                                            *)
(***************************************************************************)
LEMMA OwnershipFrame ==
  ASSUME IInv, NEW t \in Threads, NEW l \in Busy, pc[t] \in Busy \ {"t65"},
         pc' = [pc EXCEPT ![t] = l],
         UNCHANGED <<mainVars, uri, conn, want, fdt, connfd>>
  PROVE  CellsOwned' /\ ConnectionOwned' /\ RequestKnown'
  <1> USE DEF IInv, TypeOK, ProcessTypeOK, mainVars, Busy
  <1>1. \A u \in Threads : /\ pc'[u] = "none" <=> pc[u] = "none"
                           /\ pc'[u] = "t44" <=> pc[u] = "t44"
                           /\ pc'[u] = "t46" <=> pc[u] = "t46"
    OBVIOUS
  <1>2. CellsOwned'
    BY <1>1 DEF CellsOwned
  <1>3. Serving' = Serving /\ \A u \in Threads : FdOf(u)' = FdOf(u)
    BY <1>1 DEF Serving, FdOf
  <1>4. \A f \in Fds : HeldByMain(f)' = HeldByMain(f)
                       /\ \A u \in Threads : HeldBy(u, f)' = HeldBy(u, f)
    BY <1>3 DEF HeldByMain, HeldBy
  <1>5. Accepted' = Accepted
    BY DEF Accepted
  <1>6. ConnectionOwned'
    BY <1>3, <1>4, <1>5
    DEF ConnectionOwned, NoDescriptorShared, HeldIsOpen, OpenIsHeld, OneDescriptor, Serving
  <1>7. RequestKnown'
    BY <1>5 DEF RequestKnown
  <1> QED
    BY <1>2, <1>6, <1>7

(***************************************************************************)
(* Where the statements of cache.c go: a thread that executes one is, and  *)
(* stays, inside trans.                                                    *)
(***************************************************************************)
LEMMA ListStepLabels ==
  ASSUME IInv, NEW t \in Threads, ListStep(t)
  PROVE  /\ pc[t] \in InCache
         /\ \E l \in Busy : pc' = [pc EXCEPT ![t] = l]
         /\ uri' = uri /\ PrintReturns'
  <1> USE DEF IInv, TypeOK, ListTypeOK, ProcessTypeOK, PrintReturns, Printing, InCache, Busy, Labels,
              Goto, CallPrint, localVars
  <1>1. CASE Print95(t)
    BY <1>1 DEF Print95
  <1>2. CASE Print101(t)
    BY <1>2 DEF Print101
  <1>3. CASE PrintNext(t)
    BY <1>3 DEF PrintNext
  <1>4. CASE PrintLast(t)
    BY <1>4 DEF PrintLast
  <1>5. CASE Search56(t)
    BY <1>5 DEF Search56
  <1>6. CASE SearchFound(t)
    BY <1>6 DEF SearchFound
  <1>7. CASE SearchNext(t)
    BY <1>7 DEF SearchNext
  <1>8. CASE SearchMiss(t)
    BY <1>8 DEF SearchMiss
  <1>9. CASE Move83(t)
    BY <1>9 DEF Move83
  <1>10. CASE Move84(t)
    BY <1>10 DEF Move84
  <1>11. CASE Move86(t)
    BY <1>11 DEF Move86
  <1>12. CASE Move87(t)
    BY <1>12 DEF Move87
  <1>13. CASE Move88(t)
    BY <1>13 DEF Move88
  <1>14. CASE Move89(t)
    BY <1>14 DEF Move89
  <1>15. CASE Push16(t)
    BY <1>15 DEF Push16
  <1>16. CASE Push17(t)
    BY <1>16 DEF Push17
  <1>17. CASE Push18(t)
    BY <1>17 DEF Push18
  <1>18. CASE Push19(t)
    BY <1>18 DEF Push19
  <1>19. CASE Push21Load(t)
    BY <1>19 DEF Push21Load
  <1>20. CASE Push21Store(t)
    BY <1>20 DEF Push21Store
  <1>21. CASE Push24(t)
    BY <1>21 DEF Push24
  <1>22. CASE Push28(t)
    BY <1>22 DEF Push28
  <1>23. CASE Pop33(t)
    BY <1>23 DEF Pop33
  <1>24. CASE Pop37(t)
    BY <1>24 DEF Pop37
  <1>25. CASE Pop38(t)
    BY <1>25 DEF Pop38
  <1>26. CASE Pop40(t)
    BY <1>26 DEF Pop40
  <1>27. CASE Pop41(t)
    BY <1>27 DEF Pop41
  <1>28. CASE Pop43(t)
    BY <1>28 DEF Pop43
  <1>29. CASE Pop47Load(t)
    BY <1>29 DEF Pop47Load
  <1>30. CASE Pop47Store(t)
    BY <1>30 DEF Pop47Store
  <1> QED
    BY <1>1, <1>2, <1>3, <1>4, <1>5, <1>6, <1>7, <1>8, <1>9, <1>10, <1>11, <1>12, <1>13, <1>14,
       <1>15, <1>16, <1>17, <1>18, <1>19, <1>20, <1>21, <1>22, <1>23, <1>24, <1>25, <1>26, <1>27,
       <1>28, <1>29, <1>30 DEF ListStep

(***************************************************************************)
(* The statements of cache.c keep the types of the list and of the locals. *)
(***************************************************************************)
LEMMA ListStepType ==
  ASSUME IInv, NEW t \in Threads, ListStep(t), ListDerefs(t) \subseteq Addr
  PROVE  ListTypeOK'
  <1> USE HeapAssumption DEF IInv, TypeOK, ListTypeOK, Addr, listVars, localVars, Goto, CallPrint
  <1>1. CASE Print95(t)
    BY <1>1 DEF Print95
  <1>2. CASE Print101(t)
    BY <1>2 DEF Print101
  <1>3. CASE PrintNext(t)
    BY <1>3 DEF PrintNext
  <1>4. CASE PrintLast(t)
    BY <1>4 DEF PrintLast
  <1>5. CASE Search56(t)
    BY <1>5 DEF Search56
  <1>6. CASE SearchFound(t)
    BY <1>6 DEF SearchFound
  <1>7. CASE SearchNext(t)
    BY <1>7 DEF SearchNext
  <1>8. CASE SearchMiss(t)
    BY <1>8 DEF SearchMiss
  <1>9. CASE Move83(t)
    BY <1>9 DEF Move83, SetNext, SetPrev, ListDerefs
  <1>10. CASE Move84(t)
    BY <1>10 DEF Move84, SetNext, SetPrev, ListDerefs
  <1>11. CASE Move86(t)
    BY <1>11 DEF Move86, SetNext, SetPrev, ListDerefs
  <1>12. CASE Move87(t)
    BY <1>12 DEF Move87, SetNext, SetPrev, ListDerefs
  <1>13. CASE Move88(t)
    BY <1>13 DEF Move88, SetNext, SetPrev, ListDerefs
  <1>14. CASE Move89(t)
    BY <1>14 DEF Move89, SetNext, SetPrev, ListDerefs
  <1>15. CASE Push16(t)
    BY <1>15 DEF Push16, SetNext, SetPrev, ListDerefs
  <1>16. CASE Push17(t)
    BY <1>16 DEF Push17, SetNext, SetPrev, ListDerefs
  <1>17. CASE Push18(t)
    BY <1>17 DEF Push18, SetNext, SetPrev, ListDerefs
  <1>18. CASE Push19(t)
    BY <1>18 DEF Push19, SetNext, SetPrev, ListDerefs
  <1>19. CASE Push21Load(t)
    BY <1>19 DEF Push21Load, SetNext, SetPrev, ListDerefs
  <1>20. CASE Push21Store(t)
    BY <1>20 DEF Push21Store, SetNext, SetPrev, ListDerefs
  <1>21. CASE Push24(t)
    BY <1>21 DEF Push24, SetNext, SetPrev, ListDerefs
  <1>22. CASE Push28(t)
    BY <1>22 DEF Push28, SetNext, SetPrev, ListDerefs
  <1>23. CASE Pop33(t)
    BY <1>23 DEF Pop33, SetNext, SetPrev, ListDerefs
  <1>24. CASE Pop37(t)
    BY <1>24 DEF Pop37, SetNext, SetPrev, ListDerefs
  <1>25. CASE Pop38(t)
    BY <1>25 DEF Pop38, SetNext, SetPrev, ListDerefs
  <1>26. CASE Pop40(t)
    BY <1>26 DEF Pop40, SetNext, SetPrev, ListDerefs
  <1>27. CASE Pop41(t)
    BY <1>27 DEF Pop41, SetNext, SetPrev, ListDerefs
  <1>28. CASE Pop43(t)
    BY <1>28 DEF Pop43, SetNext, SetPrev, ListDerefs
  <1>29. CASE Pop47Load(t)
    BY <1>29 DEF Pop47Load, SetNext, SetPrev, ListDerefs
  <1>30. CASE Pop47Store(t)
    BY <1>30 DEF Pop47Store, SetNext, SetPrev, ListDerefs
  <1> QED
    BY <1>1, <1>2, <1>3, <1>4, <1>5, <1>6, <1>7, <1>8, <1>9, <1>10, <1>11, <1>12, <1>13, <1>14,
       <1>15, <1>16, <1>17, <1>18, <1>19, <1>20, <1>21, <1>22, <1>23, <1>24, <1>25, <1>26, <1>27,
       <1>28, <1>29, <1>30 DEF ListStep

LEMMA IllegalType == \A t : Illegal(t) \subseteq {"freed", "overflow", "unwritten"}
  BY DEF Illegal

LEMMA CacheStepIInv ==
  ASSUME IInv, NEW t \in Threads, CacheStep(t), Derefs(t) \subseteq Addr,
         ub' = ub \cup Illegal(t)
  PROVE  IInv'
  <1>1. /\ pc[t] \in InCache /\ PrintReturns' /\ uri' = uri
        /\ \E l \in Busy : pc' = [pc EXCEPT ![t] = l]
    BY ListStepLabels DEF CacheStep
  <1>2. Derefs(t) = ListDerefs(t)
    BY <1>1 DEF Derefs, InCache
  <1>3. ListTypeOK'
    BY <1>2, ListStepType DEF CacheStep
  <1>4. ProcessTypeOK'
    <2>1. ub' \subseteq {"freed", "overflow", "unwritten"}
      BY IllegalType DEF IInv, TypeOK, ProcessTypeOK
    <2>2. pc' \in [Threads -> Labels]
      BY <1>1 DEF IInv, TypeOK, ProcessTypeOK, Busy
    <2> QED
      BY <1>1, <2>1, <2>2 DEF IInv, TypeOK, ProcessTypeOK, CacheStep, mainVars, netVars
  <1>5. CellsOwned' /\ ConnectionOwned' /\ RequestKnown'
    BY <1>1, OwnershipFrame DEF CacheStep, InCache, netVars
  <1> QED
    BY <1>1, <1>3, <1>4, <1>5 DEF IInv, TypeOK

(***************************************************************************)
(* The steps of trans that keep the descriptors as they are.               *)
(***************************************************************************)
QuietTrans(t) ==
  Hit97(t) \/ Hit102(t) \/ Hit104(t) \/ Miss137(t) \/ Miss137Short(t)
  \/ Miss159Small(t) \/ Miss159Large(t) \/ Reply173(t)

LEMMA QuietTransType ==
  ASSUME IInv, NEW t \in Threads, QuietTrans(t), Derefs(t) \subseteq Addr,
         ub' = ub \cup Illegal(t)
  PROVE  TypeOK'
  <1> USE HeapAssumption, IllegalType
      DEF IInv, TypeOK, ListTypeOK, ProcessTypeOK, Addr, listVars, localVars, mainVars, netVars,
          Goto, Labels
  <1>1. CASE Hit97(t)
    BY <1>1 DEF Hit97
  <1>2. CASE Hit102(t)
    <2>1. node[t] \in Addr
      BY <1>2 DEF Hit102, Derefs
    <2> QED
      BY <1>2, <2>1 DEF Hit102
  <1>3. CASE Hit104(t)
    BY <1>3 DEF Hit104, Send
  <1>4. CASE Miss137(t)
    <2>1. uri[t] \in Uris \cup {Null}
      OBVIOUS
    <2>2. PICK n \in Nodes \ live : /\ node' = [node EXCEPT ![t] = n]
                                    /\ live' = live \cup {n}
                                    /\ mem' = [mem EXCEPT ![n].body = uri[t]]
      BY <1>4 DEF Miss137
    <2>3. ListTypeOK'
      BY <1>4, <2>1, <2>2 DEF Miss137
    <2>4. ProcessTypeOK'
      BY <1>4 DEF Miss137
    <2> QED
      BY <2>3, <2>4
  <1>5. CASE Miss159Small(t)
    <2>1. node[t] \in Addr
      BY <1>5 DEF Miss159Small, Derefs
    <2>2. Key(t) \in {Path[u] : u \in Uris}
      BY <1>5 DEF Key, RequestKnown, Miss159Small, Busy
    <2> QED
      BY <1>5, <2>1, <2>2 DEF Miss159Small
  <1>6. CASE Miss159Large(t)
    BY <1>6 DEF Miss159Large
  <1>7. CASE Reply173(t)
    BY <1>7 DEF Reply173, Send
  <1>8. CASE Miss137Short(t)
    <2>1. PICK n \in Nodes \ live : /\ node' = [node EXCEPT ![t] = n]
                                    /\ live' = live \cup {n}
                                    /\ mem' = [mem EXCEPT ![n].body = Null]
      BY <1>8 DEF Miss137Short
    <2>2. ListTypeOK'
      BY <1>8, <2>1 DEF Miss137Short
    <2>3. ProcessTypeOK'
      BY <1>8 DEF Miss137Short
    <2> QED
      BY <2>2, <2>3
  <1> QED
    BY <1>1, <1>2, <1>3, <1>4, <1>5, <1>6, <1>7, <1>8 DEF QuietTrans

LEMMA QuietTransIInv ==
  ASSUME IInv, NEW t \in Threads, QuietTrans(t), Derefs(t) \subseteq Addr,
         ub' = ub \cup Illegal(t)
  PROVE  IInv'
  <1>1. TypeOK'
    BY QuietTransType
  <1>2. /\ pc[t] \in Busy \ (Printing \cup {"t65"})
        /\ \E l \in Busy \ Printing : pc' = [pc EXCEPT ![t] = l]
        /\ UNCHANGED <<mainVars, uri, conn, want, fdt, connfd, ret>>
    BY DEF QuietTrans, Hit97, Hit102, Hit104, Miss137, Miss137Short, Miss159Small, Miss159Large,
           Reply173, Send, Goto, localVars, netVars, Busy, Labels, Printing
  <1>3. CellsOwned' /\ ConnectionOwned' /\ RequestKnown'
    BY <1>2, OwnershipFrame
  <1>4. PrintReturns'
    BY <1>2 DEF PrintReturns, IInv, TypeOK, ProcessTypeOK
  <1> QED
    BY <1>1, <1>3, <1>4 DEF IInv

-----------------------------------------------------------------------------
(* The steps that hand a descriptor on *)

LEMMA Malloc33IInv ==
  ASSUME IInv, Malloc33
  PROVE  IInv'
  <1> USE DEF IInv, Malloc33, listVars, localVars, netVars
  <1>1. TypeOK'
    BY DEF TypeOK, ListTypeOK, ProcessTypeOK
  <1>2. CellsOwned'
    BY DEF CellsOwned
  <1>3. PrintReturns' /\ RequestKnown'
    BY DEF PrintReturns, RequestKnown, Accepted
  <1>4. ConnectionOwned'
    BY DEF ConnectionOwned, NoDescriptorShared, HeldIsOpen, OpenIsHeld, OneDescriptor,
           HeldByMain, HeldBy, Serving, FdOf, Accepted
  <1> QED
    BY <1>1, <1>2, <1>3, <1>4

LEMMA Accept34IInv ==
  ASSUME IInv, NEW c \in Clients, NEW u \in Uris, Accept34(c, u)
  PROVE  IInv'
  <1> USE DEF IInv, listVars, localVars
  <1>1. PICK f \in Fds : /\ fdt[f] = Free
                         /\ fdt' = [fdt EXCEPT ![f] = c]
                         /\ cell' = [cell EXCEPT ![connfdp] = f]
    BY DEF Accept34, LowestFree, FreeFds
  <1>2. /\ mpc = "accept34" /\ mpc' = "create35" /\ conn[c] = "idle"
        /\ conn' = [conn EXCEPT ![c] = IF c \in Slow THEN "mute" ELSE "accepted"]
        /\ want' = [want EXCEPT ![c] = u]
        /\ connfdp \in cellLive /\ connfdp \in Cells
        /\ UNCHANGED <<mem, live, size, pc, uri, node, now, victim, reg, ret,
                       connfdp, cellLive, arg, connfd, buf, status, ub>>
    BY DEF Accept34, CellsOwned, TypeOK, ProcessTypeOK
  <1>3. TypeOK'
    BY <1>1, <1>2 DEF TypeOK, ListTypeOK, ProcessTypeOK
  <1>4. CellsOwned' /\ PrintReturns'
    BY <1>2 DEF CellsOwned, PrintReturns
  <1>5. Accepted' = Accepted \cup {c} /\ c \notin Accepted
    BY <1>2 DEF Accepted, TypeOK, ProcessTypeOK
  <1>6. RequestKnown'
    BY <1>2, <1>5 DEF RequestKnown, TypeOK, ProcessTypeOK, Accepted
  <1>7. Serving' = Serving /\ \A t \in Serving : FdOf(t)' = FdOf(t) /\ FdOf(t) # f
    <2>1. \A t \in Serving : FdOf(t) \in Fds /\ fdt[FdOf(t)] \in Clients
      BY DEF ConnectionOwned, HeldIsOpen, Accepted
    <2>2. \A t \in Threads : pc[t] = "t44" => arg[t] # connfdp
      BY <1>2 DEF CellsOwned
    <2> QED
      BY <1>1, <1>2, <2>1, <2>2, ClientsAssumption
      DEF Serving, FdOf, TypeOK, ProcessTypeOK, Free
  <1>8. cell'[connfdp] = f /\ fdt'[f] = c /\ \A g \in Fds \ {f} : fdt'[g] = fdt[g]
    BY <1>1, <1>2 DEF TypeOK, ProcessTypeOK
  <1>9. \A g \in Fds : fdt[g] # c
    BY <1>5 DEF ConnectionOwned, OpenIsHeld, HeldIsOpen, HeldByMain, HeldBy, Accepted
  <1>10. NoDescriptorShared'
    BY <1>2, <1>7, <1>8 DEF ConnectionOwned, NoDescriptorShared, HeldBy, HeldByMain
  <1>11. HeldIsOpen'
    BY <1>2, <1>5, <1>7, <1>8 DEF ConnectionOwned, HeldIsOpen
  <1>12. OpenIsHeld'
    BY <1>1, <1>2, <1>7, <1>8 DEF ConnectionOwned, OpenIsHeld, HeldBy, HeldByMain
  <1>13. OneDescriptor'
    BY <1>1, <1>5, <1>8, <1>9, ClientsAssumption
    DEF ConnectionOwned, OneDescriptor, Accepted, Free
  <1> QED
    BY <1>3, <1>4, <1>6, <1>10, <1>11, <1>12, <1>13 DEF ConnectionOwned

LEMMA Create35IInv ==
  ASSUME IInv, NEW t \in Threads, Create35(t)
  PROVE  IInv'
  <1> USE DEF IInv
  <1>1. /\ mpc = "create35" /\ mpc' = "malloc33" /\ pc[t] = "none"
        /\ pc' = [pc EXCEPT ![t] = "t44"] /\ arg' = [arg EXCEPT ![t] = connfdp]
        /\ connfdp' = Null /\ connfdp \in cellLive /\ connfdp \in Cells
        /\ UNCHANGED <<mem, live, size, uri, node, now, victim, reg, ret, conn, want,
                       cell, cellLive, fdt, connfd, buf, status, ub>>
    BY DEF Create35, CellsOwned, TypeOK, ProcessTypeOK, Goto, listVars, localVars, netVars
  <1>2. TypeOK'
    BY <1>1 DEF TypeOK, ListTypeOK, ProcessTypeOK, Labels
  <1>3. /\ pc'[t] = "t44" /\ arg'[t] = connfdp
        /\ \A u \in Threads \ {t} : pc'[u] = pc[u] /\ arg'[u] = arg[u]
    BY <1>1 DEF TypeOK, ProcessTypeOK
  <1>4. CellsOwned'
    BY <1>1, <1>3 DEF CellsOwned
  <1>5. PrintReturns' /\ RequestKnown'
    BY <1>1, <1>3 DEF PrintReturns, RequestKnown, Accepted, Printing, Busy
  <1>6. /\ Serving' = Serving \cup {t} /\ t \notin Serving /\ FdOf(t)' = cell[connfdp]
        /\ \A u \in Serving : FdOf(u)' = FdOf(u)
    BY <1>1, <1>3 DEF Serving, FdOf
  <1>7. /\ \A f \in Fds : ~HeldByMain(f)'
        /\ \A f \in Fds : HeldBy(t, f)' <=> HeldByMain(f)
        /\ \A f \in Fds : \A u \in Threads \ {t} : HeldBy(u, f)' <=> HeldBy(u, f)
        /\ \A f \in Fds : ~HeldBy(t, f)
    BY <1>1, <1>6 DEF HeldByMain, HeldBy
  <1>8. NoDescriptorShared'
    BY <1>7 DEF ConnectionOwned, NoDescriptorShared
  <1>9. HeldIsOpen'
    BY <1>1, <1>6 DEF ConnectionOwned, HeldIsOpen, Accepted
  <1>10. OpenIsHeld' /\ OneDescriptor'
    BY <1>1, <1>7 DEF ConnectionOwned, OpenIsHeld, OneDescriptor, Accepted
  <1> QED
    BY <1>2, <1>4, <1>5, <1>8, <1>9, <1>10 DEF ConnectionOwned

LEMMA T44IInv ==
  ASSUME IInv, NEW t \in Threads, T44(t)
  PROVE  IInv'
  <1> USE DEF IInv
  <1>1. /\ pc[t] = "t44" /\ pc' = [pc EXCEPT ![t] = "t46"]
        /\ connfd' = [connfd EXCEPT ![t] = cell[arg[t]]]
        /\ arg[t] \in Cells
        /\ UNCHANGED <<mem, live, size, uri, node, now, victim, reg, ret, conn, want, mpc,
                       connfdp, arg, cell, cellLive, fdt, buf, status, ub>>
    BY DEF T44, CellsOwned, TypeOK, ProcessTypeOK, Goto, listVars, localVars, netVars, mainVars
  <1>2. TypeOK'
    BY <1>1 DEF TypeOK, ListTypeOK, ProcessTypeOK, Labels
  <1>3. /\ pc'[t] = "t46" /\ connfd'[t] = cell[arg[t]]
        /\ \A u \in Threads \ {t} : pc'[u] = pc[u] /\ connfd'[u] = connfd[u]
    BY <1>1 DEF TypeOK, ProcessTypeOK
  <1>4. CellsOwned' /\ PrintReturns' /\ RequestKnown'
    BY <1>1, <1>3 DEF CellsOwned, PrintReturns, RequestKnown, Accepted, Printing, Busy
  <1>5. Serving' = Serving /\ \A u \in Serving : FdOf(u)' = FdOf(u)
    BY <1>1, <1>3 DEF Serving, FdOf
  <1>6. \A f \in Fds : /\ HeldByMain(f)' <=> HeldByMain(f)
                       /\ \A u \in Threads : HeldBy(u, f)' <=> HeldBy(u, f)
    BY <1>1, <1>5 DEF HeldByMain, HeldBy
  <1>7. ConnectionOwned'
    BY <1>1, <1>5, <1>6
    DEF ConnectionOwned, NoDescriptorShared, HeldIsOpen, OpenIsHeld, OneDescriptor, Accepted
  <1> QED
    BY <1>2, <1>4, <1>7

LEMMA T46IInv ==
  ASSUME IInv, NEW t \in Threads, T46(t)
  PROVE  IInv'
  <1> USE DEF IInv
  <1>1. /\ pc[t] = "t46" /\ pc' = [pc EXCEPT ![t] = "t65"]
        /\ cellLive' = cellLive \ {arg[t]} /\ arg' = [arg EXCEPT ![t] = Null]
        /\ cell' = [cell EXCEPT ![arg[t]] = NoFd]
        /\ UNCHANGED <<mem, live, size, uri, node, now, victim, reg, ret, conn, want, mpc,
                       connfdp, fdt, connfd, buf, status, ub>>
    BY DEF T46, Goto, listVars, localVars, netVars
  <1>2. /\ mpc \in {"accept34", "create35"} => arg[t] # connfdp
        /\ \A u \in Threads \ {t} : pc[u] \in {"t44", "t46"} => arg[u] # arg[t]
    BY <1>1 DEF CellsOwned
  <1>3. TypeOK'
    BY <1>1 DEF TypeOK, ListTypeOK, ProcessTypeOK, Labels
  <1>4. /\ pc'[t] = "t65"
        /\ \A u \in Threads \ {t} : pc'[u] = pc[u] /\ arg'[u] = arg[u]
        /\ \A p \in Cells \ {arg[t]} : cell'[p] = cell[p]
    BY <1>1 DEF TypeOK, ProcessTypeOK
  <1>5. CellsOwned' /\ PrintReturns' /\ RequestKnown'
    BY <1>1, <1>2, <1>4 DEF CellsOwned, PrintReturns, RequestKnown, Accepted, Printing, Busy
  <1>6. \A u \in Threads : pc[u] = "t44" => arg[u] \in Cells
    BY DEF CellsOwned, TypeOK, ProcessTypeOK
  <1>7. Serving' = Serving /\ \A u \in Serving : FdOf(u)' = FdOf(u)
    BY <1>1, <1>2, <1>4, <1>6 DEF Serving, FdOf
  <1>8. mpc = "create35" => cell'[connfdp] = cell[connfdp]
    BY <1>2, <1>4 DEF CellsOwned, TypeOK, ProcessTypeOK
  <1>9. \A f \in Fds : /\ HeldByMain(f)' <=> HeldByMain(f)
                       /\ \A u \in Threads : HeldBy(u, f)' <=> HeldBy(u, f)
    BY <1>1, <1>7, <1>8 DEF HeldByMain, HeldBy
  <1>10. ConnectionOwned'
    BY <1>1, <1>7, <1>8, <1>9
    DEF ConnectionOwned, NoDescriptorShared, HeldIsOpen, OpenIsHeld, OneDescriptor, Accepted
  <1> QED
    BY <1>3, <1>5, <1>10

\* The thread has read some uri: the one its client wants, or another one.
Parsed(t) == T65(t) \/ (T65Gone(t) /\ ub' = ub \cup Illegal(t))

LEMMA T65IInv ==
  ASSUME IInv, NEW t \in Threads, Parsed(t)
  PROVE  IInv'
  <1> USE DEF IInv
  <1>1. /\ pc[t] = "t65" /\ pc' = [pc EXCEPT ![t] = "search56"]
        /\ ub' \subseteq {"freed", "overflow", "unwritten"}
        /\ UNCHANGED <<mem, live, size, node, now, victim, reg, ret, conn, want, mpc,
                       connfdp, arg, cell, cellLive, fdt, connfd, buf, status>>
    BY IllegalType
    DEF Parsed, T65, T65Gone, Goto, listVars, netVars, mainVars, TypeOK, ProcessTypeOK
  <1>2. \E u \in Uris : uri' = [uri EXCEPT ![t] = u]
    <2>1. want[Client(t)] \in Uris
      BY <1>1 DEF Client, RequestKnown, ConnectionOwned, HeldIsOpen, Serving, FdOf
    <2> QED
      BY <2>1 DEF Parsed, T65, T65Gone
  <1>3. TypeOK'
    BY <1>1, <1>2 DEF TypeOK, ListTypeOK, ProcessTypeOK, Labels
  <1>4. /\ pc'[t] = "search56" /\ uri'[t] \in Uris
        /\ \A u \in Threads \ {t} : pc'[u] = pc[u] /\ uri'[u] = uri[u]
    BY <1>1, <1>2 DEF TypeOK, ProcessTypeOK
  <1>5. CellsOwned' /\ PrintReturns' /\ RequestKnown'
    BY <1>1, <1>4 DEF CellsOwned, PrintReturns, RequestKnown, Accepted, Printing, Busy
  <1>6. Serving' = Serving /\ \A u \in Serving : FdOf(u)' = FdOf(u)
    BY <1>1, <1>4 DEF Serving, FdOf
  <1>7. \A f \in Fds : /\ HeldByMain(f)' <=> HeldByMain(f)
                       /\ \A u \in Threads : HeldBy(u, f)' <=> HeldBy(u, f)
    BY <1>1, <1>6 DEF HeldByMain, HeldBy
  <1>8. ConnectionOwned'
    BY <1>1, <1>6, <1>7
    DEF ConnectionOwned, NoDescriptorShared, HeldIsOpen, OpenIsHeld, OneDescriptor, Accepted
  <1> QED
    BY <1>3, <1>5, <1>8

LEMMA Miss108IInv ==
  ASSUME IInv, NEW t \in Threads, Miss108(t), ub' = ub \cup Illegal(t)
  PROVE  IInv'
  <1> USE DEF IInv
  <1>1. PICK f \in Fds : fdt[f] = Free /\ fdt' = [fdt EXCEPT ![f] = Origin]
    BY DEF Miss108, LowestFree, FreeFds
  <1>2. /\ pc[t] = "miss108" /\ pc' = [pc EXCEPT ![t] = "miss137"]
        /\ UNCHANGED <<mem, live, size, uri, node, now, victim, reg, ret, conn, want, mpc,
                       connfdp, arg, cell, cellLive, connfd, buf, status>>
    BY DEF Miss108, Goto, listVars, localVars, netVars, mainVars
  <1>3. ub' \subseteq {"freed", "overflow", "unwritten"}
    BY IllegalType DEF TypeOK, ProcessTypeOK
  <1>4. TypeOK'
    BY <1>1, <1>2, <1>3 DEF TypeOK, ListTypeOK, ProcessTypeOK, Labels
  <1>5. /\ pc'[t] = "miss137" /\ \A u \in Threads \ {t} : pc'[u] = pc[u]
        /\ fdt'[f] = Origin /\ \A g \in Fds \ {f} : fdt'[g] = fdt[g]
        /\ Origin \notin Clients /\ Free \notin Clients
    <2>1. Origin \notin Clients /\ Free \notin Clients
      BY ClientsAssumption DEF Origin, Free
    <2>2. /\ pc'[t] = "miss137" /\ \A u \in Threads \ {t} : pc'[u] = pc[u]
      BY <1>2 DEF TypeOK, ProcessTypeOK
    <2>3. fdt'[f] = Origin /\ \A g \in Fds \ {f} : fdt'[g] = fdt[g]
      BY <1>1 DEF TypeOK, ProcessTypeOK
    <2> QED
      BY <2>1, <2>2, <2>3
  <1>6. CellsOwned' /\ PrintReturns' /\ RequestKnown'
    BY <1>2, <1>5 DEF CellsOwned, PrintReturns, RequestKnown, Accepted, Printing, Busy, Labels
  <1>7. Serving' = Serving /\ \A u \in Serving : FdOf(u)' = FdOf(u)
    BY <1>2, <1>5 DEF Serving, FdOf
  <1>8. \A g \in Fds : /\ HeldByMain(g)' <=> HeldByMain(g)
                       /\ \A u \in Threads : HeldBy(u, g)' <=> HeldBy(u, g)
    BY <1>2, <1>7 DEF HeldByMain, HeldBy
  <1>9. Accepted' = Accepted /\ Accepted \subseteq Clients
    BY <1>2 DEF Accepted
  <1>10. NoDescriptorShared' /\ OpenIsHeld'
    BY <1>5, <1>8 DEF ConnectionOwned, NoDescriptorShared, OpenIsHeld
  <1>11. HeldIsOpen'
    BY <1>1, <1>2, <1>5, <1>7, <1>9 DEF ConnectionOwned, HeldIsOpen
  <1>12. OneDescriptor'
    BY <1>1, <1>5, <1>9 DEF ConnectionOwned, OneDescriptor
  <1> QED
    BY <1>4, <1>6, <1>10, <1>11, <1>12 DEF ConnectionOwned

LEMMA Close48IInv ==
  ASSUME IInv, NEW t \in Threads, Close48(t), ub' = ub \cup Illegal(t)
  PROVE  IInv'
  <1> USE DEF IInv
  <1> DEFINE f == connfd[t]
             c == fdt[f]
  <1>1. /\ pc[t] = "close48" /\ pc' = [pc EXCEPT ![t] = "none"]
        /\ conn' = [conn EXCEPT ![c] = "idle"] /\ fdt' = [fdt EXCEPT ![f] = Free]
        /\ connfd' = [connfd EXCEPT ![t] = NoFd] /\ uri' = [uri EXCEPT ![t] = Null]
        /\ node' = [node EXCEPT ![t] = Null] /\ ret' = [ret EXCEPT ![t] = "none"]
        /\ buf' = [buf EXCEPT ![t] = Null]
        /\ UNCHANGED <<mem, live, size, now, victim, reg, want, mpc,
                       connfdp, arg, cell, cellLive, status>>
    BY DEF Close48, Client, Goto, listVars, mainVars
  <1>2. ub' \subseteq {"freed", "overflow", "unwritten"}
    BY IllegalType DEF TypeOK, ProcessTypeOK
  <1>3. TypeOK'
    BY <1>1, <1>2 DEF TypeOK, ListTypeOK, ProcessTypeOK, Labels
  <1>4. t \in Serving /\ FdOf(t) = f /\ f \in Fds /\ c \in Accepted /\ c \in Clients
    <2>1. t \in Serving /\ FdOf(t) = connfd[t]
      BY <1>1 DEF Serving, FdOf
    <2> QED
      BY <2>1 DEF ConnectionOwned, HeldIsOpen, Accepted
  <1>5. /\ pc'[t] = "none"
        /\ \A u \in Threads \ {t} : pc'[u] = pc[u] /\ connfd'[u] = connfd[u] /\ uri'[u] = uri[u]
                                    /\ ret'[u] = ret[u]
        /\ fdt'[f] = Free /\ \A g \in Fds \ {f} : fdt'[g] = fdt[g]
        /\ Free \notin Clients
    BY <1>1, <1>4, ClientsAssumption DEF TypeOK, ProcessTypeOK, ListTypeOK, Free
  <1>6. Accepted' = Accepted \ {c}
    BY <1>1, <1>4 DEF Accepted, TypeOK, ProcessTypeOK
  <1>7. CellsOwned' /\ PrintReturns' /\ RequestKnown'
    BY <1>1, <1>5, <1>6 DEF CellsOwned, PrintReturns, RequestKnown, Printing, Busy
  <1>8. Serving' = Serving \ {t} /\ \A u \in Serving \ {t} : FdOf(u)' = FdOf(u)
    BY <1>1, <1>5 DEF Serving, FdOf
  <1>9. \A u \in Serving \ {t} : FdOf(u) # f
    BY <1>4 DEF ConnectionOwned, NoDescriptorShared, HeldBy, Serving
  <1>10. mpc = "create35" => cell[connfdp] # f
    BY <1>4 DEF ConnectionOwned, NoDescriptorShared, HeldBy, HeldByMain
  <1>11. \A g \in Fds : fdt[g] = c => g = f
    BY <1>4 DEF ConnectionOwned, OneDescriptor
  <1>12. \A g \in Fds : /\ HeldByMain(g)' <=> HeldByMain(g)
                        /\ \A u \in Threads \ {t} : HeldBy(u, g)' <=> HeldBy(u, g)
                        /\ ~HeldBy(t, g)' /\ (HeldBy(t, g) => g = f)
    BY <1>1, <1>4, <1>8 DEF HeldByMain, HeldBy
  <1>13. NoDescriptorShared'
    BY <1>12 DEF ConnectionOwned, NoDescriptorShared
  <1>14. HeldIsOpen'
    <2>1. \A u \in Serving' : FdOf(u)' \in Fds /\ fdt'[FdOf(u)'] \in Accepted'
      BY <1>5, <1>6, <1>8, <1>9, <1>11 DEF ConnectionOwned, HeldIsOpen
    <2>2. mpc' = "create35" =>
            /\ cell'[connfdp'] \in Fds /\ fdt'[cell'[connfdp']] \in Accepted'
      BY <1>1, <1>5, <1>6, <1>10, <1>11 DEF ConnectionOwned, HeldIsOpen
    <2> QED
      BY <2>1, <2>2 DEF HeldIsOpen
  <1>15. OpenIsHeld'
    BY <1>5, <1>12 DEF ConnectionOwned, OpenIsHeld
  <1>16. OneDescriptor'
    BY <1>5, <1>6, <1>11 DEF ConnectionOwned, OneDescriptor
  <1> QED
    BY <1>3, <1>7, <1>13, <1>14, <1>15, <1>16 DEF ConnectionOwned

(***************************************************************************)
(* Steps that change nothing the invariant reads but the way a connection  *)
(* is open, or whether the process runs.                                   *)
(***************************************************************************)
LEMMA ClientIs ==
  ASSUME NEW c, SendOn(c) \/ GiveUp(c)
  PROVE  /\ conn[c] \in {"mute", "line", "accepted"}
         /\ \E x \in {"line", "accepted"} \cup Closed :
              /\ conn' = [conn EXCEPT ![c] = x]
              /\ conn[c] = "accepted" => x = "reset"
         /\ UNCHANGED <<listVars, pc, localVars, mainVars, want, reply, fdt, connfd, buf, status, ub>>
  <1>1. /\ DOMAIN Sends = {"mute", "line"} /\ Sends["mute"] = "line" /\ Sends["line"] = "accepted"
        /\ DOMAIN Leaving = {"mute", "line", "accepted"}
        /\ Leaving["mute"] = "gone" /\ Leaving["line"] = "left" /\ Leaving["accepted"] = "reset"
    BY DEF Sends, Leaving
  <1>2. CASE SendOn(c)
    <2> DEFINE x == Sends[conn[c]]
    <2>1. conn[c] \in {"mute", "line"} /\ conn' = [conn EXCEPT ![c] = x]
      BY <1>1, <1>2, Zenon DEF SendOn
    <2>2. x \in {"line", "accepted"}
      BY <1>1, <2>1
    <2>3. UNCHANGED <<listVars, pc, localVars, mainVars, want, reply, fdt, connfd, buf, status, ub>>
      BY <1>2 DEF SendOn
    <2> HIDE DEF x
    <2> QED
      BY <2>1, <2>2, <2>3
  <1>3. CASE GiveUp(c)
    <2> DEFINE x == Leaving[conn[c]]
    <2>1. conn[c] \in {"mute", "line", "accepted"} /\ conn' = [conn EXCEPT ![c] = x]
      BY <1>1, <1>3, Zenon DEF GiveUp
    <2>2. x \in Closed /\ (conn[c] = "accepted" => x = "reset")
      BY <1>1, <2>1 DEF Closed
    <2>3. UNCHANGED <<listVars, pc, localVars, mainVars, want, reply, fdt, connfd, buf, status, ub>>
      BY <1>3 DEF GiveUp
    <2> HIDE DEF x
    <2> QED
      BY <2>1, <2>2, <2>3
  <1> QED
    BY <1>2, <1>3

LEMMA ClientIInv ==
  ASSUME IInv, NEW c \in Clients, SendOn(c) \/ GiveUp(c)
  PROVE  IInv'
  <1> USE DEF IInv
  <1>1. /\ conn[c] \in {"mute", "line", "accepted"}
        /\ UNCHANGED <<mem, live, size, pc, uri, node, now, victim, reg, ret, want, reply, mpc,
                       connfdp, arg, cell, cellLive, fdt, connfd, buf, status, ub>>
    BY ClientIs DEF listVars, localVars, mainVars
  <1>2. PICK x \in {"line", "accepted"} \cup Closed :
          /\ conn' = [conn EXCEPT ![c] = x]
          /\ conn[c] = "accepted" => x = "reset"
    BY ClientIs
  <1>3. /\ conn' \in [Clients -> {"idle", "mute", "line", "accepted"} \cup Closed]
        /\ conn'[c] = x /\ x # "idle" /\ \A d \in Clients \ {c} : conn'[d] = conn[d]
    <2>1. conn \in [Clients -> {"idle", "mute", "line", "accepted"} \cup Closed]
      BY DEF TypeOK, ProcessTypeOK
    <2>2. x \in {"idle", "mute", "line", "accepted"} \cup Closed /\ x # "idle"
      BY <1>2 DEF Closed
    <2> QED
      BY <1>2, <2>1, <2>2
  <1>4. TypeOK'
    BY <1>1, <1>3 DEF TypeOK, ListTypeOK, ProcessTypeOK
  <1>5. Accepted' = Accepted
    <2>1. \A d \in Clients : conn'[d] = "idle" <=> conn[d] = "idle"
      BY <1>1, <1>3
    <2> QED
      BY <2>1 DEF Accepted
  <1>6. RequestKnown'
    BY <1>1, <1>2, <1>3, <1>5 DEF RequestKnown
  <1>7. CellsOwned' /\ PrintReturns'
    BY <1>1 DEF CellsOwned, PrintReturns
  <1>8. ConnectionOwned'
    BY <1>1, <1>5 DEF ConnectionOwned, NoDescriptorShared, HeldIsOpen, OpenIsHeld, OneDescriptor,
                      HeldByMain, HeldBy, Serving, FdOf
  <1> QED
    BY <1>4, <1>6, <1>7, <1>8

\* No connection is opened or closed by the proxy then, and a client that is gone stays away.
LEMMA OpenKept ==
  ASSUME IInv, NEW c \in Clients, SendOn(c) \/ GiveUp(c)
  PROVE  /\ Accepted' = Accepted /\ \A d \in Clients : conn'[d] # "gone" => conn[d] # "gone"
         /\ UNCHANGED <<listVars, pc, localVars, mainVars, want, reply, fdt, connfd, buf, status, ub>>
  <1>1. /\ conn[c] \in {"mute", "line", "accepted"}
        /\ UNCHANGED <<listVars, pc, localVars, mainVars, want, reply, fdt, connfd, buf, status, ub>>
    BY ClientIs
  <1>2. PICK x \in {"line", "accepted"} \cup Closed : conn' = [conn EXCEPT ![c] = x]
    BY ClientIs
  <1>3. \A d \in Clients : /\ d # c => conn'[d] = conn[d]
                           /\ d = c => conn'[d] # "idle" /\ conn[d] \notin {"idle", "gone"}
    BY <1>1, <1>2 DEF IInv, TypeOK, ProcessTypeOK, Closed
  <1>4. Accepted' = Accepted
    BY <1>3 DEF Accepted
  <1> QED
    BY <1>1, <1>3, <1>4

LEMMA StopIInv ==
  ASSUME IInv, status' \in {"running", "exited", "crashed"}, ub' \subseteq {"freed", "overflow", "unwritten"},
         UNCHANGED <<listVars, pc, localVars, mainVars, netVars, fdt, connfd, buf>>
  PROVE  IInv'
  <1> USE DEF IInv, listVars, localVars, mainVars, netVars
  <1>1. TypeOK'
    BY DEF TypeOK, ListTypeOK, ProcessTypeOK
  <1>2. CellsOwned' /\ PrintReturns' /\ RequestKnown'
    BY DEF CellsOwned, PrintReturns, RequestKnown, Accepted
  <1>3. ConnectionOwned'
    BY DEF ConnectionOwned, NoDescriptorShared, HeldIsOpen, OpenIsHeld, OneDescriptor,
           HeldByMain, HeldBy, Serving, FdOf, Accepted
  <1> QED
    BY <1>1, <1>2, <1>3

LEMMA ExitIInv == ASSUME IInv, Exit PROVE IInv'
  BY StopIInv DEF Exit, IInv, TypeOK, ProcessTypeOK

LEMMA CrashIInv == ASSUME IInv, NEW t \in Threads, Crash(t) PROVE IInv'
  BY StopIInv, IllegalType DEF Crash, IInv, TypeOK, ProcessTypeOK

-----------------------------------------------------------------------------

LEMMA NextIInv == IInv /\ [Next]_vars => IInv'
  <1> SUFFICES ASSUME IInv, [Next]_vars PROVE IInv'
    OBVIOUS
  <1>1. CASE Main
    BY <1>1, Malloc33IInv, ExitIInv, Create35IInv DEF Main, AcceptError
  <1>2. CASE Environment
    BY <1>2, ClientIInv, Accept34IInv DEF Environment
  <1>3. ASSUME NEW t \in Threads, Thread(t) PROVE IInv'
    <2>1. CASE T44(t) \/ T46(t) \/ T65(t)
      BY <2>1, T44IInv, T46IInv, T65IInv DEF Parsed
    <2>2. CASE Miss108Error(t)
      BY <2>2, ExitIInv DEF Miss108Error
    <2>3. CASE CacheStep(t) /\ Derefs(t) \subseteq Addr /\ ub' = ub \cup Illegal(t)
      BY <2>3, CacheStepIInv
    <2>4. CASE TransStep(t) /\ Derefs(t) \subseteq Addr /\ ub' = ub \cup Illegal(t)
      BY <2>4, T65IInv, QuietTransIInv, Miss108IInv, Close48IInv DEF TransStep, QuietTrans, Parsed
    <2> QED
      BY <1>3, <2>1, <2>2, <2>3, <2>4 DEF Thread, Statement
  <1>4. ASSUME NEW t \in Threads, ReadError(t) \/ Crash(t) PROVE IInv'
    BY <1>4, ExitIInv, CrashIInv DEF ReadError
  <1>5. CASE UNCHANGED vars
    BY <1>5, StopIInv DEF vars, IInv, TypeOK, ProcessTypeOK
  <1> QED
    BY <1>1, <1>2, <1>3, <1>4, <1>5 DEF Next

(***************************************************************************)
(* Type correctness, for every number of threads, clients and blocks.      *)
(***************************************************************************)
THEOREM ProxyTypeCorrect == Spec => []TypeOK
  <1>1. IInv => TypeOK
    BY DEF IInv
  <1> QED
    BY InitIInv, NextIInv, <1>1, PTL DEF Spec

(***************************************************************************)
(* Every accepted connection is open on one descriptor, held by main or by *)
(* exactly one thread, whatever the threads do to the list they share: the *)
(* races of cache.c never mix up who answers whom.                         *)
(***************************************************************************)
THEOREM ProxyOwnsConnections == Spec => []ConnectionOwned
  <1>1. IInv => ConnectionOwned
    BY DEF IInv
  <1> QED
    BY InitIInv, NextIInv, <1>1, PTL DEF Spec

-----------------------------------------------------------------------------
(* The list as a sequence of nodes: what writing a link makes of it. *)

LEMMA CellsAre ==
  ASSUME NEW s \in Seq(Nodes)
  PROVE  /\ Len(s) \in Nat
         /\ \A i \in 1..Len(s) : s[i] \in Nodes /\ Cell(s, i) = s[i] /\ s[i] # HeadNode
         /\ Cell(s, 0) = HeadNode /\ Cell(s, Len(s) + 1) = HeadNode
         /\ \A i \in Int : Cell(s, i) \in Addr
<1>1. Len(s) \in Nat /\ \A i \in 1..Len(s) : s[i] \in Nodes
  BY LenProperties, ElementOfSeq
<1> QED BY <1>1, HeapAssumption DEF Cell, Addr

\* Keys differ, so the nodes do, and a node that is not in the list is not one of its cells.
LEMMA Apartness ==
  ASSUME NEW s \in Seq(Nodes), NEW m, Keyed(m, s)
  PROVE  /\ \A i, j \in 1..Len(s) : s[i] = s[j] => i = j
         /\ \A n \in Nodes : ~In(s, n) => \A i \in Int : Cell(s, i) # n
         /\ \A i, j \in 0..Len(s) : Cell(s, i) = Cell(s, j) => i = j
         /\ \A i, j \in 1..Len(s) + 1 : Cell(s, i) = Cell(s, j) => i = j
<1>1. \A i, j \in 1..Len(s) : s[i] = s[j] => i = j
  BY DEF Keyed
<1>2. \A n \in Nodes : ~In(s, n) => \A i \in Int : Cell(s, i) # n
  BY HeapAssumption DEF Cell, In
<1> QED BY <1>1, <1>2, CellsAre DEF Cell

\* Writing a link of a node that is not in the list.
LEMMA WriteApart ==
  ASSUME NEW s \in Seq(Nodes), NEW m \in Memory, Keyed(m, s), NEW n \in Nodes, ~In(s, n),
         NEW w, w \in Memory, \A a \in Addr \ {n} : w[a] = m[a]
  PROVE  /\ Forward(m, s) => Forward(w, s)
         /\ \A k : Backward(m, s, k) => Backward(w, s, k)
         /\ Keyed(w, s)
         /\ \A p : Absent(m, s, p) => Absent(w, s, p)
<1>1. \A i \in Int : Cell(s, i) \in Addr \ {n}
  BY CellsAre, Apartness
<1>2. \A i \in Int : w[Cell(s, i)] = m[Cell(s, i)]
  BY <1>1
<1>3. \A i \in 1..Len(s) : w[s[i]] = m[s[i]] /\ i \in Int
  BY <1>2, CellsAre
<1>4. Forward(m, s) => Forward(w, s)
  BY <1>2, CellsAre DEF Forward
<1>5. \A k : Backward(m, s, k) => Backward(w, s, k)
  BY <1>2, CellsAre DEF Backward
<1> QED BY <1>3, <1>4, <1>5 DEF Keyed, Absent

\* What writing a link leaves alone.
LEMMA WritesPrev ==
  ASSUME NEW m \in Memory, NEW a \in Addr, NEW q \in Addr \cup {Null}
  PROVE  /\ WithPrev(m, a, q) \in Memory
         /\ \A b \in Addr : /\ WithPrev(m, a, q)[b].next = m[b].next /\ WithPrev(m, a, q)[b].path = m[b].path
                            /\ WithPrev(m, a, q)[b].body = m[b].body
                            /\ b # a => WithPrev(m, a, q)[b].prev = m[b].prev
         /\ WithPrev(m, a, q)[a].prev = q
BY DEF Memory, WithPrev

LEMMA WritesNext ==
  ASSUME NEW m \in Memory, NEW a \in Addr, NEW q \in Addr \cup {Null}
  PROVE  /\ WithNext(m, a, q) \in Memory
         /\ \A b \in Addr : /\ WithNext(m, a, q)[b].prev = m[b].prev /\ WithNext(m, a, q)[b].path = m[b].path
                            /\ WithNext(m, a, q)[b].body = m[b].body
                            /\ b # a => WithNext(m, a, q)[b].next = m[b].next
         /\ WithNext(m, a, q)[a].next = q
BY DEF Memory, WithNext

LEMMA PrevKeeps ==
  ASSUME NEW s \in Seq(Nodes), NEW m \in Memory, NEW a \in Addr, NEW q \in Addr \cup {Null}
  PROVE  /\ Forward(m, s) => Forward(WithPrev(m, a, q), s)
         /\ Keyed(m, s) => Keyed(WithPrev(m, a, q), s)
         /\ \A p : Absent(m, s, p) => Absent(WithPrev(m, a, q), s, p)
<1> DEFINE w == WithPrev(m, a, q)
<1>1. /\ \A b \in Addr : w[b].next = m[b].next /\ w[b].path = m[b].path /\ w[b].body = m[b].body
  BY WritesPrev
<1> HIDE DEF w
<1>2. \A i \in 1..Len(s) : s[i] \in Addr
  BY CellsAre DEF Addr
<1>3. Forward(m, s) => Forward(w, s)
  BY <1>1, CellsAre DEF Forward
<1>4. (Keyed(m, s) => Keyed(w, s)) /\ \A p : Absent(m, s, p) => Absent(w, s, p)
  <2> HIDE DEF Addr
  <2> QED BY <1>1, <1>2 DEF Keyed, Absent
<1> QED BY <1>3, <1>4 DEF w

LEMMA NextKeeps ==
  ASSUME NEW s \in Seq(Nodes), NEW m \in Memory, NEW a \in Addr, NEW q \in Addr \cup {Null}
  PROVE  /\ \A k : Backward(m, s, k) => Backward(WithNext(m, a, q), s, k)
         /\ Keyed(m, s) => Keyed(WithNext(m, a, q), s)
         /\ \A p : Absent(m, s, p) => Absent(WithNext(m, a, q), s, p)
<1> DEFINE w == WithNext(m, a, q)
<1>1. /\ \A b \in Addr : w[b].prev = m[b].prev /\ w[b].path = m[b].path /\ w[b].body = m[b].body
  BY WritesNext
<1> HIDE DEF w
<1>2. \A i \in 1..Len(s) : s[i] \in Addr
  BY CellsAre DEF Addr
<1>3. \A k : Backward(m, s, k) => Backward(w, s, k)
  BY <1>1, CellsAre DEF Backward
<1>4. (Keyed(m, s) => Keyed(w, s)) /\ \A p : Absent(m, s, p) => Absent(w, s, p)
  <2> HIDE DEF Addr
  <2> QED BY <1>1, <1>2 DEF Keyed, Absent
<1> QED BY <1>3, <1>4 DEF w

\* Where a node is taken out of the list, at place j.
LEMMA WithoutCells ==
  ASSUME NEW s \in Seq(Nodes), NEW j \in 1..Len(s)
  PROVE  /\ Without(s, j) \in Seq(Nodes) /\ Len(Without(s, j)) = Len(s) - 1
         /\ \A i \in 0..j - 1 : Cell(Without(s, j), i) = Cell(s, i)
         /\ \A i \in j..Len(s) : Cell(Without(s, j), i) = Cell(s, i + 1)
<1> DEFINE r == Without(s, j)
<1>1. Len(s) \in Nat /\ \A i \in 1..Len(s) : s[i] \in Nodes
  BY CellsAre
<1>2. \A i \in 1..Len(s) - 1 : (IF i < j THEN s[i] ELSE s[i + 1]) \in Nodes
  BY <1>1
<1>3. r \in Seq(Nodes) /\ Len(r) = Len(s) - 1
  <2>1. r \in [1..Len(s) - 1 -> Nodes]
    BY <1>2 DEF Without
  <2>2. Len(s) - 1 \in Nat
    BY <1>1
  <2> QED BY <2>1, <2>2
<1>4. \A i \in 1..Len(s) - 1 : r[i] = IF i < j THEN s[i] ELSE s[i + 1]
  BY DEF Without
<1> HIDE DEF r
<1> QED BY <1>1, <1>3, <1>4 DEF Cell, r

LEMMA TakeOut ==
  ASSUME NEW s \in Seq(Nodes), NEW j \in 1..Len(s), NEW n, n = s[j],
         NEW m \in Memory, Forward(m, s), Backward(m, s, 0), Keyed(m, s)
  PROVE  UnlinkedAt(WithNext(m, m[n].prev, m[n].next), Without(s, j), s, n, m[n].path, j)
<1> DEFINE r == Without(s, j)
           w == WithNext(m, m[n].prev, m[n].next)
           p == m[n].path
<1>1. /\ r \in Seq(Nodes) /\ Len(r) = Len(s) - 1 /\ Len(s) \in Nat /\ Len(r) \in Nat
      /\ \A i \in 0..j - 1 : Cell(r, i) = Cell(s, i)
      /\ \A i \in j..Len(s) : Cell(r, i) = Cell(s, i + 1)
  BY WithoutCells, CellsAre
<1>2. /\ Cell(s, j) = n /\ n \in Nodes /\ n # HeadNode
      /\ \A i \in Int : Cell(s, i) \in Addr
      /\ \A i \in 1..Len(s) : s[i] \in Nodes /\ Cell(s, i) = s[i] /\ s[i] # HeadNode
      /\ \A i \in 1..Len(r) : r[i] \in Nodes /\ Cell(r, i) = r[i] /\ r[i] # HeadNode
  BY <1>1, CellsAre
<1> HIDE DEF r
<1>3. m[n].prev = Cell(s, j - 1) /\ m[n].next = Cell(s, j + 1)
  <2>1. j \in 1..Len(s) + 1 /\ j # 0 /\ j \in 0..Len(s)
    BY <1>1
  <2> QED BY <1>2, <2>1 DEF Forward, Backward
<1>4. /\ \A i, k \in 0..Len(s) : Cell(s, i) = Cell(s, k) => i = k
      /\ \A i, k \in 1..Len(s) + 1 : Cell(s, i) = Cell(s, k) => i = k
  BY Apartness
<1>5. /\ w \in Memory
      /\ \A b \in Addr : w[b].prev = m[b].prev /\ w[b].path = m[b].path /\ w[b].body = m[b].body
      /\ \A b \in Addr : b # Cell(s, j - 1) => w[b].next = m[b].next
      /\ w[Cell(s, j - 1)].next = Cell(s, j + 1)
  <2>1. Cell(s, j - 1) \in Addr /\ Cell(s, j + 1) \in Addr
    BY <1>1, <1>2
  <2>2. w = WithNext(m, Cell(s, j - 1), Cell(s, j + 1))
    BY <1>3
  <2>3. /\ Cell(s, j - 1) \in Addr /\ Cell(s, j + 1) \in Addr \cup {Null}
          BY <2>1
  <2>4. WithNext(m, Cell(s, j - 1), Cell(s, j + 1)) \in Memory
    BY <2>3, WritesNext
  <2>5. \A b \in Addr : b # Cell(s, j - 1) => WithNext(m, Cell(s, j - 1), Cell(s, j + 1))[b].next = m[b].next
    BY <2>3, WritesNext
  <2>6. WithNext(m, Cell(s, j - 1), Cell(s, j + 1))[Cell(s, j - 1)].next = Cell(s, j + 1)
    BY <2>3, WritesNext
  <2>7. \A b \in Addr : WithNext(m, Cell(s, j - 1), Cell(s, j + 1))[b].path = m[b].path
    BY <2>3, WritesNext
  <2>8. \A b \in Addr : WithNext(m, Cell(s, j - 1), Cell(s, j + 1))[b].body = m[b].body
    BY <2>3, WritesNext
  <2>9. \A b \in Addr : WithNext(m, Cell(s, j - 1), Cell(s, j + 1))[b].prev = m[b].prev
    BY <2>3, WritesNext
  <2> QED BY <2>2, <2>4, <2>5, <2>6, <2>7, <2>8, <2>9
<1> HIDE DEF w, p
<1>6. Forward(w, r)
  <2>1. SUFFICES ASSUME NEW i \in 0..Len(r) PROVE w[Cell(r, i)].next = Cell(r, i + 1)
    BY DEF Forward
  <2>2. CASE i < j - 1
    <3>1. i \in 0..j - 1 /\ i + 1 \in 0..j - 1 /\ i \in 0..Len(s) /\ j - 1 \in 0..Len(s) /\ i # j - 1
      BY <1>1, <2>2
    <3>3. Cell(r, i) = Cell(s, i) /\ Cell(r, i + 1) = Cell(s, i + 1)
      BY <1>1, <3>1
    <3>2. Cell(s, i) # Cell(s, j - 1) /\ Cell(s, i) \in Addr
      BY <1>2, <1>4, <3>1
    <3> QED BY <1>5, <3>1, <3>2, <3>3 DEF Forward
  <2>3. CASE i = j - 1
    <3>1. Cell(r, i) = Cell(s, j - 1) /\ Cell(r, i + 1) = Cell(s, j + 1)
      BY <1>1, <2>3
    <3> QED BY <1>5, <3>1
  <2>4. CASE i > j - 1
    <3>1. i \in j..Len(s) /\ i + 1 \in j..Len(s) /\ i + 1 \in 0..Len(s) /\ j - 1 \in 0..Len(s) /\ i + 1 # j - 1
      BY <1>1, <2>4
    <3>3. Cell(r, i) = Cell(s, i + 1) /\ Cell(r, i + 1) = Cell(s, (i + 1) + 1)
      BY <1>1, <3>1
    <3>2. Cell(s, i + 1) # Cell(s, j - 1) /\ Cell(s, i + 1) \in Addr
      BY <1>2, <1>4, <3>1
    <3> QED BY <1>5, <3>1, <3>2, <3>3 DEF Forward
  <2> QED BY <2>2, <2>3, <2>4, <1>1
<1>7. Backward(w, r, j)
  <2>1. SUFFICES ASSUME NEW i \in 1..Len(r) + 1, i # j PROVE w[Cell(r, i)].prev = Cell(r, i - 1)
    BY DEF Backward
  <2>2. CASE i < j
    <3>2. i \in 0..j - 1 /\ i - 1 \in 0..j - 1 /\ i \in 1..Len(s) + 1 /\ i # 0
      BY <1>1, <2>2
    <3>1. Cell(r, i) = Cell(s, i) /\ Cell(r, i - 1) = Cell(s, i - 1) /\ i \in 1..Len(s) + 1 /\ i # 0
      BY <1>1, <3>2
    <3> QED BY <1>2, <1>5, <3>1 DEF Backward
  <2>3. CASE i > j
    <3>2. i \in j..Len(s) /\ i - 1 \in j..Len(s) /\ i + 1 \in 1..Len(s) + 1 /\ i + 1 # 0
          /\ (i - 1) + 1 = (i + 1) - 1
      BY <1>1, <2>3
    <3>1. Cell(r, i) = Cell(s, i + 1) /\ Cell(r, i - 1) = Cell(s, (i - 1) + 1) /\ i + 1 \in 1..Len(s) + 1 /\ i + 1 # 0
          /\ (i - 1) + 1 = (i + 1) - 1
      BY <1>1, <3>2
    <3> QED BY <1>2, <1>5, <3>1 DEF Backward
  <2> QED BY <2>1, <2>2, <2>3, <1>1
<1>8. \A i \in 1..Len(r) : \E k \in 1..Len(s) : k # j /\ r[i] = s[k] /\ k = (IF i < j THEN i ELSE i + 1)
  BY <1>1, <1>2
<1>9. \A k \in 1..Len(s) : k = j \/ \E i \in 1..Len(r) : s[k] = r[i]
  <2> TAKE k \in 1..Len(s)
  <2>1. CASE k < j
    <3>1. k \in 1..Len(r) /\ Cell(r, k) = Cell(s, k)
      BY <1>1, <2>1
    <3> QED BY <1>2, <3>1
  <2>2. CASE k > j
    <3>1. k - 1 \in 1..Len(r) /\ Cell(r, k - 1) = Cell(s, (k - 1) + 1) /\ (k - 1) + 1 = k
      BY <1>1, <2>2
    <3> QED BY <1>2, <3>1
  <2> QED BY <2>1, <2>2, <1>1
<1>10. \A i \in 1..Len(s) : w[s[i]].path = m[s[i]].path /\ w[s[i]].body = m[s[i]].body
  BY <1>2, <1>5 DEF Addr
<1>17. m[n].path = p
  BY DEF p
<1>15. \A i \in 1..Len(r) : \E k \in 1..Len(s) : r[i] = s[k]
  BY <1>8
<1>11. Keyed(w, r)
  <2>1. \A i \in 1..Len(r) : Page(w[r[i]].body, w[r[i]].path)
    <3> TAKE i \in 1..Len(r)
    <3>1. PICK k \in 1..Len(s) : r[i] = s[k]
      BY <1>15
    <3> QED BY <1>10, <3>1 DEF Keyed
  <2>2. ASSUME NEW i \in 1..Len(r), NEW k \in 1..Len(r), w[r[i]].path = w[r[k]].path PROVE i = k
    <3>1. PICK ii \in 1..Len(s) : r[i] = s[ii] /\ ii = (IF i < j THEN i ELSE i + 1)
      BY <1>8
    <3>2. PICK kk \in 1..Len(s) : r[k] = s[kk] /\ kk = (IF k < j THEN k ELSE k + 1)
      BY <1>8
    <3>3. ii = kk
      BY <1>10, <2>2, <3>1, <3>2 DEF Keyed
    <3> QED BY <3>1, <3>2, <3>3
  <2> QED BY <2>1, <2>2 DEF Keyed
<1>12. Apart(w, r, n, p)
  <2>1. w[n].path = p /\ Page(w[n].body, p)
    <3>1. Page(m[s[j]].body, m[s[j]].path) /\ s[j] = n
      BY <1>1, <1>2 DEF Keyed
    <3>2. w[n].path = p /\ w[n].body = m[n].body
      BY <1>1, <1>10, <1>17, <3>1
    <3> QED BY <1>17, <3>1, <3>2
  <2>2. ~In(r, n)
    BY <1>8, Apartness DEF In
  <2>3. Absent(w, r, p)
    <3> SUFFICES ASSUME NEW i \in 1..Len(r), w[r[i]].path = p PROVE FALSE
      BY DEF Absent
    <3>1. PICK k \in 1..Len(s) : k # j /\ r[i] = s[k]
      BY <1>8
    <3>2. m[s[k]].path = m[s[j]].path
      BY <1>10, <1>17, <3>1
    <3> QED BY <3>1, <3>2 DEF Keyed
  <2> QED BY <1>2, <2>1, <2>2, <2>3 DEF Apart
<1>13. w[n].prev = Cell(r, j - 1) /\ w[n].next = Cell(r, j)
  <2>1. j - 1 \in 0..j-1 /\ j \in j..Len(s) /\ j \in 0..Len(s) /\ j - 1 \in 0..Len(s) /\ j # j - 1
    BY <1>1
  <2>2. Cell(s, j) # Cell(s, j - 1) /\ Cell(s, j) \in Addr
    BY <1>2, <1>4, <2>1
  <2> QED BY <1>1, <1>2, <1>3, <1>5, <2>1, <2>2
<1>14. {s[i] : i \in 1..Len(s)} = {r[i] : i \in 1..Len(r)} \cup {n}
  <2>1. \A i \in 1..Len(s) : s[i] \in {r[k] : k \in 1..Len(r)} \cup {n}
    BY <1>9
  <2>2. n \in {s[i] : i \in 1..Len(s)}
    OBVIOUS
  <2>3. \A k \in 1..Len(r) : r[k] \in {s[i] : i \in 1..Len(s)}
    BY <1>15
  <2> QED BY <2>1, <2>2, <2>3
<1>16. j - 1 \in 0..Len(r)
  BY <1>1
<1> QED BY <1>1, <1>6, <1>7, <1>11, <1>12, <1>13, <1>14, <1>16 DEF UnlinkedAt, w, r, p

\* A node is linked at the front: after the dummy node points at it.
LEMMA Prepend ==
  ASSUME NEW s \in Seq(Nodes), NEW m \in Memory, NEW n, NEW p, Apart(m, s, n, p), Keyed(m, s),
         Forward(m, s), Backward(m, s, 1), m[Cell(s, 1)].prev = n, m[n].next = Cell(s, 1)
  PROVE  LinkedAt(WithNext(m, HeadNode, n), <<n>> \o s, s, n, p)
<1> DEFINE w == WithNext(m, HeadNode, n)
           r == <<n>> \o s
<1>1. n \in Nodes /\ HeadNode \in Addr /\ n \in Addr /\ n \in Addr \cup {Null}
  BY DEF Apart, Addr
<1>2. /\ w \in Memory
      /\ \A b \in Addr : w[b].prev = m[b].prev /\ w[b].path = m[b].path /\ w[b].body = m[b].body
      /\ \A b \in Addr : b # HeadNode => w[b].next = m[b].next
      /\ w[HeadNode].next = n
  BY <1>1, WritesNext
<1>3. r \in Seq(Nodes) /\ Len(r) = Len(s) + 1 /\ r[1] = n /\ \A i \in 1..Len(s) : r[i + 1] = s[i]
  <2>1. <<n>> \in Seq(Nodes) /\ Len(<<n>>) = 1 /\ <<n>>[1] = n
    BY <1>1
  <2>2. /\ r \in Seq(Nodes) /\ Len(r) = Len(<<n>>) + Len(s)
        /\ \A i \in 1..(Len(<<n>>) + Len(s)) : r[i] = IF i <= Len(<<n>>) THEN <<n>>[i] ELSE s[i - Len(<<n>>)]
    BY <2>1, ConcatProperties
  <2>3. Len(s) \in Nat
    BY CellsAre
  <2> HIDE DEF r
  <2> QED BY <2>1, <2>2, <2>3
<1> HIDE DEF w, r
<1>4. Len(s) \in Nat /\ \A i \in 1..Len(s) : s[i] \in Addr /\ s[i] # HeadNode
  BY CellsAre DEF Addr
<1>5. Cell(r, 0) = HeadNode /\ Cell(r, 1) = n /\ \A i \in 1..Len(s) + 1 : Cell(r, i + 1) = Cell(s, i)
  BY <1>3, <1>4 DEF Cell
<1>6. \A i \in 1..Len(s) : Cell(s, i) # HeadNode /\ Cell(s, i) \in Addr
  BY CellsAre DEF Addr
<1>7. Forward(w, r)
  <2>1. SUFFICES ASSUME NEW i \in 0..Len(s) + 1 PROVE w[Cell(r, i)].next = Cell(r, i + 1)
    BY <1>3 DEF Forward
  <2>2. CASE i = 0
    BY <1>2, <1>5, <2>2
  <2>3. CASE i = 1
    <3>1. 1 \in 1..Len(s) + 1
      BY <1>4
    <3>2. n # HeadNode /\ Cell(r, 1 + 1) = Cell(s, 1)
      BY <1>1, <1>5, <3>1, HeapAssumption
    <3> QED BY <1>1, <1>2, <1>5, <2>3, <3>2
  <2>4. CASE i > 1
    <3>1. i - 1 \in 1..Len(s) + 1 /\ (i - 1) + 1 \in 1..Len(s) + 1 /\ i - 1 \in 1..Len(s) /\ i - 1 \in 0..Len(s) /\ (i - 1) + 1 = i
      BY <1>4, <2>4
    <3>2. Cell(r, i) = Cell(s, i - 1) /\ Cell(r, i + 1) = Cell(s, (i - 1) + 1)
      BY <1>5, <3>1
    <3>3. m[Cell(s, i - 1)].next = Cell(s, (i - 1) + 1)
      BY <3>1 DEF Forward
    <3> QED BY <1>2, <1>6, <3>1, <3>2, <3>3
  <2> QED BY <1>4, <2>2, <2>3, <2>4
<1>8. Backward(w, r, 1)
  <2>1. SUFFICES ASSUME NEW i \in 2..Len(s) + 2 PROVE w[Cell(r, i)].prev = Cell(r, i - 1)
    BY <1>3, <1>4 DEF Backward
  <2>2. CASE i = 2
    <3>1. 1 \in 1..Len(s) + 1 /\ 1 \in Int /\ 1 + 1 = 2 /\ 2 - 1 = 1
      BY <1>4
    <3>2. Cell(r, 2) = Cell(s, 1) /\ Cell(s, 1) \in Addr
      BY <1>5, <3>1, CellsAre
    <3> QED BY <1>2, <1>5, <2>2, <3>1, <3>2
  <2>3. CASE i > 2
    <3>1. /\ i - 1 \in 1..Len(s) + 1 /\ (i - 1) - 1 \in 1..Len(s) + 1 /\ i - 1 # 1 /\ (i - 1) + 1 = i
          /\ ((i - 1) - 1) + 1 = i - 1 /\ i - 1 \in Int
      BY <1>4, <2>3
    <3>2. Cell(r, i) = Cell(s, i - 1) /\ Cell(r, i - 1) = Cell(s, (i - 1) - 1) /\ Cell(s, i - 1) \in Addr
      BY <1>5, <3>1, CellsAre
    <3>3. m[Cell(s, i - 1)].prev = Cell(s, (i - 1) - 1)
      BY <3>1 DEF Backward
    <3> QED BY <1>2, <3>2, <3>3
  <2> QED BY <1>4, <2>2, <2>3
<1>9. \A i \in 1..Len(r) : i = 1 \/ (i - 1 \in 1..Len(s) /\ r[i] = s[i - 1])
  <2> TAKE i \in 1..Len(r)
  <2>1. i = 1 \/ (i - 1 \in 1..Len(s) /\ (i - 1) + 1 = i)
    BY <1>3, <1>4
  <2> QED BY <1>3, <2>1
<1>10. w[n].path = p /\ Page(w[n].body, p)
  BY <1>1, <1>2 DEF Apart
<1>11. \A i \in 1..Len(s) : w[s[i]].path = m[s[i]].path /\ w[s[i]].body = m[s[i]].body /\ w[s[i]].path # p
  BY <1>2, <1>4 DEF Apart, Absent
<1>12. Keyed(w, r)
  <2>1. ASSUME NEW i \in 1..Len(r) PROVE Page(w[r[i]].body, w[r[i]].path)
    <3>1. CASE i = 1
      BY <1>3, <1>10, <3>1
    <3>2. CASE i - 1 \in 1..Len(s) /\ r[i] = s[i - 1]
      BY <1>11, <3>2 DEF Keyed
    <3> QED BY <1>9, <3>1, <3>2
  <2>2. ASSUME NEW i \in 1..Len(r), NEW k \in 1..Len(r), w[r[i]].path = w[r[k]].path PROVE i = k
    <3>1. CASE i = 1 \/ k = 1
      <4>1. \A j \in 1..Len(r) : j = 1 \/ w[r[j]].path # p
        BY <1>9, <1>11
      <4>2. w[r[1]].path = p
        BY <1>3, <1>10
      <4> QED BY <2>2, <3>1, <4>1, <4>2
    <3>2. CASE i # 1 /\ k # 1
      <4>1. i - 1 \in 1..Len(s) /\ r[i] = s[i - 1] /\ k - 1 \in 1..Len(s) /\ r[k] = s[k - 1]
        BY <1>9, <3>2
      <4>2. m[s[i - 1]].path = m[s[k - 1]].path
        BY <1>11, <2>2, <4>1
      <4>3. i - 1 = k - 1
        BY <4>1, <4>2 DEF Keyed
      <4> QED BY <4>3
    <3> QED BY <3>1, <3>2
  <2> QED BY <2>1, <2>2 DEF Keyed
<1>13. Front(w, r, n, p)
  BY <1>3, <1>4, <1>10 DEF Front
<1>14. {r[i] : i \in 1..Len(r)} = {s[i] : i \in 1..Len(s)} \cup {n}
  <2>1. \A i \in 1..Len(r) : r[i] \in {s[k] : k \in 1..Len(s)} \cup {n}
    BY <1>3, <1>9
  <2>2. \A i \in 1..Len(s) : i + 1 \in 1..Len(r) /\ r[i + 1] = s[i]
    BY <1>3, <1>4
  <2>3. 1 \in 1..Len(r)
    BY <1>3, <1>4
  <2> QED BY <1>3, <2>1, <2>2, <2>3
<1> QED BY <1>3, <1>7, <1>8, <1>12, <1>13, <1>14 DEF LinkedAt, w, r

\* The last node is taken off the next links.
LEMMA CutLast ==
  ASSUME NEW s \in Seq(Nodes), Len(s) > 0, NEW m \in Memory, Keyed(m, s), Forward(m, s),
         Backward(m, s, Len(s) + 1), m[HeadNode].prev = Cell(s, Len(s) - 1)
  PROVE  CutAt(WithNext(m, m[s[Len(s)]].prev, HeadNode), Without(s, Len(s)), s, m)
<1> DEFINE l == Len(s)
           v == s[Len(s)]
           w == WithNext(m, m[v].prev, HeadNode)
           r == Without(s, l)
<1>1. /\ r \in Seq(Nodes) /\ Len(r) = l - 1 /\ l \in Nat \ {0} /\ Len(r) \in Nat
      /\ \A i \in 0..l - 1 : Cell(r, i) = Cell(s, i)
      /\ Cell(r, l) = HeadNode
  <2>1. l \in 1..Len(s) /\ Len(s) \in Nat
    BY CellsAre
  <2>2. r \in Seq(Nodes) /\ Len(r) = l - 1 /\ \A i \in 0..l - 1 : Cell(r, i) = Cell(s, i)
    BY <2>1, WithoutCells
  <2> HIDE DEF r
  <2>3. Cell(r, Len(r) + 1) = HeadNode
    BY <2>2, CellsAre
  <2>4. Len(r) + 1 = l /\ Len(r) \in Nat
    BY <2>1, <2>2
  <2> QED BY <2>1, <2>2, <2>3, <2>4
<1>2. v \in Nodes /\ v = Cell(s, l) /\ m[v].prev = Cell(s, l - 1) /\ Cell(s, l - 1) \in Addr
      /\ HeadNode \in Addr \cup {Null} /\ \A i \in Int : Cell(s, i) \in Addr
  <2>1. l \in 1..Len(s) /\ l \in 1..Len(s) + 1 /\ l # l + 1 /\ l - 1 \in Int
    BY <1>1
  <2>2. v \in Nodes /\ v = Cell(s, l)
    BY <2>1, CellsAre
  <2>3. m[Cell(s, l)].prev = Cell(s, l - 1)
    BY <2>1 DEF Backward
  <2> QED BY <2>1, <2>2, <2>3, CellsAre DEF Addr
<1>20. w = WithNext(m, Cell(s, l - 1), HeadNode)
  BY <1>2
<1> HIDE DEF w
<1>3. w \in Memory
  BY <1>2, <1>20, WritesNext
<1>4. \A b \in Addr : w[b].prev = m[b].prev /\ w[b].path = m[b].path /\ w[b].body = m[b].body
  <2> DEFINE a == Cell(s, l - 1)
  <2>1. a \in Addr /\ HeadNode \in Addr \cup {Null}
    BY <1>2
  <2> HIDE DEF a
  <2>2. \A b \in Addr : /\ WithNext(m, a, HeadNode)[b].prev = m[b].prev /\ WithNext(m, a, HeadNode)[b].path = m[b].path
                        /\ WithNext(m, a, HeadNode)[b].body = m[b].body
    BY <2>1, WritesNext
  <2> QED BY <1>20, <2>2 DEF a
<1>5. w[Cell(s, l - 1)].next = HeadNode /\ \A b \in Addr : b # Cell(s, l - 1) => w[b].next = m[b].next
  <2>1. Cell(s, l - 1) \in Addr /\ HeadNode \in Addr \cup {Null}
    BY <1>2
  <2>2. WithNext(m, Cell(s, l - 1), HeadNode)[Cell(s, l - 1)].next = HeadNode
    BY <2>1, WritesNext
  <2>3. \A b \in Addr : b # Cell(s, l - 1) => WithNext(m, Cell(s, l - 1), HeadNode)[b].next = m[b].next
    BY <2>1, WritesNext
  <2> QED BY <1>20, <2>2, <2>3
<1>6. \A i \in 1..l : s[i] \in Addr /\ s[i] = Cell(s, i)
  BY CellsAre DEF Addr
<1> HIDE DEF r
<1>7. Forward(w, r)
  <2>1. SUFFICES ASSUME NEW i \in 0..l - 1 PROVE w[Cell(r, i)].next = Cell(r, i + 1)
    BY <1>1 DEF Forward
  <2>2. CASE i = l - 1
    <3>1. Cell(r, i) = Cell(s, l - 1) /\ i + 1 = l
      BY <1>1, <2>2
    <3> QED BY <1>1, <1>5, <3>1
  <2>3. CASE i # l - 1
    <3>1. i \in 0..l - 1 /\ i + 1 \in 0..l - 1 /\ i \in 0..Len(s) /\ l - 1 \in 0..Len(s) /\ i \in Int
      BY <1>1, <2>3
    <3>2. Cell(r, i) = Cell(s, i) /\ Cell(r, i + 1) = Cell(s, i + 1) /\ Cell(s, i) # Cell(s, l - 1) /\ Cell(s, i) \in Addr
      BY <1>1, <1>2, <2>3, <3>1, Apartness
    <3>3. m[Cell(s, i)].next = Cell(s, i + 1)
      BY <3>1 DEF Forward
    <3> QED BY <1>5, <3>2, <3>3
  <2> QED BY <2>2, <2>3
<1>8. Backward(w, r, 0)
  <2>1. SUFFICES ASSUME NEW i \in 1..l PROVE w[Cell(r, i)].prev = Cell(r, i - 1)
    BY <1>1 DEF Backward
  <2>2. CASE i = l
    <3>1. Cell(r, l - 1) = Cell(s, l - 1)
      BY <1>1
    <3> QED BY <1>1, <1>4, <2>2, <3>1 DEF Addr
  <2>3. CASE i # l
    <3>1. i \in 0..l - 1 /\ i - 1 \in 0..l - 1 /\ i \in 1..Len(s) + 1 /\ i # l + 1 /\ i \in Int
      BY <1>1, <2>3
    <3>2. Cell(r, i) = Cell(s, i) /\ Cell(r, i - 1) = Cell(s, i - 1) /\ Cell(s, i) \in Addr
      BY <1>1, <1>2, <3>1
    <3>3. m[Cell(s, i)].prev = Cell(s, i - 1)
      BY <3>1 DEF Backward
    <3> QED BY <1>4, <3>2, <3>3
  <2> QED BY <2>2, <2>3
<1>9. \A i \in 1..Len(r) : i \in 1..l /\ i # l /\ r[i] = s[i]
  <2> TAKE i \in 1..Len(r)
  <2>1. i \in 1..l /\ i # l /\ i \in 0..l - 1
    BY <1>1
  <2>2. Cell(r, i) = r[i] /\ Cell(s, i) = s[i]
    BY <1>1, <2>1 DEF Cell
  <2> QED BY <1>1, <2>1, <2>2
<1>10. Keyed(w, r)
  <2>1. \A i \in 1..Len(r) : i \in 1..l /\ w[r[i]].path = m[s[i]].path /\ w[r[i]].body = m[s[i]].body
    BY <1>4, <1>6, <1>9
  <2> QED BY <2>1 DEF Keyed
<1>11. ~In(r, v)
  <2>1. l \in 1..Len(s)
    BY <1>1
  <2> QED BY <1>9, <2>1, Apartness DEF In
<1>12. ASSUME NEW n, NEW p, Len(s) > 1, Front(m, s, n, p) PROVE Front(w, r, n, p)
  <2>1. 1 \in 1..Len(r) /\ 1 \in 1..l
    BY <1>1, <1>12
  <2>2. r[1] = n /\ w[n].path = p
    BY <1>4, <1>6, <1>9, <1>12, <2>1 DEF Front
  <2> QED BY <1>1, <2>1, <2>2 DEF Front
<1>13. {s[i] : i \in 1..Len(s)} = {r[i] : i \in 1..Len(r)} \cup {v}
  <2>1. \A i \in 1..l : i = l \/ (i \in 1..Len(r) /\ r[i] = s[i])
    <3> TAKE i \in 1..l
    <3>1. i = l \/ i \in 1..Len(r)
      BY <1>1
    <3> QED BY <1>9, <3>1
  <2>2. l \in 1..Len(s)
    BY <1>1
  <2> QED BY <1>9, <2>1, <2>2
<1> QED BY <1>1, <1>2, <1>3, <1>7, <1>8, <1>10, <1>11, <1>12, <1>13 DEF CutAt, w, r

-----------------------------------------------------------------------------
(* What the statements make of the list and of what their thread knows. *)

LEMMA IInvTyped == IInv => Typed /\ PrintReturns /\ RequestKnown
BY DEF IInv, TypeOK, ListTypeOK, ProcessTypeOK, Typed, Memory, Paths

\* Walking the list.
LEMMA Ends ==
  ASSUME NEW s, Listed(s)
  PROVE  /\ mem[HeadNode].next = Cell(s, 1) /\ mem[HeadNode].next \in Addr
         /\ Len(s) > 0 => mem[HeadNode].next = s[1] /\ In(s, s[1])
<1>1. Len(s) \in Nat /\ Cell(s, 0) = HeadNode /\ 0 \in 0..Len(s) /\ 1 \in Int /\ 0 + 1 = 1 /\ Cell(s, 1) \in Addr
  BY CellsAre DEF Listed
<1>2. mem[HeadNode].next = Cell(s, 1)
  BY <1>1 DEF Listed, Forward
<1> QED BY <1>1, <1>2 DEF Cell, In

LEMMA NextIn ==
  ASSUME NEW s, Listed(s), Backward(mem, s, 0), NEW n, In(s, n), n # mem[HeadNode].prev
  PROVE  In(s, mem[n].next)
<1>1. PICK i \in 1..Len(s) : s[i] = n
  BY DEF In
<1>2. Len(s) \in Nat /\ Cell(s, i) = n /\ Cell(s, Len(s) + 1) = HeadNode
  BY <1>1, CellsAre DEF Listed
<1>3. mem[HeadNode].prev = Cell(s, Len(s))
  <2>1. Len(s) + 1 \in 1..Len(s) + 1 /\ Len(s) + 1 # 0 /\ (Len(s) + 1) - 1 = Len(s)
    BY <1>2
  <2> QED BY <1>2, <2>1 DEF Backward
<1>4. i # Len(s)
  BY <1>2, <1>3
<1>5. mem[n].next = Cell(s, i + 1) /\ i + 1 \in 1..Len(s)
  <2>1. i \in 0..Len(s) /\ i + 1 \in 1..Len(s)
    BY <1>2, <1>4
  <2> QED BY <1>2, <2>1 DEF Listed, Forward
<1> QED BY <1>5 DEF Cell, In

LEMMA ListHolds ==
  ASSUME NEW s, Listed(s)
  PROVE  \A n, p : Front(mem, s, n, p) \/ Within(mem, s, n, p) =>
            /\ In(s, n) /\ n \in Nodes /\ mem[n].path = p /\ Page(mem[n].body, p)
<1>1. Len(s) \in Nat /\ \A i \in 1..Len(s) : s[i] \in Nodes
  BY CellsAre DEF Listed
<1>2. ASSUME NEW n, NEW p, Front(mem, s, n, p) \/ Within(mem, s, n, p)
      PROVE  /\ In(s, n) /\ n \in Nodes /\ mem[n].path = p /\ Page(mem[n].body, p)
  <2>1. mem[n].path = p /\ \E i \in 1..Len(s) : s[i] = n
    BY <1>1, <1>2 DEF Front, Within
  <2>2. PICK i \in 1..Len(s) : s[i] = n
    BY <2>1
  <2> QED BY <1>1, <2>1, <2>2 DEF Listed, Keyed, In
<1> QED BY <1>2

\* The statements that only read the list.
LEMMA PrintWhere ==
  ASSUME Typed, PrintReturns, NEW t \in Threads, NEW s, Listed(s), Where(t, s),
         UNCHANGED buf, Print95(t) \/ Print101(t) \/ PrintNext(t) \/ PrintLast(t)
  PROVE  Listed(s)' /\ Where(t, s)'
<1>1. Listed(s)'
  BY DEF Listed, Print95, Print101, PrintNext, PrintLast, listVars
<1>a. CASE Print95(t)
  <2>1. /\ pc[t] = "print95" /\ pc'[t] = (IF size = 0 THEN ret[t] ELSE "print101")
        /\ UNCHANGED <<mem, live, size, uri, node, now, victim, reg, ret, buf>>
    BY <1>a DEF Print95, Goto, Typed, listVars, localVars
  <2>2. ret[t] \in {"search63", "hit102", "push28", "reply173"}
    BY <2>1 DEF Typed, PrintReturns, Printing
  <2>3. Backwards(mem, s, pc[t], node[t], victim[t])'
    BY <2>1, <2>2 DEF Where, Backwards
  <2>4. Counted(s, pc[t], size, reg[t])'
    BY <2>1, <2>2 DEF Where, Counted, Relinking, Popping
  <2>5. Allocated(s, pc[t], node[t], victim[t], live)'
    BY <2>1, <2>2 DEF Where, Allocated, Loose, Relinking, Pushing
  <2>6. Known(mem, s, pc[t], node[t], Key(t))'
    BY <2>1, <2>2 DEF Where, Known, Printed, Printing, First, Relinking, Pushing, Popping, Key
  <2>7. Printed(mem, s, pc[t], node[t], Key(t), ret[t], now[t])'
    BY <2>1, <2>2 DEF Where, Counted, Relinking, Popping, Printed, Printing, Key
  <2>8. Chosen(s, pc[t], victim[t])'
    BY <2>1, <2>2 DEF Chosen
  <2>9. Holds(mem, s, pc[t], node[t], uri[t], buf[t])'
    BY <2>1, <2>2 DEF Where, Holds, Counted, Relinking, Popping, Printed, Printing, Front
  <2> QED BY <1>1, <2>3, <2>4, <2>5, <2>6, <2>7, <2>8, <2>9 DEF Where
<1> USE DEF Where, Backwards, Counted, Allocated, Loose, Known, Printed, Printing, Chosen, Holds,
            Relinking, Pushing, Popping, First, Key
<1>b. CASE Print101(t)
  <2>1. /\ pc[t] = "print101" /\ pc'[t] = "print102" /\ now'[t] = mem[HeadNode].next
        /\ UNCHANGED <<mem, live, size, uri, node, victim, reg, ret, buf>>
    BY <1>b DEF Print101, Goto, Typed, listVars, localVars
  <2>2. In(s, now'[t]) /\ Len(s) > 0
    BY <2>1, Ends
  <2> QED BY <1>1, <2>1, <2>2
<1>c. CASE PrintNext(t)
  <2>1. /\ pc[t] = "print102" /\ pc'[t] = "print102" /\ now'[t] = mem[now[t]].next
        /\ now[t] # mem[HeadNode].prev
        /\ UNCHANGED <<mem, live, size, uri, node, victim, reg, ret, buf>>
    BY <1>c DEF PrintNext, Goto, Typed, listVars, localVars
  <2>2. In(s, now'[t])
    BY <2>1, NextIn
  <2> QED BY <1>1, <2>1, <2>2
<1>d. CASE PrintLast(t)
  <2>1. /\ pc[t] = "print102" /\ pc'[t] = ret[t] /\ now'[t] = Null
        /\ UNCHANGED <<mem, live, size, uri, node, victim, reg, ret, buf>>
    BY <1>d DEF PrintLast, Goto, Typed, listVars, localVars
  <2>2. ret[t] \in {"search63", "hit102", "push28", "reply173"}
    BY <2>1 DEF Typed, PrintReturns
  <2>3. Front(mem, s, node[t], Path[uri[t]]) =>
          /\ In(s, node[t]) /\ node[t] \in Nodes /\ Page(mem[node[t]].body, Path[uri[t]])
    BY ListHolds
  <2> QED BY <1>1, <2>1, <2>2, <2>3
<1> QED BY <1>a, <1>b, <1>c, <1>d

\* How far search has come.
LEMMA Searches ==
  ASSUME Typed, NEW s, Listed(s), NEW p
  PROVE  /\ Reached(mem, s, mem[HeadNode].next, p)
         /\ \A n \in Nodes : Reached(mem, s, n, p) => In(s, n)
         /\ \A n \in Nodes : Reached(mem, s, n, p) /\ mem[n].path = p => Within(mem, s, n, p)
         /\ \A n \in Nodes : Reached(mem, s, n, p) /\ mem[n].path # p => Reached(mem, s, mem[n].next, p)
         /\ Reached(mem, s, HeadNode, p) => Absent(mem, s, p)
<1>1. /\ Len(s) \in Nat /\ Cell(s, Len(s) + 1) = HeadNode
      /\ \A i \in 1..Len(s) : s[i] \in Nodes /\ Cell(s, i) = s[i] /\ s[i] # HeadNode
  BY CellsAre DEF Listed
<1>2. Reached(mem, s, mem[HeadNode].next, p)
  <2>1. 1 \in 1..Len(s) + 1 /\ 1..1-1 = {}
    BY <1>1
  <2>2. mem[HeadNode].next = Cell(s, 1)
    BY Ends
  <2> QED BY <2>1, <2>2 DEF Reached
<1>3. ASSUME NEW n \in Nodes, Reached(mem, s, n, p)
      PROVE  \E j \in 1..Len(s) : n = s[j] /\ \A i \in 1..j-1 : mem[s[i]].path # p
  <2>1. PICK j \in 1..Len(s) + 1 : n = Cell(s, j) /\ \A i \in 1..j-1 : mem[s[i]].path # p
    BY <1>3 DEF Reached
  <2>2. j \in 1..Len(s)
    BY <1>1, <2>1, HeapAssumption
  <2> QED BY <1>1, <2>1, <2>2
<1>4. ASSUME NEW n \in Nodes, Reached(mem, s, n, p), mem[n].path # p PROVE Reached(mem, s, mem[n].next, p)
  <2>1. PICK j \in 1..Len(s) : n = s[j] /\ \A i \in 1..j-1 : mem[s[i]].path # p
    BY <1>3, <1>4
  <2>2. mem[n].next = Cell(s, j + 1)
    <3>1. j \in 0..Len(s)
      BY <1>1
    <3> QED BY <1>1, <2>1, <3>1 DEF Listed, Forward
  <2>3. \A i \in 1..(j + 1) - 1 : mem[s[i]].path # p
    BY <1>4, <2>1
  <2>4. j + 1 \in 1..Len(s) + 1
    BY <1>1
  <2> QED BY <2>2, <2>3, <2>4 DEF Reached
<1>5. Reached(mem, s, HeadNode, p) => Absent(mem, s, p)
  BY <1>1 DEF Reached, Absent
<1> QED BY <1>2, <1>3, <1>4, <1>5 DEF In, Within

LEMMA SearchWhere ==
  ASSUME Typed, PrintReturns, NEW t \in Threads, NEW s, Listed(s), Where(t, s), UNCHANGED buf,
         Search56(t) \/ SearchFound(t) \/ SearchNext(t) \/ SearchMiss(t)
  PROVE  Listed(s)' /\ Where(t, s)'
<1> USE DEF Where, Backwards, Counted, Allocated, Loose, Known, Printed, Printing, Chosen, Holds,
            Relinking, Pushing, Popping, First, Key
<1>1. Listed(s)'
  BY DEF Listed, Search56, SearchFound, SearchNext, SearchMiss, listVars
<1>a. CASE Search56(t)
  <2>1. /\ pc[t] = "search56" /\ pc'[t] = "print95" /\ node'[t] = mem[HeadNode].next /\ ret'[t] = "search63"
        /\ UNCHANGED <<mem, live, size, uri, now, victim, reg, buf>>
    BY <1>a DEF Search56, CallPrint, Goto, Typed, listVars, localVars
  <2>2. Reached(mem, s, node'[t], Path[uri[t]])
    BY <2>1, Searches
  <2> QED BY <1>1, <2>1, <2>2
<1>b. CASE SearchFound(t)
  <2>1. /\ pc[t] = "search63" /\ pc'[t] = "hit97" /\ node[t] \in Nodes /\ mem[node[t]].path = Path[uri[t]]
        /\ UNCHANGED <<mem, live, size, uri, node, ret, now, victim, reg, buf>>
    BY <1>b DEF SearchFound, Goto, Typed, listVars, localVars
  <2>2. Within(mem, s, node[t], Path[uri[t]])
    BY <2>1, Searches
  <2> QED BY <1>1, <2>1, <2>2
<1>c. CASE SearchNext(t)
  <2>1. /\ pc[t] = "search63" /\ pc'[t] = "search63" /\ node[t] \in Nodes /\ mem[node[t]].path # Path[uri[t]]
        /\ node'[t] = mem[node[t]].next
        /\ UNCHANGED <<mem, live, size, uri, ret, now, victim, reg, buf>>
    BY <1>c DEF SearchNext, Goto, Typed, listVars, localVars
  <2>2. Reached(mem, s, node'[t], Path[uri[t]])
    BY <2>1, Searches
  <2> QED BY <1>1, <2>1, <2>2
<1>d. CASE SearchMiss(t)
  <2>1. /\ pc[t] = "search63" /\ pc'[t] = "miss108" /\ node[t] = HeadNode
        /\ UNCHANGED <<mem, live, size, uri, node, ret, now, victim, reg, buf>>
    BY <1>d DEF SearchMiss, Goto, Typed, listVars, localVars
  <2>2. Absent(mem, s, Path[uri[t]])
    BY <2>1, Searches
  <2> QED BY <1>1, <2>1, <2>2
<1> QED BY <1>a, <1>b, <1>c, <1>d

-----------------------------------------------------------------------------
(* The steps that move a node. *)

\* Links can be written without disturbing what is known of a node.
LEMMA KnownKept ==
  ASSUME NEW s \in Seq(Nodes), NEW m \in Memory, NEW a \in Addr, NEW q \in Addr \cup {Null}, NEW n \in Addr, NEW p
  PROVE  /\ Apart(m, s, n, p) => Apart(WithPrev(m, a, q), s, n, p) /\ Apart(WithNext(m, a, q), s, n, p)
         /\ Front(m, s, n, p) => Front(WithPrev(m, a, q), s, n, p)
<1>1. /\ WithPrev(m, a, q)[n].path = m[n].path /\ WithPrev(m, a, q)[n].body = m[n].body
  BY WritesPrev
<1>2. /\ WithNext(m, a, q)[n].path = m[n].path /\ WithNext(m, a, q)[n].body = m[n].body
  BY WritesNext
<1>3. Absent(m, s, p) => Absent(WithPrev(m, a, q), s, p) /\ Absent(WithNext(m, a, q), s, p)
  BY PrevKeeps, NextKeeps
<1> QED BY <1>1, <1>2, <1>3 DEF Apart, Front

\* node->next = dll->head->next, when node is not in the list.
LEMMA LinkOut ==
  ASSUME Typed, NEW s, Listed(s), Backward(mem, s, 0), NEW n, NEW p, Apart(mem, s, n, p),
         mem' = WithNext(mem, n, mem[HeadNode].next)
  PROVE  Listed(s)' /\ Backward(mem', s, 0) /\ Apart(mem', s, n, p) /\ mem'[n].next = Cell(s, 1)
<1>1. mem \in Memory /\ n \in Nodes /\ n \in Addr /\ ~In(s, n) /\ s \in Seq(Nodes) /\ Keyed(mem, s) /\ Forward(mem, s)
      /\ mem[HeadNode].next = Cell(s, 1) /\ Cell(s, 1) \in Addr \cup {Null}
  BY Ends DEF Typed, Apart, Addr, Listed
<1>2. WithNext(mem, n, Cell(s, 1)) \in Memory /\ WithNext(mem, n, Cell(s, 1))[n].next = Cell(s, 1)
  BY <1>1, WritesNext
<1>3. Apart(WithNext(mem, n, Cell(s, 1)), s, n, p)
  BY <1>1, KnownKept
<1>4. mem' = WithNext(mem, n, Cell(s, 1))
  BY <1>1
<1>5. \A a \in Addr \ {n} : mem'[a] = mem[a]
  BY <1>1 DEF WithNext, Memory
<1> DEFINE w == mem'
<1>6. w \in Memory /\ \A a \in Addr \ {n} : w[a] = mem[a]
  BY <1>2, <1>4, <1>5
<1>7. Forward(w, s) /\ Backward(w, s, 0) /\ Keyed(w, s)
  <2> HIDE DEF w
  <2> QED BY <1>1, <1>6, WriteApart
<1> QED BY <1>1, <1>2, <1>3, <1>4, <1>7 DEF Listed

\* dll->head->next->prev = node.
LEMMA LinkBack ==
  ASSUME Typed, NEW s, Listed(s), Backward(mem, s, 0), NEW n, NEW p, Apart(mem, s, n, p),
         mem[n].next = Cell(s, 1), mem' = WithPrev(mem, mem[HeadNode].next, n)
  PROVE  /\ Listed(s)' /\ Backward(mem', s, 1) /\ Apart(mem', s, n, p)
         /\ mem'[n].next = Cell(s, 1) /\ mem'[Cell(s, 1)].prev = n
<1> DEFINE a == Cell(s, 1)
<1>1. /\ mem \in Memory /\ n \in Nodes /\ n \in Addr /\ n \in Addr \cup {Null} /\ s \in Seq(Nodes)
      /\ Keyed(mem, s) /\ Forward(mem, s) /\ mem[HeadNode].next = a /\ a \in Addr
  BY Ends DEF Typed, Apart, Addr, Listed
<1>2. mem' = WithPrev(mem, a, n)
  BY <1>1
<1> HIDE DEF a
<1>3. /\ mem' \in Memory /\ mem'[a].prev = n /\ mem'[n].next = mem[n].next
      /\ \A b \in Addr : b # a => mem'[b].prev = mem[b].prev
  <2>a. mem \in Memory /\ a \in Addr /\ n \in Addr \cup {Null}
    BY <1>1
  <2>1. WithPrev(mem, a, n) \in Memory /\ WithPrev(mem, a, n)[a].prev = n
    BY <2>a, WritesPrev
  <2>2. \A b \in Addr : WithPrev(mem, a, n)[b].next = mem[b].next
    BY <2>a, WritesPrev
  <2>3. \A b \in Addr : b # a => WithPrev(mem, a, n)[b].prev = mem[b].prev
    BY <2>a, WritesPrev
  <2> QED BY <1>1, <1>2, <2>1, <2>2, <2>3
<1>4. Listed(s)'
  BY <1>1, <1>2, PrevKeeps DEF Listed
<1>5. Apart(mem', s, n, p)
  BY <1>1, <1>2, KnownKept
<1>6. Backward(mem', s, 1)
  <2>1. SUFFICES ASSUME NEW i \in 1..Len(s) + 1, i # 1 PROVE mem'[Cell(s, i)].prev = Cell(s, i - 1)
    BY DEF Backward
  <2>2. mem[Cell(s, i)].prev = Cell(s, i - 1) /\ 1 \in 1..Len(s) + 1 /\ i \in Int
    BY <1>1, CellsAre DEF Backward
  <2>3. Cell(s, i) # a /\ Cell(s, i) \in Addr
    BY <1>1, <2>1, <2>2, Apartness, CellsAre DEF a
  <2> QED BY <1>3, <2>2, <2>3
<1> QED BY <1>3, <1>4, <1>5, <1>6 DEF a

\* dll->head->next = node.
LEMMA LinkIn ==
  ASSUME Typed, NEW s, Listed(s), Backward(mem, s, 1), NEW n, NEW p, Apart(mem, s, n, p),
         mem[n].next = Cell(s, 1), mem[Cell(s, 1)].prev = n, mem' = WithNext(mem, HeadNode, n)
  PROVE  LinkedAt(mem', <<n>> \o s, s, n, p)
<1>1. s \in Seq(Nodes) /\ mem \in Memory /\ Keyed(mem, s) /\ Forward(mem, s)
  BY DEF Listed, Typed
<1>2. LinkedAt(WithNext(mem, HeadNode, n), <<n>> \o s, s, n, p)
  BY <1>1, Prepend
<1> QED BY <1>2

\* node->prev = dll->head.
LEMMA LinkDone ==
  ASSUME Typed, NEW s, Listed(s), Backward(mem, s, 1), NEW n, NEW p, Front(mem, s, n, p),
         mem' = WithPrev(mem, n, HeadNode)
  PROVE  Listed(s)' /\ Backward(mem', s, 0) /\ Front(mem', s, n, p)
<1>1. /\ mem \in Memory /\ s \in Seq(Nodes) /\ Keyed(mem, s) /\ Forward(mem, s)
      /\ n \in Addr /\ HeadNode \in Addr /\ HeadNode \in Addr \cup {Null}
  BY ListHolds DEF Typed, Listed, Addr
<1>2. Cell(s, 1) = n /\ Cell(s, 0) = HeadNode /\ Len(s) \in Nat /\ \A i \in Int : Cell(s, i) \in Addr
  BY <1>1, CellsAre DEF Front, Cell
<1>3. mem'[n].prev = HeadNode /\ \A b \in Addr : b # n => mem'[b].prev = mem[b].prev
  <2>1. mem \in Memory /\ n \in Addr /\ HeadNode \in Addr \cup {Null}
    BY <1>1
  <2>2. WithPrev(mem, n, HeadNode)[n].prev = HeadNode
    BY <2>1, WritesPrev
  <2>3. \A b \in Addr : b # n => WithPrev(mem, n, HeadNode)[b].prev = mem[b].prev
    BY <2>1, WritesPrev
  <2> QED BY <2>2, <2>3
<1>4. Listed(s)'
  BY <1>1, PrevKeeps DEF Listed
<1>5. Front(mem', s, n, p)
  BY <1>1, KnownKept
<1>6. Backward(mem', s, 0)
  <2>1. SUFFICES ASSUME NEW i \in 1..Len(s) + 1 PROVE mem'[Cell(s, i)].prev = Cell(s, i - 1)
    BY DEF Backward
  <2>2. CASE i = 1
    BY <1>2, <1>3, <2>2
  <2>3. CASE i # 1
    <3>1. mem[Cell(s, i)].prev = Cell(s, i - 1) /\ 1 \in 1..Len(s) + 1 /\ i \in Int
      BY <1>2, <2>3 DEF Backward
    <3>2. Cell(s, i) # n
      BY <1>1, <1>2, <2>3, <3>1, Apartness
    <3> QED BY <1>2, <1>3, <3>1, <3>2
  <2> QED BY <2>2, <2>3
<1> QED BY <1>4, <1>5, <1>6

\* The two statements that unlink a node in moveFront.
LEMMA Unlink ==
  ASSUME Typed, NEW s, Listed(s), Backward(mem, s, 0), NEW n, NEW p, Within(mem, s, n, p),
         mem' = WithNext(mem, mem[n].prev, mem[n].next)
  PROVE  \E j \in 1..Len(s) : s[j] = n /\ UnlinkedAt(mem', Without(s, j), s, n, p, j)
<1>1. PICK j \in 1..Len(s) : n = s[j]
  BY DEF Within
<1>2. s \in Seq(Nodes) /\ mem \in Memory /\ Keyed(mem, s) /\ Forward(mem, s) /\ mem[n].path = p
  BY DEF Listed, Typed, Within
<1>3. UnlinkedAt(WithNext(mem, mem[n].prev, mem[n].next), Without(s, j), s, n, mem[n].path, j)
  BY <1>1, <1>2, TakeOut
<1> QED BY <1>1, <1>2, <1>3

LEMMA UnlinkBack ==
  ASSUME Typed, NEW s, Listed(s), NEW n, NEW p, Apart(mem, s, n, p),
         NEW j \in 0..Len(s), mem[n].prev = Cell(s, j), mem[n].next = Cell(s, j + 1), Backward(mem, s, j + 1),
         mem' = WithPrev(mem, mem[n].next, mem[n].prev)
  PROVE  Listed(s)' /\ Backward(mem', s, 0) /\ Apart(mem', s, n, p)
<1> DEFINE a == Cell(s, j + 1)
           q == Cell(s, j)
<1>1. /\ mem \in Memory /\ s \in Seq(Nodes) /\ Keyed(mem, s) /\ Forward(mem, s) /\ n \in Addr
      /\ Len(s) \in Nat /\ a \in Addr /\ q \in Addr \cup {Null} /\ \A i \in Int : Cell(s, i) \in Addr
  <2>1. s \in Seq(Nodes) /\ j \in Int /\ j + 1 \in Int
    BY DEF Listed
  <2> QED BY <2>1, CellsAre DEF Typed, Listed, Apart, Addr
<1>2. mem' = WithPrev(mem, a, q)
  OBVIOUS
<1>a. \A i \in 1..Len(s) + 1 : Cell(s, i) = a => i = j + 1
  <2>1. j + 1 \in 1..Len(s) + 1
    BY <1>1
  <2> QED BY <1>1, <2>1, Apartness
<1>b. a = Cell(s, j + 1) /\ q = Cell(s, (j + 1) - 1)
  OBVIOUS
<1> HIDE DEF a, q
<1>3. mem'[a].prev = q /\ \A b \in Addr : b # a => mem'[b].prev = mem[b].prev
  <2>1. mem \in Memory /\ a \in Addr /\ q \in Addr \cup {Null}
    BY <1>1
  <2>2. WithPrev(mem, a, q)[a].prev = q
    BY <2>1, WritesPrev
  <2>3. \A b \in Addr : b # a => WithPrev(mem, a, q)[b].prev = mem[b].prev
    BY <2>1, WritesPrev
  <2> QED BY <1>2, <2>2, <2>3
<1>4. Listed(s)'
  BY <1>1, <1>2, PrevKeeps DEF Listed
<1>5. Apart(mem', s, n, p)
  BY <1>1, <1>2, KnownKept
<1>6. Backward(mem', s, 0)
  <2>1. SUFFICES ASSUME NEW i \in 1..Len(s) + 1 PROVE mem'[Cell(s, i)].prev = Cell(s, i - 1)
    BY DEF Backward
  <2>2. CASE i = j + 1
    BY <1>3, <1>b, <2>2
  <2>3. CASE i # j + 1
    <3>1. mem[Cell(s, i)].prev = Cell(s, i - 1) /\ i \in Int /\ Cell(s, i) # a
      BY <2>3, <1>a DEF Backward
    <3> QED BY <1>1, <1>3, <3>1
  <2> QED BY <2>2, <2>3
<1> QED BY <1>4, <1>5, <1>6

LEMMA MoveWhere ==
  ASSUME Typed, PrintReturns, NEW t \in Threads, NEW s, Listed(s), Where(t, s), UNCHANGED buf,
         Move83(t) \/ Move84(t) \/ Move86(t) \/ Move87(t) \/ Move88(t) \/ Move89(t)
  PROVE  Goes(t, s)
<1> USE DEF Backwards, Counted, Allocated, Loose, Known, Printed, Printing, Chosen, Holds,
            Relinking, Pushing, Popping, First, Key
<1> DEFINE n == node[t]
           p == Path[uri[t]]
<1>a. CASE Move83(t)
  <2>1. /\ pc[t] = "move83" /\ pc'[t] = "move84" /\ mem' = WithNext(mem, mem[n].prev, mem[n].next)
        /\ UNCHANGED <<live, size, uri, node, now, victim, reg, ret, buf>>
    BY <1>a DEF Move83, Goto, SetNext, WithNext, Typed, localVars
  <2>2. Within(mem, s, n, p) /\ Backward(mem, s, 0)
    BY <2>1 DEF Where
  <2>3. PICK j \in 1..Len(s) : s[j] = n /\ UnlinkedAt(mem', Without(s, j), s, n, p, j)
    BY <2>1, <2>2, Unlink
  <2> DEFINE r == Without(s, j)
  <2>a. UnlinkedAt(mem', r, s, n, p, j)
    BY <2>3
  <2>b. Follows(t, s, r)
    BY <2>1, <2>3 DEF Follows
  <2> HIDE DEF r
  <2>4. Listed(r)' /\ Len(s) \in Nat
    BY <2>a, CellsAre DEF UnlinkedAt, Listed
  <2>5. j - 1 \in 0..Len(r) /\ (j - 1) + 1 = j
    BY <2>a DEF UnlinkedAt
  <2>6. \E i \in 0..Len(r) : mem'[n].prev = Cell(r, i) /\ mem'[n].next = Cell(r, i + 1) /\ Backward(mem', r, i + 1)
    BY <2>a, <2>5 DEF UnlinkedAt
  <2>7. Len(r) = Len(s) - 1 /\ Apart(mem', r, n, p)
        /\ {s[i] : i \in 1..Len(s)} = {r[i] : i \in 1..Len(r)} \cup {n}
    BY <2>a DEF UnlinkedAt
  <2>9. Backwards(mem, r, pc[t], node[t], victim[t])'
    BY <2>1, <2>6
  <2>10. Allocated(r, pc[t], node[t], victim[t], live)'
    BY <2>1, <2>7 DEF Where
  <2>11. Counted(r, pc[t], size, reg[t])'
    BY <2>1, <2>4, <2>7 DEF Where
  <2>12. Known(mem, r, pc[t], node[t], Key(t))'
    BY <2>1, <2>7 DEF Where
  <2>8. Where(t, r)'
    BY <2>1, <2>9, <2>10, <2>11, <2>12 DEF Where
  <2> QED BY <2>4, <2>8, <2>b DEF Goes
<1>b. CASE Move84(t)
  <2>1. /\ pc[t] = "move84" /\ pc'[t] = "move86" /\ mem' = WithPrev(mem, mem[n].next, mem[n].prev)
        /\ UNCHANGED <<live, size, uri, node, now, victim, reg, ret, buf>>
    BY <1>b DEF Move84, Goto, SetPrev, WithPrev, Typed, localVars
  <2>2. PICK j \in 0..Len(s) : mem[n].prev = Cell(s, j) /\ mem[n].next = Cell(s, j + 1) /\ Backward(mem, s, j + 1)
    BY <2>1 DEF Where
  <2>3. Apart(mem, s, n, p)
    BY <2>1 DEF Where
  <2>4. Listed(s)' /\ Backward(mem', s, 0) /\ Apart(mem', s, n, p)
    BY <2>1, <2>2, <2>3, UnlinkBack
  <2>5. Where(t, s)'
    BY <2>1, <2>4 DEF Where
  <2> QED BY <2>1, <2>4, <2>5 DEF Goes, Follows
<1>c. CASE Move86(t)
  <2>1. /\ pc[t] = "move86" /\ pc'[t] = "move87" /\ mem' = WithNext(mem, n, mem[HeadNode].next)
        /\ UNCHANGED <<live, size, uri, node, now, victim, reg, ret, buf>>
    BY <1>c DEF Move86, Goto, SetNext, WithNext, Typed, localVars
  <2>2. Apart(mem, s, n, p) /\ Backward(mem, s, 0)
    BY <2>1 DEF Where
  <2>3. Listed(s)' /\ Backward(mem', s, 0) /\ Apart(mem', s, n, p) /\ mem'[n].next = Cell(s, 1)
    BY <2>1, <2>2, LinkOut
  <2>4. Where(t, s)'
    BY <2>1, <2>3 DEF Where
  <2> QED BY <2>1, <2>3, <2>4 DEF Goes, Follows
<1>d. CASE Move87(t)
  <2>1. /\ pc[t] = "move87" /\ pc'[t] = "move88" /\ mem' = WithPrev(mem, mem[HeadNode].next, n)
        /\ UNCHANGED <<live, size, uri, node, now, victim, reg, ret, buf>>
    BY <1>d DEF Move87, Goto, SetPrev, WithPrev, Typed, localVars
  <2>2. Apart(mem, s, n, p) /\ Backward(mem, s, 0) /\ mem[n].next = Cell(s, 1)
    BY <2>1 DEF Where
  <2>3. /\ Listed(s)' /\ Backward(mem', s, 1) /\ Apart(mem', s, n, p)
        /\ mem'[n].next = Cell(s, 1) /\ mem'[Cell(s, 1)].prev = n
    BY <2>1, <2>2, LinkBack
  <2>4. Where(t, s)'
    BY <2>1, <2>3 DEF Where
  <2> QED BY <2>1, <2>3, <2>4 DEF Goes, Follows
<1>e. CASE Move88(t)
  <2>1. /\ pc[t] = "move88" /\ pc'[t] = "move89" /\ mem' = WithNext(mem, HeadNode, n)
        /\ UNCHANGED <<live, size, uri, node, now, victim, reg, ret, buf>>
    BY <1>e DEF Move88, Goto, SetNext, WithNext, Typed, localVars
  <2>2. Apart(mem, s, n, p) /\ Backward(mem, s, 1) /\ mem[n].next = Cell(s, 1) /\ mem[Cell(s, 1)].prev = n
    BY <2>1 DEF Where
  <2>b. LinkedAt(mem', <<n>> \o s, s, n, p)
    BY <2>1, <2>2, LinkIn
  <2>3. PICK r : r = <<n>> \o s /\ LinkedAt(mem', r, s, n, p)
    BY <2>b
  <2>a. Follows(t, s, r)
    BY <2>1, <2>3 DEF Follows
  <2>4. Listed(r)' /\ Len(s) \in Nat
    BY <2>3, CellsAre DEF LinkedAt, Listed
  <2>5. Len(r) = Len(s) + 1 /\ Backward(mem', r, 1) /\ Front(mem', r, n, p)
        /\ {r[i] : i \in 1..Len(r)} = {s[i] : i \in 1..Len(s)} \cup {n}
    BY <2>3 DEF LinkedAt
  <2>6. Where(t, r)'
    BY <2>1, <2>4, <2>5 DEF Where
  <2> QED BY <2>4, <2>6, <2>a DEF Goes
<1>f. CASE Move89(t)
  <2>1. /\ pc[t] = "move89" /\ pc'[t] = "print95" /\ mem' = WithPrev(mem, n, HeadNode) /\ ret'[t] = "hit102"
        /\ UNCHANGED <<live, size, uri, node, now, victim, reg, buf>>
    BY <1>f DEF Move89, CallPrint, Goto, SetPrev, WithPrev, Typed
  <2>2. Front(mem, s, n, p) /\ Backward(mem, s, 1)
    BY <2>1 DEF Where
  <2>3. Listed(s)' /\ Backward(mem', s, 0) /\ Front(mem', s, n, p)
    BY <2>1, <2>2, LinkDone
  <2>4. Where(t, s)'
    BY <2>1, <2>3 DEF Where
  <2> QED BY <2>1, <2>3, <2>4 DEF Goes, Follows
<1> QED BY <1>a, <1>b, <1>c, <1>d, <1>e, <1>f

LEMMA PushWhere ==
  ASSUME Typed, PrintReturns, NEW t \in Threads, NEW s, Listed(s), Where(t, s), UNCHANGED buf,
         Push16(t) \/ Push17(t) \/ Push18(t) \/ Push19(t)
         \/ Push21Load(t) \/ Push21Store(t) \/ Push24(t) \/ Push28(t)
  PROVE  Goes(t, s)
<1> USE DEF Backwards, Counted, Allocated, Loose, Known, Printed, Printing, Chosen, Holds,
            Relinking, Pushing, Popping, First, Key
<1> DEFINE n == node[t]
           p == Path[uri[t]]
<1>a. CASE Push16(t)
  <2>1. /\ pc[t] = "push16" /\ pc'[t] = "push17" /\ mem' = WithNext(mem, n, mem[HeadNode].next)
        /\ UNCHANGED <<live, size, uri, node, now, victim, reg, ret, buf>>
    BY <1>a DEF Push16, Goto, SetNext, WithNext, Typed, localVars
  <2>2. Apart(mem, s, n, p) /\ Backward(mem, s, 0)
    BY <2>1 DEF Where
  <2>3. Listed(s)' /\ Backward(mem', s, 0) /\ Apart(mem', s, n, p) /\ mem'[n].next = Cell(s, 1)
    BY <2>1, <2>2, LinkOut
  <2>4. Where(t, s)'
    BY <2>1, <2>3 DEF Where
  <2> QED BY <2>1, <2>3, <2>4 DEF Goes, Follows
<1>b. CASE Push17(t)
  <2>1. /\ pc[t] = "push17" /\ pc'[t] = "push18" /\ mem' = WithPrev(mem, mem[HeadNode].next, n)
        /\ UNCHANGED <<live, size, uri, node, now, victim, reg, ret, buf>>
    BY <1>b DEF Push17, Goto, SetPrev, WithPrev, Typed, localVars
  <2>2. Apart(mem, s, n, p) /\ Backward(mem, s, 0) /\ mem[n].next = Cell(s, 1)
    BY <2>1 DEF Where
  <2>3. /\ Listed(s)' /\ Backward(mem', s, 1) /\ Apart(mem', s, n, p)
        /\ mem'[n].next = Cell(s, 1) /\ mem'[Cell(s, 1)].prev = n
    BY <2>1, <2>2, LinkBack
  <2>4. Where(t, s)'
    BY <2>1, <2>3 DEF Where
  <2> QED BY <2>1, <2>3, <2>4 DEF Goes, Follows
<1>c. CASE Push18(t)
  <2>1. /\ pc[t] = "push18" /\ pc'[t] = "push19" /\ mem' = WithNext(mem, HeadNode, n)
        /\ UNCHANGED <<live, size, uri, node, now, victim, reg, ret, buf>>
    BY <1>c DEF Push18, Goto, SetNext, WithNext, Typed, localVars
  <2>2. Apart(mem, s, n, p) /\ Backward(mem, s, 1) /\ mem[n].next = Cell(s, 1) /\ mem[Cell(s, 1)].prev = n
    BY <2>1 DEF Where
  <2>b. LinkedAt(mem', <<n>> \o s, s, n, p)
    BY <2>1, <2>2, LinkIn
  <2>3. PICK r : r = <<n>> \o s /\ LinkedAt(mem', r, s, n, p)
    BY <2>b
  <2>a. Follows(t, s, r)
    BY <2>1, <2>3 DEF Follows
  <2>4. Listed(r)' /\ Len(s) \in Nat
    BY <2>3, CellsAre DEF LinkedAt, Listed
  <2>5. Len(r) = Len(s) + 1 /\ Backward(mem', r, 1) /\ Front(mem', r, n, p)
        /\ {r[i] : i \in 1..Len(r)} = {s[i] : i \in 1..Len(s)} \cup {n}
    BY <2>3 DEF LinkedAt
  <2>6. Where(t, r)'
    BY <2>1, <2>4, <2>5 DEF Where
  <2> QED BY <2>4, <2>6, <2>a DEF Goes
<1>d. CASE Push19(t)
  <2>1. /\ pc[t] = "push19" /\ pc'[t] = "push21" /\ mem' = WithPrev(mem, n, HeadNode)
        /\ UNCHANGED <<live, size, uri, node, now, victim, reg, ret, buf>>
    BY <1>d DEF Push19, Goto, SetPrev, WithPrev, Typed, localVars
  <2>2. Front(mem, s, n, p) /\ Backward(mem, s, 1)
    BY <2>1 DEF Where
  <2>3. Listed(s)' /\ Backward(mem', s, 0) /\ Front(mem', s, n, p)
    BY <2>1, <2>2, LinkDone
  <2>4. Where(t, s)'
    BY <2>1, <2>3 DEF Where
  <2> QED BY <2>1, <2>3, <2>4 DEF Goes, Follows
<1>e. CASE Push21Load(t)
  <2>1. /\ pc[t] = "push21" /\ pc'[t] = "push21s"
        /\ reg'[t] = size
        /\ UNCHANGED <<mem, live, size, uri, node, now, victim, ret, buf>>
    BY <1>e DEF Push21Load, Goto, Typed, listVars, localVars
  <2> QED BY <2>1 DEF Where, Goes, Follows, Listed
<1>f. CASE Push21Store(t)
  <2>1. /\ pc[t] = "push21s" /\ pc'[t] = "push24"
        /\ size' = reg[t] + 1
        /\ UNCHANGED <<mem, live, uri, node, now, victim, ret, buf>>
    BY <1>f DEF Push21Store, Goto, Typed, listVars, localVars
  <2>2. Len(s) \in Nat
    BY CellsAre DEF Listed
  <2>3. Counted(s, pc[t], size, reg[t])'
    <3>1. size \in Int /\ size + 1 = Len(s) /\ size <= Capacity /\ reg[t] = size
      BY <2>1 DEF Where, Typed
    <3>2. size' = Len(s) /\ size' <= Capacity + 1
      BY <2>1, <3>1, CapacityAssumption
    <3> QED BY <2>1, <3>2
  <2>4. Where(t, s)'
    BY <2>1, <2>3 DEF Where
  <2> QED BY <2>1, <2>4 DEF Goes, Follows, Listed
<1>g. CASE Push24(t)
  <2>1. /\ pc[t] = "push24" /\ pc'[t] = (IF Full THEN "pop33" ELSE "push28")
        /\ UNCHANGED <<mem, live, size, uri, node, now, victim, reg, ret, buf>>
    BY <1>g DEF Push24, Goto, Typed, listVars, localVars
  <2>2. Len(s) \in Nat
    BY CellsAre DEF Listed
  <2>3. Counted(s, pc[t], size, reg[t])'
    BY <2>1, <2>2, CapacityAssumption DEF Where, Full
  <2>4. Where(t, s)'
    <3>1. CASE Full
      BY <2>1, <2>3, <3>1 DEF Where
    <3>2. CASE ~Full
      BY <2>1, <2>3, <3>2 DEF Where
    <3> QED BY <3>1, <3>2
  <2> QED BY <2>1, <2>4 DEF Goes, Follows, Listed
<1>h. CASE Push28(t)
  <2>1. /\ pc[t] = "push28" /\ pc'[t] = "print95"
        /\ ret'[t] = "reply173"
        /\ UNCHANGED <<mem, live, size, uri, node, now, victim, reg, buf>>
    BY <1>h DEF Push28, CallPrint, Goto, Typed, listVars, localVars
  <2> QED BY <2>1 DEF Where, Goes, Follows, Listed
<1> QED BY <1>a, <1>b, <1>c, <1>d, <1>e, <1>f, <1>g, <1>h

\* The last node, and dll->head->prev = pop_node->prev.
LEMMA LastIn ==
  ASSUME NEW s, Listed(s), Backward(mem, s, 0), Len(s) > 0
  PROVE  mem[HeadNode].prev = s[Len(s)] /\ s[Len(s)] \in Nodes /\ mem[s[Len(s)]].prev = Cell(s, Len(s) - 1)
<1>1. /\ Len(s) \in Nat /\ Len(s) \in 1..Len(s) /\ Len(s) + 1 \in 1..Len(s) + 1 /\ Len(s) + 1 # 0 /\ Len(s) # 0
      /\ (Len(s) + 1) - 1 = Len(s) /\ Len(s) \in 1..Len(s) + 1
  BY CellsAre DEF Listed
<1>2. Cell(s, Len(s) + 1) = HeadNode /\ Cell(s, Len(s)) = s[Len(s)] /\ s[Len(s)] \in Nodes
  BY <1>1, CellsAre DEF Listed
<1>3. mem[Cell(s, Len(s) + 1)].prev = Cell(s, Len(s)) /\ mem[Cell(s, Len(s))].prev = Cell(s, Len(s) - 1)
  BY <1>1 DEF Backward
<1> QED BY <1>2, <1>3

LEMMA CutBack ==
  ASSUME Typed, NEW s, Listed(s), Backward(mem, s, 0), Len(s) > 0, NEW n, NEW p, Front(mem, s, n, p),
         mem' = WithPrev(mem, HeadNode, mem[s[Len(s)]].prev)
  PROVE  /\ Listed(s)' /\ Backward(mem', s, Len(s) + 1) /\ mem'[HeadNode].prev = Cell(s, Len(s) - 1)
         /\ Front(mem', s, n, p)
<1> DEFINE q == Cell(s, Len(s) - 1)
<1>1. /\ mem \in Memory /\ s \in Seq(Nodes) /\ Keyed(mem, s) /\ Forward(mem, s) /\ HeadNode \in Addr /\ n \in Addr
      /\ Len(s) \in Nat
  BY ListHolds, CellsAre DEF Typed, Listed, Addr
<1>2. mem' = WithPrev(mem, HeadNode, q) /\ q \in Addr \cup {Null}
  BY <1>1, LastIn, CellsAre
<1> HIDE DEF q
<1>3. mem'[HeadNode].prev = q /\ \A b \in Addr : b # HeadNode => mem'[b].prev = mem[b].prev
  <2>a. mem \in Memory /\ HeadNode \in Addr /\ q \in Addr \cup {Null}
    BY <1>1, <1>2
  <2>1. WithPrev(mem, HeadNode, q)[HeadNode].prev = q
    BY <2>a, WritesPrev
  <2>2. \A b \in Addr : b # HeadNode => WithPrev(mem, HeadNode, q)[b].prev = mem[b].prev
    BY <2>a, WritesPrev
  <2> QED BY <1>2, <2>1, <2>2
<1>4. Listed(s)'
  BY <1>1, <1>2, PrevKeeps DEF Listed
<1>5. Front(mem', s, n, p)
  BY <1>1, <1>2, KnownKept
<1>6. Backward(mem', s, Len(s) + 1)
  <2>1. SUFFICES ASSUME NEW i \in 1..Len(s) + 1, i # Len(s) + 1 PROVE mem'[Cell(s, i)].prev = Cell(s, i - 1)
    BY DEF Backward
  <2>2. i \in 1..Len(s) /\ mem[Cell(s, i)].prev = Cell(s, i - 1)
    BY <1>1, <2>1 DEF Backward
  <2>3. Cell(s, i) # HeadNode /\ Cell(s, i) \in Addr
    BY <1>1, <2>2, CellsAre DEF Addr
  <2> QED BY <1>3, <2>2, <2>3
<1> QED BY <1>3, <1>4, <1>5, <1>6 DEF q

LEMMA PopWhere ==
  ASSUME Typed, PrintReturns, NEW t \in Threads, NEW s, Listed(s), Where(t, s), UNCHANGED buf,
         Pop33(t) \/ Pop37(t) \/ Pop38(t) \/ Pop40(t) \/ Pop41(t) \/ Pop43(t)
         \/ Pop47Load(t) \/ Pop47Store(t)
  PROVE  Goes(t, s)
<1> USE DEF Backwards, Counted, Allocated, Loose, Known, Printed, Printing, Chosen, Holds,
            Relinking, Pushing, Popping, First, Key
<1> DEFINE n == node[t]
           p == Path[uri[t]]
<1>a. CASE Pop33(t)
  <2>1. /\ pc[t] = "pop33" /\ pc'[t] = (IF size = 0 THEN "push28" ELSE "pop37")
        /\ UNCHANGED <<mem, live, size, uri, node, now, victim, reg, ret, buf>>
    BY <1>a DEF Pop33, Goto, Typed, listVars, localVars
  <2>2. Len(s) \in Nat
    BY CellsAre DEF Listed
  <2> QED BY <2>1, <2>2, CapacityAssumption DEF Where, Goes, Follows, Listed
<1>b. CASE Pop37(t)
  <2>1. /\ pc[t] = "pop37" /\ pc'[t] = "pop38"
        /\ victim'[t] = mem[HeadNode].prev
        /\ UNCHANGED <<mem, live, size, uri, node, now, reg, ret, buf>>
    BY <1>b DEF Pop37, Goto, Typed, listVars, localVars
  <2>2. mem[HeadNode].prev = s[Len(s)]
    BY <2>1, LastIn, CapacityAssumption DEF Where
  <2> QED BY <2>1, <2>2 DEF Where, Goes, Follows, Listed
<1>c. CASE Pop38(t)
  <2>1. /\ pc[t] = "pop38" /\ pc'[t] = "pop40"
        /\ UNCHANGED <<mem, live, size, uri, node, now, victim, reg, ret, buf>>
    BY <1>c DEF Pop38, Goto, Typed, listVars, localVars
  <2> QED BY <2>1 DEF Where, Goes, Follows, Listed
<1>d. CASE Pop40(t)
  <2>1. /\ pc[t] = "pop40" /\ pc'[t] = "pop41" /\ mem' = WithPrev(mem, HeadNode, mem[victim[t]].prev)
        /\ UNCHANGED <<live, size, uri, node, now, victim, reg, ret, buf>>
    BY <1>d DEF Pop40, Goto, SetPrev, WithPrev, Typed, localVars
  <2>2. Backward(mem, s, 0) /\ victim[t] = s[Len(s)] /\ size = Len(s) /\ size = Capacity + 1
    BY <2>1 DEF Where
  <2>3. Front(mem, s, n, p)
    BY <2>1 DEF Where
  <2>4. /\ Listed(s)' /\ Backward(mem', s, Len(s) + 1) /\ mem'[HeadNode].prev = Cell(s, Len(s) - 1)
        /\ Front(mem', s, n, p)
    <3>1. /\ Listed(s) /\ Backward(mem, s, 0) /\ Len(s) > 0 /\ Front(mem, s, n, p) /\ Typed
          /\ mem' = WithPrev(mem, HeadNode, mem[s[Len(s)]].prev)
      BY <2>1, <2>2, <2>3, CapacityAssumption
    <3> QED BY <3>1, CutBack
  <2>5. Where(t, s)'
    BY <2>1, <2>4 DEF Where
  <2> QED BY <2>1, <2>4, <2>5 DEF Goes, Follows
<1>e. CASE Pop41(t)
  <2>1. /\ pc[t] = "pop41" /\ pc'[t] = "pop43" /\ mem' = WithNext(mem, mem[victim[t]].prev, HeadNode)
        /\ UNCHANGED <<live, size, uri, node, now, victim, reg, ret, buf>>
    BY <1>e DEF Pop41, Goto, SetNext, WithNext, Typed, localVars
  <2>2. /\ Backward(mem, s, Len(s) + 1) /\ mem[HeadNode].prev = Cell(s, Len(s) - 1)
        /\ victim[t] = s[Len(s)] /\ size = Len(s) /\ size = Capacity + 1 /\ Front(mem, s, n, p)
    BY <2>1 DEF Where
  <2> DEFINE r == Without(s, Len(s))
  <2>3. CutAt(mem', r, s, mem)
    <3>1. Len(s) > 0 /\ s \in Seq(Nodes) /\ mem \in Memory /\ Keyed(mem, s) /\ Forward(mem, s)
      BY <2>2, CapacityAssumption DEF Listed, Typed
    <3>2. CutAt(WithNext(mem, mem[s[Len(s)]].prev, HeadNode), r, s, mem)
      BY <2>2, <3>1, CutLast
    <3> QED BY <2>1, <2>2, <3>2
  <2>a. Follows(t, s, r)
    BY <2>1 DEF Follows
  <2> HIDE DEF r
  <2>4. Listed(r)' /\ Backward(mem', r, 0)
    BY <2>3 DEF CutAt, Listed
  <2>5. Len(r) = Len(s) - 1 /\ victim[t] \in Nodes /\ ~In(r, victim[t])
    BY <2>2, <2>3 DEF CutAt
  <2>6. {s[i] : i \in 1..Len(s)} = {r[i] : i \in 1..Len(r)} \cup {victim[t]}
    BY <2>2, <2>3 DEF CutAt
  <2>7. Front(mem', r, n, p)
    <3>1. Len(s) > 1
      BY <2>2, CapacityAssumption
    <3> QED BY <2>2, <2>3, <3>1 DEF CutAt
  <2>8. Len(s) \in Nat
    BY CellsAre DEF Listed
  <2>9. Allocated(r, pc[t], node[t], victim[t], live)'
    BY <2>1, <2>6 DEF Where
  <2>10. Counted(r, pc[t], size, reg[t])'
    <3>1. Len(r) = Len(s) - 1 /\ size = Len(s) /\ size = Capacity + 1 /\ size' = size /\ Len(s) \in Nat
          /\ pc'[t] = "pop43"
      BY <2>1, <2>2, <2>5, <2>8
    <3> QED BY <3>1, CapacityAssumption
  <2>11. Where(t, r)'
    BY <2>1, <2>4, <2>5, <2>7, <2>9, <2>10 DEF Where
  <2> QED BY <2>4, <2>11, <2>a DEF Goes
<1>f. CASE Pop43(t)
  <2>1. /\ pc[t] = "pop43" /\ pc'[t] = "pop47" /\ live' = live \ {victim[t]}
        /\ UNCHANGED <<mem, size, uri, node, now, reg, ret, buf>>
    BY <1>f DEF Pop43, Goto, Typed
  <2>2. live = {HeadNode} \cup {s[i] : i \in 1..Len(s)} \cup {victim[t]} /\ victim[t] \in Nodes /\ ~In(s, victim[t])
    BY <2>1 DEF Where
  <2>3. live' = {HeadNode} \cup {s[i] : i \in 1..Len(s)}
    BY <2>1, <2>2, HeapAssumption DEF In
  <2>4. Where(t, s)'
    BY <2>1, <2>3 DEF Where
  <2> QED BY <2>1, <2>4 DEF Goes, Follows, Listed
<1>g. CASE Pop47Load(t)
  <2>1. /\ pc[t] = "pop47" /\ pc'[t] = "pop47s"
        /\ reg'[t] = size
        /\ UNCHANGED <<mem, live, size, uri, node, now, victim, ret, buf>>
    BY <1>g DEF Pop47Load, Goto, Typed, listVars, localVars
  <2> QED BY <2>1 DEF Where, Goes, Follows, Listed
<1>h. CASE Pop47Store(t)
  <2>1. /\ pc[t] = "pop47s" /\ pc'[t] = "print95"
        /\ size' = reg[t] - 1 /\ ret'[t] = "push28"
        /\ UNCHANGED <<mem, live, uri, node, now, victim, buf>>
    BY <1>h DEF Pop47Store, CallPrint, Goto, Typed, listVars, localVars
  <2>2. Len(s) \in Nat
    BY CellsAre DEF Listed
  <2> QED BY <2>1, <2>2, CapacityAssumption DEF Where, Goes, Follows, Listed
<1> QED BY <1>a, <1>b, <1>c, <1>d, <1>e, <1>f, <1>g, <1>h

\* What the origin leaves in the block is kept for the path that was asked for.
LEMMA FetchIs ==
  ASSUME NEW t \in Threads, uri[t] \in Uris, Miss137(t) \/ Miss137Short(t)
  PROVE  \E n \in Nodes \ live, b \in Uris \cup {Null} :
           /\ Page(b, Path[uri[t]])
           /\ node' = [node EXCEPT ![t] = n] /\ live' = live \cup {n}
           /\ mem' = [mem EXCEPT ![n].body = b]
<1>1. CASE Miss137(t)
  <2>1. Page(uri[t], Path[uri[t]])
    BY DEF Page, Bodies, LruPaths
  <2> QED BY <1>1, <2>1 DEF Miss137
<1>2. CASE Miss137Short(t)
  <2>1. Page(Null, Path[uri[t]])
    BY <1>2, PathAssumption DEF Miss137Short, Page, Bodies, LruPaths
  <2> QED BY <1>2, <2>1 DEF Miss137Short
<1> QED BY <1>1, <1>2

\* The statements of trans.
LEMMA TransWhere ==
  ASSUME Typed, RequestKnown, NEW t \in Threads, NEW s, Listed(s), Where(t, s), QuietTrans(t) \/ Miss108(t)
  PROVE  Listed(s)' /\ Where(t, s)'
<1> USE DEF Backwards, Counted, Allocated, Loose, Known, Printed, Printing, Chosen, Holds,
            Relinking, Pushing, Popping, First, Key
<1>1. mem' = mem => Listed(s)'
  BY DEF Listed
<1>2. \A n, p : Front(mem, s, n, p) \/ Within(mem, s, n, p) =>
            /\ In(s, n) /\ n \in Nodes /\ mem[n].path = p /\ Page(mem[n].body, p)
  BY ListHolds
<1>a. CASE Hit97(t)
  <2>1. /\ pc[t] = "hit97" /\ pc'[t] = "move83"
        /\ UNCHANGED <<mem, live, size, uri, node, now, victim, reg, ret, buf>>
    BY <1>a DEF Hit97, Goto, Typed, listVars, localVars
  <2> QED BY <1>1, <2>1 DEF Where
<1>b. CASE Hit102(t)
  <2>1. /\ pc[t] = "hit102" /\ pc'[t] = "hit104" /\ buf'[t] = mem[node[t]].body
        /\ UNCHANGED <<mem, live, size, uri, node, now, victim, reg, ret>>
    BY <1>b DEF Hit102, Goto, Typed, listVars, localVars
  <2>2. Front(mem, s, node[t], Path[uri[t]])
    BY <2>1 DEF Where
  <2>3. In(s, node[t]) /\ Page(mem[node[t]].body, Path[uri[t]])
    BY <1>2, <2>2
  <2> QED BY <1>1, <2>1, <2>3 DEF Where
<1>c. CASE Hit104(t)
  <2>1. /\ pc[t] = "hit104" /\ pc'[t] = "close48"
        /\ UNCHANGED <<mem, live, size, uri, node, now, victim, reg, ret, buf>>
    BY <1>c DEF Hit104, Send, Goto, Typed, listVars, localVars
  <2> QED BY <1>1, <2>1 DEF Where
<1>d. CASE Miss108(t)
  <2>1. /\ pc[t] = "miss108" /\ pc'[t] = "miss137"
        /\ UNCHANGED <<mem, live, size, uri, node, now, victim, reg, ret, buf>>
    BY <1>d DEF Miss108, Goto, Typed, listVars, localVars
  <2> QED BY <1>1, <2>1 DEF Where
<1>e. CASE Miss137(t) \/ Miss137Short(t)
  <2>2. /\ pc[t] = "miss137" /\ pc'[t] = "miss159" /\ uri[t] \in Uris
        /\ UNCHANGED <<size, uri, now, victim, reg, ret, buf>>
    BY <1>e DEF Miss137, Miss137Short, Goto, Typed, RequestKnown, Busy, Labels
  <2>1. PICK n \in Nodes \ live, b \in Uris \cup {Null} :
               /\ Page(b, Path[uri[t]])
               /\ node' = [node EXCEPT ![t] = n] /\ live' = live \cup {n}
               /\ mem' = [mem EXCEPT ![n].body = b]
    BY <1>e, <2>2, FetchIs
  <2>3. /\ Backward(mem, s, 0) /\ Absent(mem, s, Path[uri[t]]) /\ live = {HeadNode} \cup {s[i] : i \in 1..Len(s)}
    BY <2>2 DEF Where
  <2>4. ~In(s, n) /\ n \in Nodes /\ mem \in Memory
    BY <2>2, <2>3 DEF In, Typed
  <2>5. mem' \in Memory /\ mem'[n].body = b /\ \A a \in Addr \ {n} : mem'[a] = mem[a]
    BY <2>1, <2>4 DEF Memory, Addr
  <2> DEFINE w == mem'
  <2>6. w \in Memory /\ \A a \in Addr \ {n} : w[a] = mem[a]
    BY <2>5
  <2>7. Keyed(mem, s) /\ Forward(mem, s) /\ s \in Seq(Nodes)
    BY DEF Listed
  <2>8. Forward(w, s) /\ Backward(w, s, 0) /\ Keyed(w, s) /\ Absent(w, s, Path[uri[t]])
    <3> HIDE DEF w
    <3> QED BY <2>3, <2>4, <2>6, <2>7, WriteApart
  <2>9. Listed(s)'
    BY <2>7, <2>8 DEF Listed
  <2>10. node'[t] = n
    BY <2>1 DEF Typed
  <2>11. live' = {HeadNode} \cup {s[i] : i \in 1..Len(s)} \cup {n}
    BY <2>1, <2>3
  <2>12. Where(t, s)'
    BY <2>1, <2>2, <2>4, <2>5, <2>8, <2>10, <2>11 DEF Where
  <2> QED BY <2>9, <2>12
<1>f. CASE Miss159Small(t)
  <2> DEFINE n == node[t]
             p == Path[uri[t]]
  <2>1. /\ pc[t] = "miss159" /\ pc'[t] = "push16" /\ mem' = [mem EXCEPT ![n].path = p]
        /\ UNCHANGED <<live, size, uri, node, now, victim, reg, ret, buf>>
    BY <1>f DEF Miss159Small, Goto, Typed, localVars
  <2>2. /\ Backward(mem, s, 0) /\ Absent(mem, s, p) /\ n \in Nodes /\ ~In(s, n) /\ Page(mem[n].body, p)
    BY <2>1 DEF Where
  <2>3. uri[t] \in Uris /\ mem \in Memory /\ p \in Paths
    BY <2>1, <2>2 DEF RequestKnown, Busy, Labels, Typed, Paths
  <2>4. mem' \in Memory /\ mem'[n].path = p /\ mem'[n].body = mem[n].body /\ \A a \in Addr \ {n} : mem'[a] = mem[a]
    BY <2>1, <2>2, <2>3 DEF Memory, Addr
  <2> DEFINE w == mem'
  <2>5. w \in Memory /\ \A a \in Addr \ {n} : w[a] = mem[a]
    BY <2>4
  <2>6. Keyed(mem, s) /\ Forward(mem, s) /\ s \in Seq(Nodes)
    BY DEF Listed
  <2>7. Forward(w, s) /\ Backward(w, s, 0) /\ Keyed(w, s) /\ Absent(w, s, p)
    <3> HIDE DEF w, p, n
    <3> QED BY <2>2, <2>3, <2>5, <2>6, WriteApart
  <2>8. Listed(s)'
    BY <2>6, <2>7 DEF Listed
  <2>9. Apart(mem', s, n, p)
    BY <2>2, <2>3, <2>4, <2>7 DEF Apart
  <2>10. Where(t, s)'
    BY <2>1, <2>7, <2>9 DEF Where
  <2> QED BY <2>8, <2>10
<1>g. CASE Miss159Large(t)
  <2>1. /\ pc[t] = "miss159" /\ pc'[t] = "reply173" /\ live' = live \ {node[t]}
        /\ mem[node[t]].body # Null => Length[uri[t]] > MaxObject
        /\ UNCHANGED <<mem, size, uri, node, now, victim, reg, ret, buf>>
    BY <1>g DEF Miss159Large, Goto, Typed, localVars
  <2>2. /\ node[t] \in Nodes /\ ~In(s, node[t]) /\ Page(mem[node[t]].body, Path[uri[t]]) /\ uri[t] \in Uris
        /\ live = {HeadNode} \cup {s[i] : i \in 1..Len(s)} \cup {node[t]}
    BY <2>1 DEF Where, RequestKnown, Busy, Labels
  <2>3. live' = {HeadNode} \cup {s[i] : i \in 1..Len(s)}
    BY <2>1, <2>2, HeapAssumption DEF In
  <2>4. ~(Length[uri[t]] <= MaxObject /\ Fickle = {})
    BY <2>1, <2>2, SizesAssumption, PathAssumption DEF Page, Bodies
  <2>5. Where(t, s)'
    BY <2>1, <2>2, <2>3, <2>4 DEF Where
  <2> QED BY <1>1, <2>1, <2>5
<1>h. CASE Reply173(t)
  <2>1. /\ pc[t] = "reply173" /\ pc'[t] = "close48"
        /\ UNCHANGED <<mem, live, size, uri, node, now, victim, reg, ret, buf>>
    BY <1>h DEF Reply173, Send, Goto, Typed, listVars, localVars
  <2> QED BY <1>1, <2>1 DEF Where
<1> QED BY <1>a, <1>b, <1>c, <1>d, <1>e, <1>f, <1>g, <1>h DEF QuietTrans

LEMMA ListStepWhere ==
  ASSUME Typed, PrintReturns, NEW t \in Threads, NEW s, Listed(s), Where(t, s), UNCHANGED buf, ListStep(t)
  PROVE  Goes(t, s)
<1>1. CASE Print95(t) \/ Print101(t) \/ PrintNext(t) \/ PrintLast(t)
  <2>1. Listed(s)' /\ Where(t, s)'
    BY <1>1, PrintWhere
  <2>2. Follows(t, s, s)
    BY <1>1 DEF Follows, Print95, Print101, PrintNext, PrintLast, Goto
  <2> QED BY <2>1, <2>2 DEF Goes
<1>2. CASE Search56(t) \/ SearchFound(t) \/ SearchNext(t) \/ SearchMiss(t)
  <2>1. Listed(s)' /\ Where(t, s)'
    BY <1>2, SearchWhere
  <2>2. Follows(t, s, s)
    BY <1>2 DEF Follows, Search56, SearchFound, SearchNext, SearchMiss, CallPrint, Goto
  <2> QED BY <2>1, <2>2 DEF Goes
<1>3. CASE Move83(t) \/ Move84(t) \/ Move86(t) \/ Move87(t) \/ Move88(t) \/ Move89(t)
  BY <1>3, MoveWhere
<1>4. CASE \/ Push16(t) \/ Push17(t) \/ Push18(t) \/ Push19(t)
           \/ Push21Load(t) \/ Push21Store(t) \/ Push24(t) \/ Push28(t)
  BY <1>4, PushWhere
<1>5. CASE \/ Pop33(t) \/ Pop37(t) \/ Pop38(t) \/ Pop40(t) \/ Pop41(t) \/ Pop43(t)
           \/ Pop47Load(t) \/ Pop47Store(t)
  BY <1>5, PopWhere
<1> QED BY <1>1, <1>2, <1>3, <1>4, <1>5 DEF ListStep

\* When clients send their requests at once, a thread has all of the one it serves.
LEMMA HasSent ==
  ASSUME Orderly, IInv, NEW t \in Threads, pc[t] \in Busy
  PROVE  Client(t) \in Clients /\ conn[Client(t)] \in {"accepted", "reset"}
<1>1. pc[t] # "t44" /\ pc[t] # "none"
  BY DEF Busy
<1>2. Client(t) \in Accepted
  BY <1>1 DEF IInv, ConnectionOwned, HeldIsOpen, FdOf, Serving, Client
<1>3. Client(t) \in Clients /\ conn[Client(t)] # "idle"
  BY <1>2 DEF Accepted
<1>4. conn[Client(t)] \in {"idle", "mute", "line", "accepted"} \cup Closed
  BY <1>3 DEF IInv, TypeOK, ProcessTypeOK
<1>5. conn[Client(t)] \notin {"mute", "line", "gone", "left"}
  BY <1>3 DEF IInv, RequestKnown, Orderly
<1> QED BY <1>3, <1>4, <1>5 DEF Closed

\* What a statement dereferences is allocated and filled in, and a hit fits the buffer.
LEMMA LegalWhere ==
  ASSUME Orderly, IInv, NEW t \in Threads, NEW s, Listed(s), Where(t, s), pc[t] # "none"
  PROVE  Illegal(t) = {}
<1>1. /\ Len(s) \in Nat /\ \A i \in Int : Cell(s, i) \in {HeadNode} \cup {s[j] : j \in 1..Len(s)}
  BY CellsAre DEF Listed, Cell
<1>2. /\ {HeadNode} \cup {s[j] : j \in 1..Len(s)} \subseteq live
      /\ \A n : In(s, n) => n \in live
      /\ pc[t] \in Relinking \cup Pushing \cup {"miss159"} => node[t] \in live
      /\ pc[t] = "pop43" => victim[t] \in live
  <2>1. live = {HeadNode} \cup {s[i] : i \in 1..Len(s)} \cup Loose(pc[t], node[t], victim[t])
    BY DEF Where, Allocated
  <2>2. pc[t] \in Relinking \cup Pushing \cup {"miss159"} => node[t] \in Loose(pc[t], node[t], victim[t])
    BY DEF Loose
  <2>3. pc[t] = "pop43" => victim[t] \in Loose(pc[t], node[t], victim[t])
    BY DEF Loose, Relinking, Pushing
  <2> QED BY <2>1, <2>2, <2>3 DEF In
<1>3. \A n, p : Front(mem, s, n, p) \/ Within(mem, s, n, p) =>
            /\ In(s, n) /\ n \in Nodes /\ mem[n].path = p /\ Page(mem[n].body, p)
  BY ListHolds
<1>4. mem[HeadNode].next \in live
  BY <1>1, <1>2, IInvTyped, Ends
<1>5. Derefs(t) \subseteq live
  <2>1. CASE pc[t] \in {"hit97", "move83"}
    <3>1. Within(mem, s, node[t], Key(t))
      BY <2>1 DEF Where, Known
    <3>2. node[t] \in live
      BY <1>2, <1>3, <3>1
    <3>3. CASE pc[t] = "hit97"
      BY <3>2, <3>3 DEF Derefs
    <3>4. CASE pc[t] = "move83"
      <4>1. Backward(mem, s, 0)
        BY <3>4 DEF Where, Backwards
      <4>2. PICK i \in 1..Len(s) : s[i] = node[t]
        BY <3>1 DEF Within
      <4>3. mem[node[t]].prev = Cell(s, i - 1)
        <5>1. i \in 1..Len(s) + 1 /\ i # 0
          BY <1>1
        <5>2. mem[Cell(s, i)].prev = Cell(s, i - 1)
          BY <4>1, <5>1 DEF Backward
        <5> QED BY <4>2, <5>2 DEF Cell
      <4>4. mem[node[t]].prev \in live
        BY <1>1, <1>2, <4>3
      <4> QED BY <3>2, <3>4, <4>4 DEF Derefs, ListDerefs
    <3> QED BY <2>1, <3>3, <3>4
  <2>2. CASE pc[t] \in {"hit102", "push19", "push28", "move89"}
    <3>1. Front(mem, s, node[t], Key(t))
      BY <2>2 DEF Where, Known, First
    <3>2. node[t] \in live
      BY <1>2, <1>3, <3>1
    <3> QED BY <2>2, <3>2 DEF Derefs, ListDerefs
  <2>3. CASE pc[t] \in {"hit104", "miss159", "reply173"}
    <3>1. pc[t] = "reply173" => uri[t] \in Uris
      BY DEF IInv, RequestKnown, Busy, Labels
    <3>2. node[t] \in live
      BY <1>2, <2>3, <3>1 DEF Where, Holds, Orderly
    <3> QED BY <2>3, <3>2 DEF Derefs
  <2>4. CASE pc[t] \in {"print101", "search56", "push18", "move88", "pop37"}
    BY <1>2, <2>4 DEF Derefs, ListDerefs
  <2>5. CASE pc[t] \in {"push16", "move86", "push17", "move87"}
    BY <1>2, <1>4, <2>5 DEF Derefs, ListDerefs, Relinking, Pushing
  <2>6. CASE pc[t] = "print102"
    <3>1. In(s, now[t])
      BY <2>6 DEF Where, Printed
    <3> QED BY <1>2, <2>6, <3>1 DEF Derefs, ListDerefs
  <2>7. CASE pc[t] = "search63"
    <3>1. Reached(mem, s, node[t], Key(t))
      BY <2>7 DEF Where, Known
    <3>2. node[t] \in live
      BY <1>1, <1>2, <3>1 DEF Reached
    <3> QED BY <2>7, <3>2 DEF Derefs, ListDerefs
  <2>8. CASE pc[t] = "move84"
    <3>1. PICK j \in 0..Len(s) : mem[node[t]].next = Cell(s, j + 1)
      BY <2>8 DEF Where, Backwards
    <3>2. mem[node[t]].next \in live
      BY <1>1, <1>2, <3>1
    <3> QED BY <1>2, <2>8, <3>2 DEF Derefs, ListDerefs, Relinking
  <2>9. CASE pc[t] \in {"pop38", "pop40", "pop41"}
    <3>1. victim[t] = s[Len(s)] /\ size = Len(s) /\ size = Capacity + 1
      BY <2>9 DEF Where, Chosen, Counted, Popping, Relinking
    <3>2. Len(s) \in 1..Len(s)
      BY <1>1, <3>1, CapacityAssumption
    <3>3. victim[t] \in live
      BY <1>2, <3>1, <3>2
    <3>4. CASE pc[t] = "pop41"
      <4>1. Backward(mem, s, Len(s) + 1)
        BY <3>4 DEF Where, Backwards
      <4>2. Len(s) \in 1..Len(s) + 1 /\ Len(s) # Len(s) + 1 /\ Cell(s, Len(s)) = victim[t]
        BY <1>1, <3>1, <3>2 DEF Cell
      <4>3. mem[victim[t]].prev = Cell(s, Len(s) - 1)
        BY <4>1, <4>2 DEF Backward
      <4>4. mem[victim[t]].prev \in live
        BY <1>1, <1>2, <4>3
      <4> QED BY <3>3, <3>4, <4>4 DEF Derefs, ListDerefs
    <3> QED BY <1>2, <2>9, <3>3, <3>4 DEF Derefs, ListDerefs
  <2>10. CASE pc[t] = "pop43"
    BY <1>2, <2>10 DEF Derefs, ListDerefs
  <2> QED BY <2>1, <2>2, <2>3, <2>4, <2>5, <2>6, <2>7, <2>8, <2>9, <2>10 DEF Derefs, ListDerefs
<1>6. pc[t] \in {"hit97", "hit102", "hit104", "miss159", "reply173"} => mem[node[t]].body \in Uris
  <2>1. \A b, p : Page(b, p) => b \in Uris
    BY DEF Page, Bodies, Orderly
  <2>2. CASE pc[t] = "hit97"
    <3>1. Within(mem, s, node[t], Key(t))
      BY <2>2 DEF Where, Known
    <3> QED BY <1>3, <2>1, <3>1
  <2>3. CASE pc[t] = "hit102"
    <3>1. Front(mem, s, node[t], Key(t))
      BY <2>3 DEF Where, Known, First
    <3> QED BY <1>3, <2>1, <3>1
  <2>4. CASE pc[t] = "hit104"
    <3>1. In(s, node[t])
      BY <2>4 DEF Where, Holds
    <3>2. Page(mem[node[t]].body, mem[node[t]].path)
      BY <3>1 DEF Listed, Keyed, In
    <3> QED BY <2>1, <3>2
  <2>5. CASE pc[t] \in {"miss159", "reply173"}
    BY <2>1, <2>5 DEF Where, Holds
  <2> QED BY <2>2, <2>3, <2>4, <2>5
<1>7. ~Overflows(t)
  <2>1. SUFFICES ASSUME pc[t] = "hit102" PROVE ~(Length[mem[node[t]].body] >= MaxBuf)
    BY DEF Overflows
  <2>2. mem[node[t]].body \in Uris
    BY <1>6, <2>1
  <2> QED BY <2>2, SizesAssumption DEF Orderly
<1>8. ~Unwritten(t)
  <2>1. pc[t] = "t65" => conn[Client(t)] # "gone"
    BY HasSent DEF Busy, Labels
  <2> QED BY <1>6, <2>1, PathAssumption DEF Unwritten
<1> QED BY <1>5, <1>7, <1>8 DEF Illegal

-----------------------------------------------------------------------------
(* One client at a time: the invariant is kept by every step. *)

\* One thread serves, and none while main has a connection to hand over.
LEMMA ServesAlone ==
  ASSUME IInv, Alone
  PROVE  /\ \A t, u \in Serving : t = u
         /\ mpc = "create35" => Serving = {}
         /\ \A t \in Serving : pc[t] # "t44" => Client(t) \in Clients
<1>1. /\ \A t \in Serving : FdOf(t) \in Fds /\ fdt[FdOf(t)] \in Accepted
      /\ mpc = "create35" => cell[connfdp] \in Fds /\ fdt[cell[connfdp]] \in Accepted
      /\ \A f, g \in Fds : fdt[f] \in Clients /\ fdt[f] = fdt[g] => f = g
      /\ Accepted \subseteq Clients
  BY DEF IInv, ConnectionOwned, HeldIsOpen, OneDescriptor, Accepted
<1>2. \A t, u \in Serving : FdOf(t) = FdOf(u)
  BY <1>1 DEF Alone
<1>3. \A t, u \in Serving : t = u
  BY <1>1, <1>2 DEF IInv, ConnectionOwned, NoDescriptorShared, HeldBy, Serving
<1>4. mpc = "create35" => Serving = {}
  <2>1. SUFFICES ASSUME mpc = "create35", NEW t \in Serving PROVE FALSE
    OBVIOUS
  <2>2. FdOf(t) = cell[connfdp]
    BY <1>1, <2>1 DEF Alone
  <2>3. HeldByMain(FdOf(t)) /\ HeldBy(t, FdOf(t)) /\ FdOf(t) \in Fds /\ t \in Threads
    BY <1>1, <2>1, <2>2 DEF HeldByMain, HeldBy, Serving
  <2> QED BY <2>3 DEF IInv, ConnectionOwned, NoDescriptorShared
<1>5. \A t \in Serving : pc[t] # "t44" => Client(t) \in Clients
  BY <1>1 DEF Client, FdOf
<1> QED BY <1>3, <1>4, <1>5

LEMMA InitOneByOne == Init => OneByOne
<1> SUFFICES ASSUME Init PROVE OneByOne
  OBVIOUS
<1>1. IInv
  BY InitIInv
<1>2. Accepted = {} /\ Serving = {}
  BY DEF Init, Accepted, Serving
<1>3. Alone /\ Asked /\ Replies /\ RightPage /\ NoUndefinedBehaviour
  BY <1>2 DEF Alone, Asked, Replies, RightPage, NoUndefinedBehaviour, Init, NoReply, Busy
<1>4. ListHeld
  <2> DEFINE s == <<>>
  <2>1. s \in Seq(Nodes) /\ Len(s) = 0
    OBVIOUS
  <2> HIDE DEF s
  <2>2. \A i : Cell(s, i) = HeadNode
    BY <2>1 DEF Cell
  <2>3. mem[HeadNode].next = HeadNode /\ mem[HeadNode].prev = HeadNode /\ live = {HeadNode} /\ size = 0
    BY DEF Init, NewDll, Addr
  <2>4. Forward(mem, s) /\ Backward(mem, s, 0) /\ Keyed(mem, s)
    BY <2>1, <2>2, <2>3 DEF Forward, Backward, Keyed
  <2>5. Rest(s)
    BY <2>1, <2>3, <2>4, CapacityAssumption DEF Rest
  <2> QED BY <1>2, <2>1, <2>4, <2>5 DEF ListHeld, Listed
<1> QED BY <1>1, <1>3, <1>4 DEF OneByOne

\* A step of the thread that serves, after which it serves still or the list is at rest.
LEMMA HeldAfter ==
  ASSUME OneByOne, NEW t \in Serving, NEW r, Listed(r)', Where(t, r)', Serving' = Serving
  PROVE  ListHeld'
<1>1. \A u \in Serving : u = t
  BY ServesAlone DEF OneByOne
<1>2. \A u \in Serving' : Where(u, r)'
  BY <1>1
<1>3. Serving' # {}
  OBVIOUS
<1> QED BY <1>2, <1>3 DEF ListHeld

\* A step that is none of the list's, and of no thread's.
LEMMA HeldFrame ==
  ASSUME ListHeld, UNCHANGED <<mem, live, size, pc, uri, node, now, victim, reg, ret, buf>>
  PROVE  ListHeld'
<1>1. PICK s : Listed(s) /\ (Serving = {} => Rest(s)) /\ \A t \in Serving : Where(t, s)
  BY DEF ListHeld
<1>2. Serving' = Serving
  BY DEF Serving
<1>3. Listed(s)' /\ (Rest(s) => Rest(s)')
  BY <1>1 DEF Listed, Rest
<1>4. \A t \in Serving' : Where(t, s)'
  BY <1>1, <1>2 DEF Where, Key
<1> QED BY <1>1, <1>2, <1>3, <1>4 DEF ListHeld

\* The thread that serves does something else than sending: what is known of the clients is kept.
LEMMA ClientsKept ==
  ASSUME OneByOne, UNCHANGED <<conn, want, reply>>
  PROVE  Alone' /\ Replies' /\ RightPage'
BY DEF OneByOne, Alone, Accepted, Replies, RightPage, NoReply

\* No statement of the thread that serves is undefined when everything is in order.
LEMMA LegalStep ==
  ASSUME OneByOne, NEW t \in Serving
  PROVE  /\ Orderly => Illegal(t) = {}
         /\ ub' = ub \cup Illegal(t) => (Orderly => NoUndefinedBehaviour)'
<1>1. t \in Threads /\ pc[t] # "none"
  BY DEF Serving
<1>3. PICK s : Listed(s) /\ Where(t, s)
  BY DEF OneByOne, ListHeld
<1>4. Orderly => Illegal(t) = {}
  BY <1>1, <1>3, LegalWhere DEF OneByOne
<1>5. Orderly => ub = {}
  BY DEF OneByOne, NoUndefinedBehaviour
<1>6. ASSUME ub' = ub \cup Illegal(t), Orderly PROVE NoUndefinedBehaviour'
  BY <1>4, <1>5, <1>6 DEF NoUndefinedBehaviour
<1>7. Orderly' <=> Orderly
  BY DEF Orderly
<1> QED BY <1>4, <1>6, <1>7

LEMMA AskedKept ==
  ASSUME OneByOne, NEW t \in Serving, NEW l, pc' = [pc EXCEPT ![t] = l],
         pc[t] \in Busy \ {"t65"}, UNCHANGED <<uri, want, connfd, conn>>,
         \A f \in Fds : fdt[f] \in Clients => fdt'[f] = fdt[f]
  PROVE  Asked'
<1>1. /\ \A u \in Threads : pc'[u] \in Busy \ {"t65"} => u = t
  BY ServesAlone DEF OneByOne, IInv, TypeOK, ProcessTypeOK, Serving, Busy
<1>2. pc[t] # "t44" /\ t \in Threads
  BY DEF Busy, Serving
<1>3. connfd[t] \in Fds /\ fdt[connfd[t]] \in Clients
  BY <1>2 DEF OneByOne, IInv, ConnectionOwned, HeldIsOpen, FdOf, Accepted
<1>4. conn[Client(t)] # "gone" => uri[t] = want[Client(t)]
  BY <1>2 DEF OneByOne, Asked
<1>5. Client(t)' = Client(t)
  BY <1>3 DEF Client
<1> QED BY <1>1, <1>4, <1>5 DEF Asked

LEMMA CacheStepOneByOne ==
  ASSUME OneByOne, NEW t \in Threads, CacheStep(t), Derefs(t) \subseteq Addr, ub' = ub \cup Illegal(t)
  PROVE  OneByOne'
<1>1. IInv' /\ IInv
  BY CacheStepIInv DEF OneByOne
<1>2. PICK l \in Busy : pc' = [pc EXCEPT ![t] = l]
  BY <1>1, ListStepLabels DEF CacheStep
<1>3. pc[t] \in InCache /\ uri' = uri /\ pc \in [Threads -> Labels]
  BY <1>1, ListStepLabels DEF CacheStep, IInv, TypeOK, ProcessTypeOK
<1>4. t \in Serving /\ Serving' = Serving
  BY <1>2, <1>3 DEF Serving, InCache, Busy, Labels
<1>5. Alone' /\ Replies' /\ RightPage'
  BY ClientsKept DEF CacheStep, netVars
<1>6. Asked'
  BY <1>2, <1>3, <1>4, AskedKept DEF CacheStep, netVars, InCache
<1>7. ListHeld'
  <2>1. PICK s : Listed(s) /\ Where(t, s)
    BY <1>4 DEF OneByOne, ListHeld
  <2>2. Typed /\ PrintReturns
    BY <1>1, IInvTyped
  <2>3. PICK r : Listed(r)' /\ Where(t, r)'
    BY <2>1, <2>2, ListStepWhere DEF CacheStep, Goes
  <2> QED BY <1>4, <2>3, HeldAfter
<1>8. (Orderly => NoUndefinedBehaviour)'
  BY <1>4, LegalStep
<1> QED BY <1>1, <1>5, <1>6, <1>7, <1>8 DEF OneByOne

\* A statement that sends a body sends the page that was asked for.
LEMMA SendsRight ==
  ASSUME OneByOne, NEW t \in Serving, NEW from, NEW b, Send(t, from, b), Page(b, Path[uri[t]]),
         pc[t] \in Busy \ {"t65"}
  PROVE  Alone' /\ Replies' /\ RightPage'
<1>1. Alone'
  BY DEF OneByOne, Alone, Accepted, Send
<1>2. reply' = [c \in Clients |-> IF c = Client(t) /\ conn[c] \notin Closed THEN b ELSE reply[c]] /\ want' = want
  BY DEF Send
<1>6. b \in Uris \cup {Null} /\ (b \in Uris => Path[b] = Path[uri[t]])
  BY DEF Page, Bodies
<1>3. Replies'
  BY <1>2, <1>6 DEF OneByOne, Replies
<1>4. conn[Client(t)] \notin Closed => uri[t] = want[Client(t)]
  BY DEF OneByOne, Asked, Serving, Closed
<1>5. RightPage'
  BY <1>2, <1>4, <1>6 DEF OneByOne, RightPage, NoReply
<1> QED BY <1>1, <1>3, <1>5

LEMMA TransStepOneByOne ==
  ASSUME OneByOne, NEW t \in Threads, QuietTrans(t) \/ Miss108(t), Derefs(t) \subseteq Addr, ub' = ub \cup Illegal(t)
  PROVE  OneByOne'
<1>1. IInv' /\ IInv
  BY QuietTransIInv, Miss108IInv DEF OneByOne
<1>2. /\ pc[t] \in Busy \ {"t65"} /\ uri' = uri /\ connfd' = connfd /\ want' = want /\ conn' = conn
      /\ pc \in [Threads -> Labels]
      /\ \E l \in Busy : pc' = [pc EXCEPT ![t] = l]
  BY <1>1 DEF QuietTrans, Hit97, Hit102, Hit104, Miss108, Miss137, Miss137Short, Miss159Small, Miss159Large, Reply173,
              Send, Goto, localVars, netVars, Busy, Labels, IInv, TypeOK, ProcessTypeOK
<1>3. PICK l \in Busy : pc' = [pc EXCEPT ![t] = l]
  BY <1>2
<1>4. t \in Serving /\ Serving' = Serving
  BY <1>2, <1>3 DEF Serving, Busy
<1>5. PICK s : Listed(s) /\ Where(t, s)
  BY <1>4 DEF OneByOne, ListHeld
<1>6. Typed /\ RequestKnown
  BY <1>1, IInvTyped
<1>7. Alone' /\ Replies' /\ RightPage'
  <2>1. CASE Hit104(t)
    <3>1. Send(t, "hit104", buf[t]) /\ pc[t] = "hit104"
      BY <2>1 DEF Hit104, Send, Goto
    <3>2. Page(buf[t], Path[uri[t]])
      BY <1>5, <3>1 DEF Where, Holds
    <3> QED BY <1>2, <1>4, <3>1, <3>2, SendsRight
  <2>2. CASE Reply173(t)
    <3>1. Send(t, "reply173", mem[node[t]].body) /\ pc[t] = "reply173"
      BY <2>2 DEF Reply173, Send, Goto
    <3>2. Page(mem[node[t]].body, Path[uri[t]])
      BY <1>5, <3>1 DEF Where, Holds
    <3> QED BY <1>2, <1>4, <3>1, <3>2, SendsRight
  <2>3. CASE \/ Hit97(t) \/ Hit102(t) \/ Miss108(t) \/ Miss137(t) \/ Miss137Short(t)
             \/ Miss159Small(t) \/ Miss159Large(t)
    BY <2>3, ClientsKept DEF Hit97, Hit102, Miss108, Miss137, Miss137Short, Miss159Small, Miss159Large, netVars
  <2> QED BY <2>1, <2>2, <2>3 DEF QuietTrans
<1>8. Asked'
  <2>1. \A f \in Fds : fdt[f] \in Clients => fdt'[f] = fdt[f]
    <3>1. CASE QuietTrans(t)
      BY <3>1 DEF QuietTrans, Hit97, Hit102, Hit104, Miss137, Miss137Short, Miss159Small, Miss159Large, Reply173, Send
    <3>2. CASE Miss108(t)
      <4>1. PICK g \in Fds : fdt[g] = Free /\ fdt' = [fdt EXCEPT ![g] = Origin]
        BY <3>2 DEF Miss108, LowestFree, FreeFds
      <4> QED BY <1>1, <4>1, ClientsAssumption DEF IInv, TypeOK, ProcessTypeOK, Free
    <3> QED BY <3>1, <3>2
  <2> QED BY <1>2, <1>3, <1>4, <2>1, AskedKept
<1>9. ListHeld'
  <2>1. Listed(s)' /\ Where(t, s)'
    BY <1>5, <1>6, TransWhere
  <2> QED BY <1>4, <2>1, HeldAfter
<1>10. (Orderly => NoUndefinedBehaviour)'
  BY <1>4, LegalStep
<1> QED BY <1>1, <1>7, <1>8, <1>9, <1>10 DEF OneByOne

LEMMA Close48OneByOne ==
  ASSUME OneByOne, NEW t \in Threads, Close48(t), ub' = ub \cup Illegal(t)
  PROVE  OneByOne'
<1>1. IInv' /\ IInv
  BY Close48IInv DEF OneByOne
<1>2. /\ pc[t] = "close48" /\ pc' = [pc EXCEPT ![t] = "none"] /\ pc \in [Threads -> Labels]
      /\ conn' = [conn EXCEPT ![Client(t)] = "idle"]
      /\ conn \in [Clients -> {"idle", "mute", "line", "accepted"} \cup Closed]
      /\ UNCHANGED <<mem, live, size, want, reply>>
  BY <1>1 DEF Close48, Goto, listVars, IInv, TypeOK, ProcessTypeOK
<1>3. t \in Serving
  BY <1>2 DEF Serving
<1>4. Serving' = {}
  <2>1. \A u \in Serving : u = t
    BY <1>1, <1>3, ServesAlone DEF OneByOne
  <2> QED BY <1>2, <2>1 DEF Serving
<1>5. Alone'
  BY <1>2 DEF OneByOne, Alone, Accepted
<1>6. Replies' /\ RightPage'
  BY <1>2 DEF OneByOne, Replies, RightPage, NoReply
<1>7. Asked'
  BY <1>4 DEF Asked, Serving, Busy
<1>8. ListHeld'
  <2>1. PICK s : Listed(s) /\ Where(t, s)
    BY <1>3 DEF OneByOne, ListHeld
  <2>2. Listed(s)'
    BY <1>2, <2>1 DEF Listed
  <2>3. Rest(s)'
    BY <1>2, <2>1 DEF Rest, Where, Backwards, Counted, Allocated, Loose, Relinking, Pushing, Popping
  <2> QED BY <1>4, <2>2, <2>3 DEF ListHeld
<1>9. (Orderly => NoUndefinedBehaviour)'
  BY <1>3, LegalStep
<1> QED BY <1>1, <1>5, <1>6, <1>7, <1>8, <1>9 DEF OneByOne

\* A thread before it looks into the cache.
LEMMA EarlyOneByOne ==
  ASSUME OneByOne, NEW t \in Threads, T44(t) \/ T46(t) \/ Parsed(t)
  PROVE  OneByOne'
<1>1. IInv' /\ IInv
  BY T44IInv, T46IInv, T65IInv DEF OneByOne
<1>2. /\ pc[t] \in {"t44", "t46", "t65"} /\ pc \in [Threads -> Labels]
      /\ pc' = [pc EXCEPT ![t] = IF pc[t] = "t44" THEN "t46" ELSE IF pc[t] = "t46" THEN "t65" ELSE "search56"]
      /\ UNCHANGED <<mem, live, size, node, now, victim, reg, ret, conn, want, reply, buf, fdt>>
      /\ ub' = ub \/ ub' = ub \cup Illegal(t)
  BY <1>1 DEF T44, T46, Parsed, T65, T65Gone, Goto, IInv, TypeOK, ProcessTypeOK, listVars, localVars, netVars
<1>3. t \in Serving /\ Serving' = Serving
  BY <1>2 DEF Serving
<1>4. \A u \in Serving : u = t
  BY <1>1, <1>3, ServesAlone DEF OneByOne
<1>5. Alone' /\ Replies' /\ RightPage'
  BY <1>2, ClientsKept
<1>6. Asked'
  <2>1. CASE pc[t] # "t65"
    <3>1. \A u \in Threads : pc'[u] \notin Busy \ {"t65"}
      BY <1>2, <1>4, <2>1 DEF Serving, Busy
    <3> QED BY <3>1 DEF Asked
  <2>2. CASE pc[t] = "t65"
    <3>1. /\ conn[Client(t)] # "gone" => uri' = [uri EXCEPT ![t] = want[Client(t)]]
          /\ connfd' = connfd /\ uri \in [Threads -> Uris \cup {Null}]
      BY <1>1, <1>2, <2>2 DEF T44, T46, Parsed, T65, T65Gone, Goto, IInv, TypeOK, ProcessTypeOK
    <3>2. /\ Client(t)' = Client(t) /\ want' = want /\ conn' = conn
          /\ conn[Client(t)] # "gone" => uri'[t] = want[Client(t)]
      BY <1>2, <3>1 DEF Client
    <3>3. \A u \in Threads : pc'[u] \in Busy \ {"t65"} => u = t
      BY <1>2, <1>4 DEF Serving, Busy
    <3> QED BY <3>2, <3>3 DEF Asked
  <2> QED BY <2>1, <2>2
<1>7. ListHeld'
  <2>1. PICK s : Listed(s) /\ Where(t, s)
    BY <1>3 DEF OneByOne, ListHeld
  <2>2. Listed(s)' /\ pc'[t] \in {"t46", "t65", "search56"}
    BY <1>2, <2>1 DEF Listed
  <2>3. Where(t, s)'
    BY <1>2, <2>1, <2>2 DEF Where, Backwards, Counted, Allocated, Loose, Known, Printed, Printing, Chosen, Holds,
              Relinking, Pushing, Popping, First
  <2> QED BY <1>3, <2>2, <2>3, HeldAfter
<1>8. (Orderly => NoUndefinedBehaviour)'
  <2>1. CASE ub' = ub
    BY <2>1 DEF OneByOne, NoUndefinedBehaviour, Orderly
  <2> QED BY <1>2, <1>3, <2>1, LegalStep
<1> QED BY <1>1, <1>5, <1>6, <1>7, <1>8 DEF OneByOne

\* Main hands a connection to a thread, when none serves.
LEMMA Create35OneByOne ==
  ASSUME OneByOne, NEW t \in Threads, Create35(t)
  PROVE  OneByOne'
<1>1. IInv' /\ IInv
  BY Create35IInv DEF OneByOne
<1>2. /\ mpc = "create35" /\ pc' = [pc EXCEPT ![t] = "t44"] /\ pc \in [Threads -> Labels]
      /\ UNCHANGED <<mem, live, size, uri, node, now, victim, reg, ret, conn, want, reply, buf, ub>>
  BY <1>1 DEF Create35, Goto, IInv, TypeOK, ProcessTypeOK, listVars, localVars, netVars
<1>3. Serving = {} /\ Serving' = {t}
  <2>1. Serving = {}
    BY <1>1, <1>2, ServesAlone DEF OneByOne
  <2> QED BY <1>2, <2>1 DEF Serving
<1>4. Alone' /\ Replies' /\ RightPage'
  BY <1>2, ClientsKept
<1>5. Asked'
  BY <1>2, <1>3 DEF Asked, Serving, Busy
<1>6. ListHeld'
  <2>1. PICK s : Listed(s) /\ Rest(s)
    BY <1>3 DEF OneByOne, ListHeld
  <2>2. Listed(s)' /\ pc'[t] = "t44"
    BY <1>2, <2>1 DEF Listed
  <2>3. Where(t, s)'
    BY <1>2, <2>1, <2>2 DEF Rest, Where, Backwards, Counted, Allocated, Loose, Known, Printed, Printing, Chosen, Holds,
              Relinking, Pushing, Popping, First
  <2> QED BY <1>3, <2>2, <2>3 DEF ListHeld
<1>7. (Orderly => NoUndefinedBehaviour)'
  BY <1>2 DEF OneByOne, NoUndefinedBehaviour, Orderly
<1> QED BY <1>1, <1>4, <1>5, <1>6, <1>7 DEF OneByOne

LEMMA AskedFrame ==
  ASSUME OneByOne, UNCHANGED <<pc, uri, connfd>>, NEW c,
         \A d \in Clients : d # c => want'[d] = want[d] /\ conn'[d] = conn[d],
         \A f \in Fds : fdt[f] \in Clients => fdt'[f] = fdt[f] /\ fdt[f] # c
  PROVE  Asked'
<1>1. SUFFICES ASSUME NEW t \in Threads, pc[t] \in Busy \ {"t65"}, conn'[fdt'[connfd[t]]] # "gone"
               PROVE  uri[t] = want'[fdt'[connfd[t]]]
  BY DEF Asked, Client
<1>2. connfd[t] \in Fds /\ fdt[connfd[t]] \in Clients
  BY <1>1 DEF OneByOne, IInv, ConnectionOwned, HeldIsOpen, FdOf, Accepted, Serving, Busy
<1>3. conn[fdt[connfd[t]]] # "gone" => uri[t] = want[fdt[connfd[t]]]
  BY <1>1 DEF OneByOne, Asked, Client
<1> QED BY <1>1, <1>2, <1>3

LEMMA Accept34OneByOne ==
  ASSUME MaxActive = 1, OneByOne, NEW c \in Clients, NEW u \in Uris, Accept34(c, u)
  PROVE  OneByOne'
<1>1. IInv' /\ IInv
  BY Accept34IInv DEF OneByOne
<1>2. /\ conn[c] = "idle" /\ Cardinality(Accepted) < 1
      /\ conn' = [conn EXCEPT ![c] = IF c \in Slow THEN "mute" ELSE "accepted"]
      /\ conn \in [Clients -> {"idle", "mute", "line", "accepted"} \cup Closed]
      /\ want' = [want EXCEPT ![c] = u] /\ want \in [Clients -> Uris \cup {Null}]
      /\ reply' = [reply EXCEPT ![c] = Null]
      /\ UNCHANGED <<mem, live, size, pc, uri, node, now, victim, reg, ret, buf, ub, connfd>>
  BY <1>1 DEF Accept34, IInv, TypeOK, ProcessTypeOK, listVars, localVars, NoReply
<1>3. Accepted = {}
  <2>1. SUFFICES ASSUME NEW d \in Accepted PROVE FALSE
    OBVIOUS
  <2>2. Accepted = {d}
    BY DEF OneByOne, Alone
  <2>3. Cardinality({d}) = 1
    BY FS_Singleton
  <2> QED BY <1>2, <2>2, <2>3
<1>4. Alone'
  <2>1. \A d \in Clients : conn[d] = "idle"
    BY <1>3 DEF Accepted
  <2>2. \A d \in Clients : d # c => conn'[d] = "idle"
    BY <1>2, <2>1
  <2> QED BY <2>2 DEF Alone, Accepted
<1>5. Replies' /\ RightPage'
  BY <1>2 DEF OneByOne, Replies, RightPage, NoReply
<1>6. Asked'
  <2>1. \A f \in Fds : fdt[f] \notin Clients
    <3>1. SUFFICES ASSUME NEW f \in Fds, fdt[f] \in Clients PROVE FALSE
      OBVIOUS
    <3>2. HeldByMain(f) \/ \E t \in Threads : HeldBy(t, f)
      BY <1>1, <3>1 DEF IInv, ConnectionOwned, OpenIsHeld
    <3>3. fdt[f] \in Accepted
      BY <1>1, <3>2 DEF IInv, ConnectionOwned, HeldIsOpen, HeldByMain, HeldBy
    <3> QED BY <1>3, <3>3
  <2> QED BY <1>2, <2>1, AskedFrame
<1>7. ListHeld'
  BY <1>2, HeldFrame DEF OneByOne
<1>8. (Orderly => NoUndefinedBehaviour)'
  BY <1>2 DEF OneByOne, NoUndefinedBehaviour, Orderly
<1> QED BY <1>1, <1>4, <1>5, <1>6, <1>7, <1>8 DEF OneByOne

\* Steps that touch neither the list nor what was asked and answered.
LEMMA AsideOneByOne ==
  ASSUME OneByOne, IInv', Accepted' = Accepted, (Orderly => NoUndefinedBehaviour)',
         \A c \in Clients : conn'[c] # "gone" => conn[c] # "gone",
         UNCHANGED <<listVars, pc, localVars, want, reply, fdt, connfd, buf>>
  PROVE  OneByOne'
<1> USE DEF listVars, localVars
<1>1. Alone' /\ Replies' /\ RightPage'
  BY DEF OneByOne, Alone, Replies, RightPage, NoReply
<1>3. Asked'
  <2>1. SUFFICES ASSUME NEW t \in Threads, pc[t] \in Busy \ {"t65"}, conn'[Client(t)] # "gone"
                 PROVE  uri[t] = want[Client(t)]
    BY DEF Asked, Client
  <2>2. Client(t) \in Clients
    BY <2>1 DEF OneByOne, IInv, ConnectionOwned, HeldIsOpen, FdOf, Accepted, Serving, Busy, Client
  <2> QED BY <2>1, <2>2 DEF OneByOne, Asked
<1>2. ListHeld'
  BY HeldFrame DEF OneByOne
<1> QED BY <1>1, <1>2, <1>3 DEF OneByOne

LEMMA NextOneByOne == MaxActive = 1 /\ OneByOne /\ [Next]_vars => OneByOne'
<1> SUFFICES ASSUME MaxActive = 1, OneByOne, [Next]_vars PROVE OneByOne'
  OBVIOUS
<1>1. IInv' /\ IInv
  BY NextIInv DEF OneByOne
<1>2. ub' = ub => (Orderly => NoUndefinedBehaviour)'
  BY DEF OneByOne, NoUndefinedBehaviour, Orderly
<1>3. Exit => OneByOne'
  BY <1>1, <1>2, AsideOneByOne DEF Exit, Accepted, mainVars, netVars
<1>4. CASE Main
  <2>1. CASE Malloc33
    BY <1>1, <1>2, <2>1, AsideOneByOne DEF Malloc33, Accepted, netVars
  <2> QED BY <1>3, <1>4, <2>1, Create35OneByOne DEF Main, AcceptError
<1>5. CASE Environment
  <2>1. ASSUME NEW c \in Clients, SendOn(c) \/ GiveUp(c) PROVE OneByOne'
    <3>1. /\ Accepted' = Accepted /\ \A d \in Clients : conn'[d] # "gone" => conn[d] # "gone"
          /\ UNCHANGED <<listVars, pc, localVars, want, reply, fdt, connfd, buf, ub>>
      BY <1>1, <2>1, OpenKept
    <3> QED BY <1>1, <1>2, <3>1, AsideOneByOne
  <2> QED BY <1>5, <2>1, Accept34OneByOne DEF Environment
<1>6. ASSUME NEW t \in Threads, Thread(t) PROVE OneByOne'
  <2>1. CASE TransStep(t) /\ Derefs(t) \subseteq Addr /\ ub' = ub \cup Illegal(t)
    BY <2>1, TransStepOneByOne, Close48OneByOne, EarlyOneByOne DEF TransStep, QuietTrans, Parsed
  <2>2. CASE T44(t) \/ T46(t) \/ T65(t)
    BY <2>2, EarlyOneByOne DEF Parsed
  <2> QED BY <1>3, <1>6, <2>1, <2>2, CacheStepOneByOne DEF Thread, Statement, Miss108Error
<1>9. ASSUME NEW t \in Threads, ReadError(t) PROVE OneByOne'
  BY <1>3, <1>9 DEF ReadError
<1>7. ASSUME NEW t \in Threads, Crash(t) PROVE OneByOne'
  <2>1. Accepted' = Accepted
    BY <1>7 DEF Crash, Accepted, netVars
  <2>2. t \in Serving
    <3>1. SUFFICES ASSUME pc[t] = "none" PROVE FALSE
      BY DEF Serving
    <3> QED BY <1>7, <3>1 DEF Crash, Illegal, BrokenPipe, Derefs, ListDerefs, Overflows, Unwritten
  <2>3. (Orderly => NoUndefinedBehaviour)'
    BY <1>7, <2>2, LegalStep DEF Crash
  <2> QED BY <1>1, <1>7, <2>1, <2>3, AsideOneByOne DEF Crash, netVars
<1>8. CASE UNCHANGED vars
  BY <1>1, <1>2, <1>8, AsideOneByOne DEF vars, Accepted, netVars
<1> QED BY <1>4, <1>5, <1>6, <1>7, <1>8, <1>9 DEF Next

-----------------------------------------------------------------------------
(* What the walk of the properties finds, when the list is a sequence. *)

LEMMA WalkIs ==
  ASSUME Typed
  PROVE  /\ Steps \in Nat /\ Walk[0] = HeadNode
         /\ \A k \in 1..Steps : Walk[k] = IF Walk[k-1] \in Addr THEN mem[Walk[k-1]].next ELSE Null
<1> DEFINE S == Addr \cup {Null}
           step == [x \in S |-> IF x \in Addr THEN mem[x].next ELSE Null]
           W(f) == [k \in 0..Steps |-> IF k = 0 THEN HeadNode
                                       ELSE IF f[k-1] \in Addr THEN mem[f[k-1]].next ELSE Null]
<1>1. Steps \in Nat
  BY HeapAssumption, FS_CardinalityType DEF Steps
<1>2. HeadNode \in S /\ step \in [S -> S]
  BY DEF Typed, Memory, Addr
<1>3. PICK f \in [0..Steps -> S] : f = [n \in 0..Steps |-> IF n = 0 THEN HeadNode ELSE step[f[n-1]]]
  <2>1. \E f \in [0..Steps -> S] : Iterated(f, HeadNode, step, Steps)
    <3> HIDE DEF S, step
    <3> QED BY <1>1, <1>2, Iterates
  <2> QED BY <2>1 DEF Iterated
<1>4. \A n \in 0..Steps : f[n] = IF n = 0 THEN HeadNode ELSE IF f[n-1] \in Addr THEN mem[f[n-1]].next ELSE Null
  <2> TAKE n \in 0..Steps
  <2>1. CASE n = 0
    BY <1>3, <2>1
  <2>2. CASE n # 0
    <3>1. n - 1 \in 0..Steps
      BY <1>1, <2>2
    <3>2. f[n - 1] \in S
      <4> HIDE DEF S
      <4> QED BY <3>1
    <3>3. f[n] = step[f[n - 1]]
      BY <1>3, <2>2
    <3> QED BY <2>2, <3>2, <3>3
  <2> QED BY <2>1, <2>2
<1>5. f = W(f)
  <2>1. f = [n \in 0..Steps |-> f[n]]
    OBVIOUS
  <2> QED BY <1>4, <2>1
<1>6. Walk = W(Walk)
  <2>1. Walk = CHOOSE g : g = W(g)
    BY DEF Walk
  <2> HIDE DEF W
  <2> QED BY <1>5, <2>1
<1>7. \A k \in 0..Steps : Walk[k] = IF k = 0 THEN HeadNode ELSE IF Walk[k-1] \in Addr THEN mem[Walk[k-1]].next ELSE Null
  BY <1>6
<1> QED BY <1>1, <1>7

\* A list has at most all nodes.
LEMMA Fits ==
  ASSUME NEW s, Listed(s)
  PROVE  /\ Len(s) \in Nat /\ Len(s) + 1 \in 1..Steps
         /\ Cardinality({s[i] : i \in 1..Len(s)}) = Len(s)
<1> DEFINE R == {s[i] : i \in 1..Len(s)}
           f == [i \in 1..Len(s) |-> s[i]]
<1>1. Len(s) \in Nat /\ \A i \in 1..Len(s) : s[i] \in Nodes
  BY CellsAre DEF Listed
<1>2. \A i, j \in 1..Len(s) : s[i] = s[j] => i = j
  BY Apartness DEF Listed
<1>3. f \in Injection(1..Len(s), Nodes) /\ f \in Bijection(1..Len(s), R)
  BY <1>1, <1>2 DEF Injection, Bijection, Surjection, IsInjective
<1>4. IsFiniteSet(1..Len(s)) /\ Cardinality(1..Len(s)) = Len(s)
  <2>1. IsFiniteSet(1..Len(s)) /\ Cardinality(1..Len(s)) = IF 1 > Len(s) THEN 0 ELSE Len(s) - 1 + 1
    BY <1>1, FS_Interval
  <2> QED BY <1>1, <2>1
<1>5. IsFiniteSet(Nodes) /\ Cardinality(Nodes) \in Nat
  BY HeapAssumption, FS_CardinalityType
<1> HIDE DEF f, R
<1>6. Cardinality(1..Len(s)) <= Cardinality(Nodes)
  BY <1>3, <1>5, FS_Injection
<1>7. Cardinality(R) = Cardinality(1..Len(s))
  BY <1>3, <1>4, FS_Bijection DEF ExistsBijection
<1> QED BY <1>1, <1>4, <1>5, <1>6, <1>7 DEF Steps, R

\* The walk goes along the list, and round and round.
LEMMA WalkCells ==
  ASSUME Typed, NEW s, Listed(s)
  PROVE  /\ \A k \in 0..Len(s) + 1 : Walk[k] = Cell(s, k)
         /\ \A k \in 0..Steps : \E i \in 0..Len(s) : Walk[k] = Cell(s, i)
         /\ Cached = {s[i] : i \in 1..Len(s)}
<1>1. /\ Len(s) \in Nat /\ Len(s) + 1 \in 1..Steps /\ Steps \in Nat
      /\ Cell(s, 0) = HeadNode /\ Cell(s, Len(s) + 1) = HeadNode /\ \A i \in Int : Cell(s, i) \in Addr
      /\ \A i \in 1..Len(s) : s[i] \in Nodes /\ Cell(s, i) = s[i] /\ s[i] # HeadNode
  BY Fits, CellsAre, WalkIs DEF Listed
<1>2. \A i \in 0..Len(s) : mem[Cell(s, i)].next = Cell(s, i + 1)
  BY DEF Listed, Forward
<1>3. \A k \in Nat : k + 1 \in 1..Steps /\ Walk[k] \in Addr => Walk[k + 1] = mem[Walk[k]].next
  <2> SUFFICES ASSUME NEW k \in Nat, k + 1 \in 1..Steps, Walk[k] \in Addr PROVE Walk[k + 1] = mem[Walk[k]].next
    OBVIOUS
  <2>1. (k + 1) - 1 = k
    OBVIOUS
  <2> QED BY <2>1, WalkIs
<1>4. \A k \in 0..Len(s) + 1 : Walk[k] = Cell(s, k)
  <2> DEFINE D == {k \in Nat : k <= Len(s) + 1 => Walk[k] = Cell(s, k)}
  <2>1. 0 \in D
    BY <1>1, WalkIs
  <2>2. ASSUME NEW k \in Nat \cap D PROVE k + 1 \in D
    <3>1. SUFFICES ASSUME k + 1 <= Len(s) + 1 PROVE Walk[k + 1] = Cell(s, k + 1)
      OBVIOUS
    <3>2. k \in 0..Len(s) /\ Walk[k] = Cell(s, k) /\ k + 1 \in 1..Steps /\ k \in Int
      BY <1>1, <2>2, <3>1
    <3> QED BY <1>1, <1>2, <1>3, <3>2
  <2>3. Nat \subseteq D
    <3> HIDE DEF D
    <3> QED BY <2>1, <2>2, Counting
  <2> QED BY <1>1, <2>3
<1>5. \A k \in 0..Steps : \E i \in 0..Len(s) : Walk[k] = Cell(s, i)
  <2> DEFINE D == {k \in Nat : k <= Steps => \E i \in 0..Len(s) : Walk[k] = Cell(s, i)}
  <2>1. 0 \in D
    BY <1>1, WalkIs
  <2>2. ASSUME NEW k \in Nat \cap D PROVE k + 1 \in D
    <3>1. SUFFICES ASSUME k + 1 <= Steps PROVE \E i \in 0..Len(s) : Walk[k + 1] = Cell(s, i)
      OBVIOUS
    <3>2. PICK i \in 0..Len(s) : Walk[k] = Cell(s, i)
      BY <1>1, <2>2, <3>1
    <3>3. Walk[k + 1] = Cell(s, i + 1)
      <4>1. k + 1 \in 1..Steps /\ Cell(s, i) \in Addr
        BY <1>1, <2>2, <3>1
      <4> QED BY <1>2, <1>3, <2>2, <3>2, <4>1
    <3>4. CASE i = Len(s)
      BY <1>1, <3>3, <3>4
    <3>5. CASE i # Len(s)
      <4>1. i + 1 \in 0..Len(s)
        BY <1>1, <3>5
      <4> QED BY <3>3, <4>1
    <3> QED BY <3>4, <3>5
  <2>3. Nat \subseteq D
    <3> HIDE DEF D
    <3> QED BY <2>1, <2>2, Counting
  <2> QED BY <1>1, <2>3
<1>6. Cached = {s[i] : i \in 1..Len(s)}
  <2>1. ASSUME NEW n \in Cached PROVE \E i \in 1..Len(s) : n = s[i]
    <3>1. PICK k \in 1..Steps : n = Walk[k] /\ n # HeadNode
      BY <2>1 DEF Cached
    <3>2. PICK i \in 0..Len(s) : n = Cell(s, i)
      BY <1>1, <1>5, <3>1
    <3>3. i \in 1..Len(s)
      BY <1>1, <3>1, <3>2
    <3> QED BY <1>1, <3>2, <3>3
  <2>2. ASSUME NEW i \in 1..Len(s) PROVE s[i] \in Cached
    <3>1. i \in 1..Steps /\ i \in 0..Len(s) + 1
      BY <1>1
    <3>2. Walk[i] = s[i] /\ s[i] # HeadNode
      BY <1>1, <1>4, <3>1
    <3> QED BY <3>1, <3>2 DEF Cached
  <2> QED BY <2>1, <2>2
<1> QED BY <1>4, <1>5, <1>6

\* A list that is settled is coherent.
LEMMA Coherent ==
  ASSUME Typed, NEW s, Listed(s), Backward(mem, s, 0), size = Len(s), size <= Capacity,
         live = {HeadNode} \cup {s[i] : i \in 1..Len(s)} \cup Private
  PROVE  ListCoherent
<1>1. Cached = {s[i] : i \in 1..Len(s)}
  BY WalkCells
<1>2. /\ Len(s) \in Nat /\ Cardinality({s[i] : i \in 1..Len(s)}) = Len(s)
      /\ Cell(s, 0) = HeadNode /\ Cell(s, Len(s) + 1) = HeadNode
      /\ \A i \in 1..Len(s) : Cell(s, i) = s[i]
  BY Fits, CellsAre DEF Listed
<1>3. ASSUME NEW n \in Cached \cup {HeadNode} PROVE mem[mem[n].next].prev = n /\ mem[mem[n].prev].next = n
  <2>1. PICK i \in 0..Len(s) : n = Cell(s, i)
    BY <1>1, <1>2, <1>3
  <2>2. mem[Cell(s, i)].next = Cell(s, i + 1) /\ mem[Cell(s, i + 1)].prev = Cell(s, i)
    <3>1. i + 1 \in 1..Len(s) + 1 /\ i + 1 # 0 /\ (i + 1) - 1 = i
      BY <1>2
    <3> QED BY <3>1 DEF Listed, Forward, Backward
  <2>3. PICK j \in 1..Len(s) + 1 : n = Cell(s, j)
    <3>1. CASE i = 0
      BY <1>2, <2>1, <3>1
    <3>2. CASE i # 0
      BY <1>2, <2>1, <3>2
    <3> QED BY <3>1, <3>2
  <2>4. mem[Cell(s, j)].prev = Cell(s, j - 1) /\ mem[Cell(s, j - 1)].next = Cell(s, j)
    <3>1. j - 1 \in 0..Len(s) /\ j # 0 /\ (j - 1) + 1 = j
      BY <1>2
    <3> QED BY <3>1 DEF Listed, Forward, Backward
  <2> QED BY <2>1, <2>2, <2>3, <2>4
<1>4. \A m, n \in Cached : mem[m].path = mem[n].path => m = n
  BY <1>1 DEF Listed, Keyed
<1> QED BY <1>1, <1>2, <1>3, <1>4 DEF ListCoherent

LEMMA OneByOneCoherent == OneByOne => ListCoherent
<1> SUFFICES ASSUME OneByOne, Settled PROVE ListCoherent
  BY DEF ListCoherent
<1>1. Typed
  BY IInvTyped DEF OneByOne
<1>2. PICK s : Listed(s) /\ (Serving = {} => Rest(s)) /\ \A t \in Serving : Where(t, s)
  BY DEF OneByOne, ListHeld
<1>3. \A t, u \in Serving : t = u
  BY ServesAlone DEF OneByOne
<1>4. CASE Serving = {}
  <2>1. Private = {}
    BY <1>4 DEF Private, Serving
  <2> QED BY <1>1, <1>2, <1>4, <2>1, Coherent DEF Rest
<1>5. CASE Serving # {}
  <2>1. PICK t \in Serving : Where(t, s)
    BY <1>2, <1>5
  <2>2. pc[t] \in {"t44", "t46", "t65", "search56", "search63", "hit97", "miss108",
                   "miss137", "miss159", "hit102", "hit104", "reply173", "close48"}
    BY DEF Settled, Serving
  <2>3. Private = Loose(pc[t], node[t], victim[t])
    <3>1. Private = IF pc[t] = "miss159" THEN {node[t]} ELSE {}
      BY <1>3 DEF Private, Serving
    <3> QED BY <2>2, <3>1 DEF Loose, Relinking, Pushing
  <2>4. Backward(mem, s, 0)
    BY <2>1, <2>2 DEF Where, Backwards
  <2>5. size = Len(s) /\ size <= Capacity
    BY <2>1, <2>2 DEF Where, Counted, Relinking, Popping
  <2>6. live = {HeadNode} \cup {s[i] : i \in 1..Len(s)} \cup Private
    BY <2>1, <2>3 DEF Where, Allocated
  <2> QED BY <1>1, <1>2, <2>4, <2>5, <2>6, Coherent
<1> QED BY <1>4, <1>5

LEMMA OneByOneForward == OneByOne => ForwardChain
<1> SUFFICES ASSUME OneByOne PROVE ForwardChain
  OBVIOUS
<1>1. Typed
  BY IInvTyped DEF OneByOne
<1>2. PICK s : Listed(s) /\ (Serving = {} => Rest(s)) /\ \A t \in Serving : Where(t, s)
  BY DEF OneByOne, ListHeld
<1>3. /\ Len(s) \in Nat /\ Len(s) + 1 \in 1..Steps /\ \A k \in 0..Len(s) + 1 : Walk[k] = Cell(s, k)
      /\ Cell(s, Len(s) + 1) = HeadNode
      /\ \A i \in 1..Len(s) : Cell(s, i) = s[i] /\ s[i] # HeadNode
  BY <1>1, <1>2, Fits, CellsAre, WalkCells DEF Listed
<1>4. \A i \in 1..Len(s) : s[i] \in live
  <2>1. CASE Serving = {}
    BY <1>2, <2>1 DEF Rest
  <2>2. CASE Serving # {}
    BY <1>2, <2>2 DEF Where, Allocated
  <2> QED BY <2>1, <2>2
<1>5. \A i \in 1..Len(s) : mem[s[i]].path # Null
  BY <1>2, PathAssumption DEF Listed, Keyed, Page, LruPaths
<1>6. \A j \in 1..(Len(s) + 1) - 1 : Walk[j] \in live \ {HeadNode} /\ mem[Walk[j]].path # Null
  <2>1. SUFFICES ASSUME NEW j \in 1..Len(s) PROVE Walk[j] \in live \ {HeadNode} /\ mem[Walk[j]].path # Null
    BY <1>3
  <2>2. Walk[j] = s[j]
    BY <1>3
  <2> QED BY <1>3, <1>4, <1>5, <2>2
<1>7. Walk[Len(s) + 1] = HeadNode
  BY <1>3
<1> QED BY <1>3, <1>6, <1>7 DEF ForwardChain

LEMMA AlwaysOneByOne == ASSUME MaxActive = 1 PROVE Spec => []OneByOne
<1>1. OneByOne /\ [Next]_vars => OneByOne'
  BY NextOneByOne
<1> QED BY <1>1, InitOneByOne, PTL DEF Spec

(***************************************************************************)
(* Between updates the cache is what cache.c means it to be: the links go  *)
(* both ways round the same ring, size counts it and stays within the      *)
(* capacity, no path is cached twice, and every block that malloc handed   *)
(* out is in the list, or still with the thread that fills it.             *)
(***************************************************************************)
THEOREM ProxyListCoherent == ASSUME MaxActive = 1 PROVE Spec => []ListCoherent
BY AlwaysOneByOne, OneByOneCoherent, PTL

(***************************************************************************)
(* At every statement, in the middle of moveFront, pushFront and popBack too, *)
(* a walk along next comes back to the dummy node and meets only nodes that *)
(* are allocated and have their path.                                      *)
(***************************************************************************)
THEOREM ProxyForwardChain == ASSUME MaxActive = 1 PROVE Spec => []ForwardChain
BY AlwaysOneByOne, OneByOneForward, PTL

(***************************************************************************)
(* A client receives the page it asked for, from the cache or the origin,  *)
(* whatever was moved to the front, evicted and reused in the meantime; or *)
(* nothing, or what there is of a page whose origin broke off.             *)
(***************************************************************************)
THEOREM ProxyRightPage == ASSUME MaxActive = 1 PROVE Spec => []RightPage
<1>1. OneByOne => RightPage
  BY DEF OneByOne
<1> QED BY <1>1, AlwaysOneByOne, PTL

(***************************************************************************)
(* No statement of trans or cache.c reads or frees a block after it was    *)
(* freed, follows a pointer nobody has written, copies past the end of     *)
(* buf, or parses or sends what nobody has written, in an orderly world:   *)
(* the cache admits every page and buf holds it, clients send their        *)
(* request when they connect, and an origin that answers sends the whole   *)
(* page.  (When a page is larger than MaxObject, line 174 reads a freed    *)
(* block: a run of TLC shows it.)                                          *)
(***************************************************************************)
THEOREM ProxyNoUndefinedBehaviour == ASSUME MaxActive = 1, Orderly PROVE Spec => []NoUndefinedBehaviour
<1>1. OneByOne => NoUndefinedBehaviour
  BY DEF OneByOne
<1> QED BY <1>1, AlwaysOneByOne, PTL

-----------------------------------------------------------------------------
(* The abstract cache: what the statements do to the entries. *)

LEMMA EntriesAre ==
  ASSUME NEW s, NEW m, s \in Seq(Nodes), Keyed(m, s)
  PROVE  /\ EntriesOf(m, s) \in Seq(LruEntries) /\ Len(EntriesOf(m, s)) = Len(s) /\ Len(s) \in Nat
         /\ \A k \in 1..Len(s) : EntriesOf(m, s)[k] = Ent(m, s[k]) /\ Ent(m, s[k]) \in LruEntries
<1>1. Len(s) \in Nat
  BY CellsAre
<1>2. \A k \in 1..Len(s) : Ent(m, s[k]) \in LruEntries
  BY DEF Keyed, Page, Ent, LruEntries
<1>3. EntriesOf(m, s) \in [1..Len(s) -> LruEntries]
  BY <1>2 DEF EntriesOf
<1>4. EntriesOf(m, s) \in Seq(LruEntries) /\ Len(EntriesOf(m, s)) = Len(s)
  BY <1>1, <1>3
<1> QED BY <1>1, <1>2, <1>4 DEF EntriesOf

LEMMA KeptAll ==
  ASSUME NEW q \in Seq(LruEntries), Len(q) <= Capacity
  PROVE  Kept(q) = q
BY SubSeqFull DEF Kept

\* The list the walk goes along is the one there is.
LEMMA ChainIs ==
  ASSUME Typed, NEW s, Listed(s)
  PROVE  Entries = EntriesOf(mem, s)
<1>1. /\ Len(s) \in Nat /\ Len(s) + 1 \in 1..Steps
      /\ \A k \in 0..Len(s) + 1 : Walk[k] = Cell(s, k)
      /\ Cell(s, Len(s) + 1) = HeadNode
      /\ \A k \in 1..Len(s) : Cell(s, k) = s[k] /\ s[k] # HeadNode
  BY Fits, WalkCells, CellsAre DEF Listed
<1>2. Cardinality(Nodes) \in Nat
  BY HeapAssumption, FS_CardinalityType
<1>3. ChainLength = Len(s)
  <2> DEFINE P(k) == Walk[k+1] = HeadNode /\ \A j \in 1..k : Walk[j] # HeadNode
  <2>1. Len(s) \in 0..Cardinality(Nodes) /\ P(Len(s))
    BY <1>1, <1>2 DEF Steps
  <2>2. ASSUME NEW k \in 0..Cardinality(Nodes), P(k) PROVE k = Len(s)
    <3>1. CASE k < Len(s)
      <4>1. k + 1 \in 1..Len(s) /\ k + 1 \in 0..Len(s) + 1
        BY <1>1, <3>1
      <4>2. Walk[k + 1] = s[k + 1] /\ s[k + 1] # HeadNode
        BY <1>1, <4>1
      <4> QED BY <2>2, <4>2
    <3>2. CASE k > Len(s)
      <4>1. Len(s) + 1 \in 1..k /\ Len(s) + 1 \in 0..Len(s) + 1
        BY <1>1, <3>2
      <4> QED BY <1>1, <2>2, <4>1
    <3> QED BY <1>1, <3>1, <3>2
  <2>3. ChainLength = CHOOSE k \in 0..Cardinality(Nodes) : P(k)
    BY DEF ChainLength
  <2> HIDE DEF P
  <2> QED BY <2>1, <2>2, <2>3
<1>4. \A k \in 1..Len(s) : Walk[k] = s[k]
  BY <1>1
<1> QED BY <1>3, <1>4 DEF Entries, EntriesOf, Ent

LEMMA MappedIs == OneByOne => MappedHolds
<1> SUFFICES ASSUME OneByOne PROVE MappedHolds
  OBVIOUS
<1>1. Typed
  BY IInvTyped DEF OneByOne
<1>2. ASSUME NEW s, Listed(s) PROVE Entries = EntriesOf(mem, s) /\ << >> \o EntriesOf(mem, s) = EntriesOf(mem, s)
  <2>1. EntriesOf(mem, s) \in Seq(LruEntries)
    BY <1>2, EntriesAre DEF Listed
  <2> QED BY <1>1, <1>2, <2>1, ChainIs, ConcatEmptySeq
<1>3. Mapped = Kept(Detached \o Entries)
  BY DEF Mapped, Kept
<1>4. Serving = {} => Moving = {}
  BY DEF Serving, Moving
<1>5. ASSUME NEW t \in Serving
      PROVE  Detached = IF pc[t] \in Relinking THEN <<Ent(mem, node[t])>> ELSE << >>
  <2>1. \A u \in Moving : u = t
    BY ServesAlone DEF OneByOne, Moving, Serving
  <2>2. Moving = IF pc[t] \in Relinking THEN {t} ELSE {}
    BY <2>1 DEF Moving, Relinking, Serving
  <2> QED BY <2>2 DEF Detached, Ent
<1>6. ASSUME NEW s, Listed(s), Serving = {} PROVE Mapped = Kept(EntriesOf(mem, s))
  BY <1>2, <1>3, <1>4, <1>6 DEF Detached
<1>7. ASSUME NEW t \in Serving, NEW s, Listed(s) PROVE Mapped = Kept(Abstracted(mem, s, pc[t], node[t]))
  BY <1>2, <1>3, <1>5, <1>7 DEF Abstracted
<1> QED BY <1>6, <1>7 DEF MappedHolds

LEMMA MappedNext == OneByOne' => MappedHolds'
BY MappedIs, PTL

\* The statements of cache.c write links only.
LEMMA LinksOnly ==
  ASSUME Typed, NEW t \in Threads, ListStep(t)
  PROVE  \A a \in Addr : mem'[a].path = mem[a].path /\ mem'[a].body = mem[a].body
<1>1. CASE mem' = mem
  BY <1>1
<1>2. CASE \E p, q : SetNext(p, q)
  BY <1>2 DEF SetNext, Typed, Memory
<1>3. CASE \E p, q : SetPrev(p, q)
  BY <1>3 DEF SetPrev, Typed, Memory
<1>4. CASE Print95(t) \/ Print101(t) \/ PrintNext(t) \/ PrintLast(t)
  BY <1>1, <1>4 DEF Print95, Print101, PrintNext, PrintLast, listVars
<1>5. CASE Search56(t) \/ SearchFound(t) \/ SearchNext(t) \/ SearchMiss(t)
  BY <1>1, <1>5 DEF Search56, SearchFound, SearchNext, SearchMiss, listVars
<1>6. CASE Move83(t) \/ Move84(t) \/ Move86(t) \/ Move87(t) \/ Move88(t) \/ Move89(t)
  BY <1>2, <1>3, <1>6 DEF Move83, Move84, Move86, Move87, Move88, Move89
<1>7. CASE \/ Push16(t) \/ Push17(t) \/ Push18(t) \/ Push19(t)
           \/ Push21Load(t) \/ Push21Store(t) \/ Push24(t) \/ Push28(t)
  BY <1>1, <1>2, <1>3, <1>7 DEF Push16, Push17, Push18, Push19, Push21Load, Push21Store, Push24, Push28, listVars
<1>8. CASE \/ Pop33(t) \/ Pop37(t) \/ Pop38(t) \/ Pop40(t) \/ Pop41(t) \/ Pop43(t)
           \/ Pop47Load(t) \/ Pop47Store(t)
  BY <1>1, <1>2, <1>3, <1>8 DEF Pop33, Pop37, Pop38, Pop40, Pop41, Pop43, Pop47Load, Pop47Store, listVars
<1> QED BY <1>4, <1>5, <1>6, <1>7, <1>8 DEF ListStep

\* The thread's node, before and after.
LEMMA SameNode ==
  ASSUME Typed, NEW t \in Threads, ListStep(t)
  PROVE  /\ pc[t] \in Relinking \cup {"move83", "push18", "pop41"} => node'[t] = node[t]
         /\ pc'[t] \in Relinking <=> pc[t] \in (Relinking \cup {"move83"}) \ {"move88"}
<1> USE DEF Typed, Relinking, localVars, Goto, CallPrint
<1>4. CASE Print95(t) \/ Print101(t) \/ PrintNext(t) \/ PrintLast(t)
  BY <1>4 DEF Print95, Print101, PrintNext, PrintLast
<1>5. CASE Search56(t) \/ SearchFound(t) \/ SearchNext(t) \/ SearchMiss(t)
  BY <1>5 DEF Search56, SearchFound, SearchNext, SearchMiss
<1>6. CASE Move83(t) \/ Move84(t) \/ Move86(t) \/ Move87(t) \/ Move88(t) \/ Move89(t)
  BY <1>6 DEF Move83, Move84, Move86, Move87, Move88, Move89
<1>7. CASE \/ Push16(t) \/ Push17(t) \/ Push18(t) \/ Push19(t)
           \/ Push21Load(t) \/ Push21Store(t) \/ Push24(t) \/ Push28(t)
  BY <1>7 DEF Push16, Push17, Push18, Push19, Push21Load, Push21Store, Push24, Push28
<1>8. CASE \/ Pop33(t) \/ Pop37(t) \/ Pop38(t) \/ Pop40(t) \/ Pop41(t) \/ Pop43(t)
           \/ Pop47Load(t) \/ Pop47Store(t)
  BY <1>8 DEF Pop33, Pop37, Pop38, Pop40, Pop41, Pop43, Pop47Load, Pop47Store
<1> QED BY <1>4, <1>5, <1>6, <1>7, <1>8 DEF ListStep

-----------------------------------------------------------------------------
(* What the statements do to the entries. *)

LEMMA EntriesKept ==
  ASSUME NEW s \in Seq(Nodes), NEW m, NEW w, \A i \in 1..Len(s) : w[s[i]].path = m[s[i]].path /\ w[s[i]].body = m[s[i]].body
  PROVE  EntriesOf(w, s) = EntriesOf(m, s)
BY DEF EntriesOf, Ent

LEMMA EntriesTakeOut ==
  ASSUME NEW s \in Seq(Nodes), NEW m, Keyed(m, s), NEW j \in 1..Len(s), Len(s) <= Capacity
  PROVE  /\ Kept(EntriesOf(m, s)) = EntriesOf(m, s) /\ j \in DOMAIN EntriesOf(m, s)
         /\ Kept(<<Ent(m, s[j])>> \o EntriesOf(m, Without(s, j)))
              = <<EntriesOf(m, s)[j]>> \o Lru!RemoveAt(EntriesOf(m, s), j)
<1> DEFINE q == EntriesOf(m, s)
           r == EntriesOf(m, Without(s, j))
           e == Ent(m, s[j])
<1>1. /\ q \in Seq(LruEntries) /\ Len(q) = Len(s) /\ Len(s) \in Nat
      /\ \A k \in 1..Len(s) : q[k] = Ent(m, s[k]) /\ Ent(m, s[k]) \in LruEntries
  BY EntriesAre
<1>2. /\ Without(s, j) \in Seq(Nodes) /\ Len(Without(s, j)) = Len(s) - 1
      /\ \A k \in 1..Len(s) - 1 : Without(s, j)[k] = IF k < j THEN s[k] ELSE s[k + 1]
  BY WithoutCells DEF Without
<1>3. /\ Len(r) = Len(s) - 1 /\ \A k \in 1..Len(s) - 1 : r[k] = IF k < j THEN q[k] ELSE q[k + 1]
      /\ r \in Seq(LruEntries)
  <2>1. \A k \in 1..Len(s) - 1 : r[k] = IF k < j THEN q[k] ELSE q[k + 1]
    BY <1>1, <1>2 DEF EntriesOf
  <2>2. r = [k \in 1..Len(s) - 1 |-> r[k]]
    BY <1>2 DEF EntriesOf
  <2>3. \A k \in 1..Len(s) - 1 : r[k] \in LruEntries
    BY <1>1, <2>1
  <2>4. Len(s) - 1 \in Nat
    BY <1>1
  <2> HIDE DEF r
  <2>5. r \in [1..Len(s) - 1 -> LruEntries]
    BY <2>2, <2>3
  <2> QED BY <2>1, <2>4, <2>5
<1>4. j \in DOMAIN q /\ e = q[j] /\ e \in LruEntries
  BY <1>1
<1> HIDE DEF q, r, e
<1>5. r = Lru!RemoveAt(q, j)
  <2> DEFINE a == SubSeq(q, 1, j - 1)
             b == SubSeq(q, j + 1, Len(q))
  <2>1. /\ a \in Seq(LruEntries) /\ Len(a) = j - 1 /\ \A k \in 1..j - 1 : a[k] = q[k]
    <3>1. \A k \in 1..j - 1 : q[k] \in LruEntries
      BY <1>1
    <3>2. 1 \in Int /\ j - 1 \in Int /\ j - 1 >= 1 - 1
      OBVIOUS
    <3> QED BY <1>1, <3>1, <3>2, SubSeqProperties
  <2>2. /\ b \in Seq(LruEntries) /\ Len(b) = Len(q) - j /\ \A k \in 1..Len(q) - j : b[k] = q[j + k]
    <3>1. \A k \in j + 1..Len(q) : q[k] \in LruEntries
      BY <1>1
    <3>2. j + 1 \in Int /\ Len(q) \in Int /\ j <= Len(q)
      BY <1>1
    <3>3. /\ b \in Seq(LruEntries) /\ Len(b) = Len(q) - (j + 1) + 1
          /\ \A k \in 1..(Len(q) - (j + 1) + 1) : b[k] = q[(j + 1) + k - 1]
      BY <1>1, <3>1, <3>2, SubSeqProperties
    <3> HIDE DEF b
    <3>4. Len(q) - (j + 1) + 1 = Len(q) - j /\ \A k \in 1..Len(q) - j : (j + 1) + k - 1 = j + k
      BY <3>2
    <3>5. \A k \in 1..Len(q) - j : b[k] = q[j + k]
      BY <3>3, <3>4
    <3> QED BY <3>3, <3>4, <3>5
  <2>3. /\ a \o b \in Seq(LruEntries) /\ Len(a \o b) = Len(a) + Len(b)
        /\ \A k \in 1..Len(a) + Len(b) : (a \o b)[k] = IF k <= Len(a) THEN a[k] ELSE b[k - Len(a)]
    BY <2>1, <2>2, ConcatProperties
  <2> HIDE DEF a, b
  <2> DEFINE ab == a \o b
  <2>4. ab \in Seq(LruEntries) /\ Len(ab) = Len(r)
    BY <1>1, <1>3, <2>1, <2>2, <2>3
  <2>5. \A k \in 1..Len(r) : ab[k] = r[k]
    <3> TAKE k \in 1..Len(r)
    <3>1. CASE k < j
      BY <1>1, <1>3, <2>1, <2>2, <2>3, <3>1
    <3>2. CASE k >= j
      <4>1. k - (j - 1) \in 1..Len(q) - j /\ j + (k - (j - 1)) = k + 1
        BY <1>1, <1>3, <3>2
      <4>2. ab[k] = b[k - (j - 1)]
        BY <1>1, <1>3, <2>1, <2>2, <2>3, <3>2
      <4>3. b[k - (j - 1)] = q[k + 1]
        BY <2>2, <4>1
      <4>4. r[k] = q[k + 1]
        BY <1>1, <1>3, <3>2
      <4> QED BY <4>2, <4>3, <4>4
    <3>3. k < j \/ k >= j
      BY <1>1, <1>3
    <3> QED BY <3>1, <3>2, <3>3
  <2> HIDE DEF ab
  <2>6. ab = r
    BY <1>3, <2>4, <2>5, SeqEqual
  <2> QED BY <2>6 DEF ab, a, b, Lru!RemoveAt
<1>6. <<e>> \o r \in Seq(LruEntries) /\ Len(<<e>> \o r) = Len(s)
  <2>1. <<e>> \in Seq(LruEntries) /\ Len(<<e>>) = 1
    BY <1>4
  <2> QED BY <1>1, <1>3, <2>1, ConcatProperties
<1>7. Kept(<<e>> \o r) = <<e>> \o r /\ Kept(q) = q
  BY <1>1, <1>6, KeptAll
<1> QED BY <1>4, <1>5, <1>7 DEF q, r, e

LEMMA EntriesPrepend ==
  ASSUME NEW s \in Seq(Nodes), NEW m, Keyed(m, s), NEW n \in Nodes, Page(m[n].body, m[n].path)
  PROVE  EntriesOf(m, <<n>> \o s) = <<Ent(m, n)>> \o EntriesOf(m, s)
<1> DEFINE q == EntriesOf(m, s)
           r == <<n>> \o s
           e == Ent(m, n)
<1>1. q \in Seq(LruEntries) /\ Len(q) = Len(s) /\ Len(s) \in Nat /\ \A k \in 1..Len(s) : q[k] = Ent(m, s[k])
  BY EntriesAre
<1>2. e \in LruEntries
  BY DEF Page, Ent, LruEntries
<1>3. r \in Seq(Nodes) /\ Len(r) = 1 + Len(s) /\ \A k \in 1..1 + Len(s) : r[k] = IF k <= 1 THEN n ELSE s[k - 1]
  <2>1. <<n>> \in Seq(Nodes) /\ Len(<<n>>) = 1 /\ <<n>>[1] = n
    OBVIOUS
  <2>2. /\ r \in Seq(Nodes) /\ Len(r) = Len(<<n>>) + Len(s)
        /\ \A k \in 1..Len(<<n>>) + Len(s) : r[k] = IF k <= Len(<<n>>) THEN <<n>>[k] ELSE s[k - Len(<<n>>)]
    BY <2>1, ConcatProperties
  <2> HIDE DEF r
  <2> QED BY <1>1, <2>1, <2>2, SMTT(30)
<1>4. /\ <<e>> \o q \in Seq(LruEntries) /\ Len(<<e>> \o q) = 1 + Len(s)
      /\ \A k \in 1..1 + Len(s) : (<<e>> \o q)[k] = IF k <= 1 THEN e ELSE q[k - 1]
  <2>1. <<e>> \in Seq(LruEntries) /\ Len(<<e>>) = 1 /\ <<e>>[1] = e
    BY <1>2
  <2>2. /\ <<e>> \o q \in Seq(LruEntries) /\ Len(<<e>> \o q) = Len(<<e>>) + Len(q)
        /\ \A k \in 1..Len(<<e>>) + Len(q) : (<<e>> \o q)[k] = IF k <= Len(<<e>>) THEN <<e>>[k] ELSE q[k - Len(<<e>>)]
    BY <1>1, <2>1, ConcatProperties
  <2> HIDE DEF q, e
  <2> QED BY <1>1, <2>1, <2>2
<1> DEFINE eq == <<e>> \o q
           x == EntriesOf(m, r)
<1>5. x = [k \in 1..1 + Len(s) |-> eq[k]]
  <2>1. \A k \in 1..1 + Len(s) : Ent(m, r[k]) = eq[k]
    <3> TAKE k \in 1..1 + Len(s)
    <3>1. CASE k = 1
      BY <1>1, <1>3, <1>4, <3>1
    <3>2. CASE k > 1
      <4>1. k - 1 \in 1..Len(s) /\ r[k] = s[k - 1] /\ eq[k] = q[k - 1]
        <5> HIDE DEF r, q, e
        <5> QED BY <1>1, <1>3, <1>4, <3>2
      <4> QED BY <1>1, <4>1
    <3> QED BY <1>1, <3>1, <3>2
  <2> HIDE DEF eq, r
  <2> QED BY <1>3, <2>1 DEF EntriesOf
<1>6. eq = [k \in 1..1 + Len(s) |-> eq[k]]
  <2> HIDE DEF q, e
  <2>1. eq \in Seq(LruEntries) /\ Len(eq) = 1 + Len(s)
    BY <1>4
  <2> HIDE DEF eq
  <2> QED BY <2>1
<1> QED BY <1>5, <1>6

LEMMA EntriesCut ==
  ASSUME NEW s \in Seq(Nodes), NEW m, Keyed(m, s), Len(s) = Capacity + 1
  PROVE  Kept(EntriesOf(m, s)) = EntriesOf(m, Without(s, Len(s)))
<1> DEFINE q == EntriesOf(m, s)
           r == EntriesOf(m, Without(s, Len(s)))
<1>1. q \in Seq(LruEntries) /\ Len(q) = Capacity + 1 /\ \A k \in 1..Len(s) : q[k] = Ent(m, s[k]) /\ q[k] \in LruEntries
  BY EntriesAre
<1>2. Capacity \in Nat \ {0}
  BY CapacityAssumption
<1>3. r = [k \in 1..Capacity |-> q[k]]
  <2>1. \A k \in 1..Capacity : Without(s, Len(s))[k] = s[k] /\ k \in 1..Len(s)
    BY <1>2 DEF Without
  <2>2. Len(Without(s, Len(s))) = Capacity
    <3>1. Len(s) \in 1..Len(s) /\ Len(s) - 1 = Capacity
      BY <1>2
    <3> QED BY <3>1, WithoutCells
  <2> QED BY <1>1, <2>1, <2>2 DEF EntriesOf
<1> HIDE DEF q, r
<1>4. Kept(q) = SubSeq(q, 1, Capacity)
  BY <1>1, <1>2 DEF Kept
<1>5. SubSeq(q, 1, Capacity) = [k \in 1..Capacity |-> q[k]]
  <2> DEFINE x == SubSeq(q, 1, Capacity)
  <2>1. /\ x \in Seq(LruEntries) /\ Len(x) = Capacity - 1 + 1
        /\ \A k \in 1..(Capacity - 1 + 1) : x[k] = q[1 + k - 1]
    <3>1. \A k \in 1..Capacity : q[k] \in LruEntries
      BY <1>1, <1>2
    <3>2. 1 \in Int /\ Capacity \in Int /\ 1 <= Capacity + 1
      BY <1>2
    <3> QED BY <1>1, <3>1, <3>2, SubSeqProperties
  <2> HIDE DEF x
  <2>2. x \in Seq(LruEntries) /\ Len(x) = Capacity /\ \A k \in 1..Capacity : x[k] = q[k]
    BY <1>2, <2>1
  <2> QED BY <2>2 DEF x
<1> QED BY <1>3, <1>4, <1>5 DEF q, r

\* A statement of cache.c is a hit, an insertion, or nothing to the abstract cache.
LEMMA CacheStepLru ==
  ASSUME OneByOne, OneByOne', NEW t \in Threads, CacheStep(t)
  PROVE  Lru!Next \/ Mapped' = Mapped
<1> DEFINE n == node[t]
           p == Path[uri[t]]
<1>1. IInv /\ ListStep(t) /\ buf' = buf
  BY DEF OneByOne, CacheStep
<1>2. Typed /\ PrintReturns /\ RequestKnown
  BY <1>1, IInvTyped
<1>3. pc[t] \in InCache /\ t \in Serving /\ t \in Serving'
  <2>1. PICK l \in Busy : pc' = [pc EXCEPT ![t] = l]
    BY <1>1, ListStepLabels
  <2>2. pc[t] \in InCache
    BY <1>1, ListStepLabels
  <2> QED BY <1>2, <2>1, <2>2 DEF Typed, Serving, InCache, Busy, Labels
<1>4. PICK s : Listed(s) /\ Where(t, s)
  BY <1>3 DEF OneByOne, ListHeld
<1>5. PICK r : Listed(r)' /\ Where(t, r)' /\ Follows(t, s, r)
  BY <1>1, <1>2, <1>4, ListStepWhere DEF Goes
<1>6. Mapped = Kept(Abstracted(mem, s, pc[t], n))
  BY <1>3, <1>4, MappedIs DEF MappedHolds
<1>7. Mapped' = Kept(Abstracted(mem', r, pc'[t], node'[t]))
  BY <1>3, <1>5, MappedNext DEF MappedHolds
<1>8. /\ s \in Seq(Nodes) /\ Keyed(mem, s) /\ r \in Seq(Nodes) /\ Keyed(mem', r)
      /\ Len(s) \in Nat /\ \A i \in 1..Len(s) : s[i] \in Addr
      /\ Len(r) \in Nat /\ \A i \in 1..Len(r) : r[i] \in Addr
  <2>1. s \in Seq(Nodes) /\ Keyed(mem, s) /\ r \in Seq(Nodes) /\ Keyed(mem', r)
    BY <1>4, <1>5 DEF Listed
  <2> QED BY <2>1, CellsAre DEF Addr
<1>9. \A a \in Addr : mem'[a].path = mem[a].path /\ mem'[a].body = mem[a].body
  BY <1>1, <1>2, LinksOnly
<1>10. EntriesOf(mem', s) = EntriesOf(mem, s) /\ \A a \in Addr : Ent(mem', a) = Ent(mem, a)
  <2>1. EntriesOf(mem', s) = EntriesOf(mem, s)
    BY <1>8, <1>9, EntriesKept
  <2> QED BY <1>9, <2>1 DEF Ent
<1>11. EntriesOf(mem', r) = EntriesOf(mem, r)
  BY <1>8, <1>9, EntriesKept
<1>12. /\ pc[t] \in Relinking \cup {"move83", "push18", "pop41"} => node'[t] = node[t]
       /\ pc'[t] \in Relinking <=> pc[t] \in (Relinking \cup {"move83"}) \ {"move88"}
  BY <1>1, <1>2, SameNode
<1>13. EntriesOf(mem, s) \in Seq(LruEntries) /\ Len(EntriesOf(mem, s)) = Len(s)
  BY <1>8, EntriesAre
<1>a. CASE pc[t] = "move83"
  <2>1. PICK j \in 1..Len(s) : s[j] = n /\ r = Without(s, j)
    BY <1>5, <1>a DEF Follows
  <2>2. Len(s) <= Capacity
    BY <1>4, <1>a DEF Where, Counted, Relinking, Popping
  <2>3. n \in Addr
    BY <1>8, <2>1
  <2>4. Mapped = Kept(EntriesOf(mem, s))
    BY <1>6, <1>a DEF Abstracted, Relinking
  <2>5. Mapped' = Kept(<<Ent(mem, s[j])>> \o EntriesOf(mem, Without(s, j)))
    BY <1>7, <1>10, <1>11, <1>12, <1>a, <2>1, <2>3 DEF Abstracted, Relinking
  <2>6. /\ Kept(EntriesOf(mem, s)) = EntriesOf(mem, s) /\ j \in DOMAIN EntriesOf(mem, s)
        /\ Kept(<<Ent(mem, s[j])>> \o EntriesOf(mem, Without(s, j)))
             = <<EntriesOf(mem, s)[j]>> \o Lru!RemoveAt(EntriesOf(mem, s), j)
    BY <1>8, <2>2, EntriesTakeOut
  <2>7. Lru!Hit(j) /\ j \in DOMAIN Mapped
    BY <2>4, <2>5, <2>6 DEF Lru!Hit
  <2> QED BY <2>7 DEF Lru!Next
<1>b. CASE pc[t] \in {"move88", "push18"}
  <2>1. r = <<n>> \o s /\ Apart(mem, s, n, p)
    BY <1>4, <1>5, <1>b DEF Follows, Where, Known, Relinking, Pushing, Key
  <2>2. n \in Nodes /\ n \in Addr /\ Page(mem[n].body, mem[n].path) /\ mem[n].path = p
    BY <2>1 DEF Apart, Addr
  <2>3. EntriesOf(mem, r) = <<Ent(mem, n)>> \o EntriesOf(mem, s)
    BY <1>8, <2>1, <2>2, EntriesPrepend
  <2>4. Mapped' = Kept(<<Ent(mem, n)>> \o EntriesOf(mem, s))
    BY <1>7, <1>11, <1>12, <1>b, <2>3 DEF Abstracted, Relinking
  <2>5. CASE pc[t] = "move88"
    BY <1>6, <2>4, <2>5 DEF Abstracted, Relinking
  <2>6. CASE pc[t] = "push18"
    <3>1. Mapped = EntriesOf(mem, s)
      <4>1. Len(s) <= Capacity
        BY <1>4, <2>6 DEF Where, Counted, Relinking, Popping
      <4>2. Mapped = Kept(EntriesOf(mem, s))
        BY <1>6, <2>6 DEF Abstracted, Relinking
      <4> QED BY <1>13, <4>1, <4>2, KeptAll
    <3>2. Ent(mem, n) \in LruEntries /\ Ent(mem, n).path = p
      BY <2>2 DEF Page, Ent, LruEntries
    <3>3. p \notin Lru!Keys
      <4>1. SUFFICES ASSUME NEW i \in DOMAIN Mapped, Mapped[i].path = p PROVE FALSE
        BY DEF Lru!Keys
      <4>2. i \in 1..Len(s) /\ Mapped[i].path = mem[s[i]].path
        BY <1>8, <3>1, <4>1 DEF EntriesOf, Ent
      <4> QED BY <2>1, <4>1, <4>2 DEF Apart, Absent
    <3>4. Mapped' = Lru!Take(<<Ent(mem, n)>> \o Mapped, Capacity)
      BY <2>4, <3>1 DEF Kept, Lru!Take
    <3>5. Lru!Insert(Ent(mem, n)) /\ Ent(mem, n) \in Lru!Entry
      BY <3>2, <3>3, <3>4 DEF Lru!Insert, Lru!Entry, LruEntries
    <3> QED BY <3>5 DEF Lru!Next
  <2> QED BY <1>b, <2>5, <2>6
<1>c. CASE pc[t] = "pop41"
  <2>1. r = Without(s, Len(s)) /\ Len(s) = Capacity + 1
    BY <1>4, <1>5, <1>c DEF Follows, Where, Counted, Relinking, Popping
  <2>2. Mapped = EntriesOf(mem, r)
    <3>1. Mapped = Kept(EntriesOf(mem, s))
      BY <1>6, <1>c DEF Abstracted, Relinking
    <3> QED BY <1>8, <2>1, <3>1, EntriesCut
  <2>3. Mapped' = Kept(EntriesOf(mem', r))
    BY <1>7, <1>12, <1>c DEF Abstracted, Relinking
  <2>4. EntriesOf(mem', r) \in Seq(LruEntries) /\ Len(EntriesOf(mem', r)) <= Capacity
    <3>1. Len(s) \in 1..Len(s) /\ Len(s) - 1 = Capacity
      BY <1>8, <2>1, CapacityAssumption
    <3>2. Len(r) = Capacity
      BY <1>8, <2>1, <3>1, WithoutCells
    <3> QED BY <1>8, <3>2, EntriesAre, CapacityAssumption
  <2>5. Mapped' = EntriesOf(mem', r)
    BY <2>3, <2>4, KeptAll
  <2> QED BY <1>11, <2>2, <2>5
<1>d. CASE pc[t] \notin {"move83", "move88", "push18", "pop41"}
  <2>1. r = s
    BY <1>5, <1>d DEF Follows
  <2>2. CASE pc[t] \in Relinking
    <3>1. n \in Addr
      BY <1>4, <2>2 DEF Where, Known, Apart, Addr
    <3> QED BY <1>6, <1>7, <1>10, <1>12, <1>d, <2>1, <2>2, <3>1 DEF Abstracted
  <2>3. CASE pc[t] \notin Relinking
    BY <1>6, <1>7, <1>10, <1>12, <1>d, <2>1, <2>3 DEF Abstracted
  <2> QED BY <2>2, <2>3
<1> QED BY <1>a, <1>b, <1>c, <1>d

\* No other step is anything to it.
LEMMA Stutters ==
  ASSUME OneByOne, OneByOne', NEW s, Listed(s), Listed(s)', EntriesOf(mem', s) = EntriesOf(mem, s),
         \A t \in Serving : pc[t] \notin Relinking, \A t \in Serving' : pc'[t] \notin Relinking
  PROVE  Mapped' = Mapped
<1>1. Mapped = Kept(EntriesOf(mem, s))
  <2>1. CASE Serving = {}
    BY <2>1, MappedIs DEF MappedHolds
  <2>2. CASE Serving # {}
    <3>1. PICK t \in Serving : TRUE
      BY <2>2
    <3> QED BY <3>1, MappedIs DEF MappedHolds, Abstracted
  <2> QED BY <2>1, <2>2
<1>2. Mapped' = Kept(EntriesOf(mem', s))
  <2>1. CASE Serving' = {}
    BY <2>1, MappedNext DEF MappedHolds
  <2>2. CASE Serving' # {}
    <3>1. PICK t \in Serving' : TRUE
      BY <2>2
    <3> QED BY <3>1, MappedNext DEF MappedHolds, Abstracted
  <2> QED BY <2>1, <2>2
<1> QED BY <1>1, <1>2

LEMMA TransStepLru ==
  ASSUME OneByOne, OneByOne', NEW t \in Threads, QuietTrans(t) \/ Miss108(t)
  PROVE  Mapped' = Mapped
<1>1. IInv /\ pc \in [Threads -> Labels]
  BY DEF OneByOne, IInv, TypeOK, ProcessTypeOK
<1>2. Typed /\ RequestKnown
  BY <1>1, IInvTyped
<1>3. /\ pc[t] \notin Relinking /\ pc[t] # "none" /\ pc'[t] \notin Relinking /\ pc'[t] # "none"
      /\ \A u \in Threads : u # t => pc'[u] = pc[u]
  BY <1>1 DEF QuietTrans, Hit97, Hit102, Hit104, Miss108, Miss137, Miss137Short, Miss159Small, Miss159Large, Reply173,
              Send, Goto, Relinking
<1>4. t \in Serving /\ \A u \in Serving : u = t
  BY <1>3, ServesAlone DEF OneByOne, Serving
<1>5. PICK s : Listed(s) /\ Where(t, s)
  BY <1>4 DEF OneByOne, ListHeld
<1>6. Listed(s)'
  BY <1>2, <1>5, TransWhere
<1>7. EntriesOf(mem', s) = EntriesOf(mem, s)
  <2>1. CASE mem' = mem
    BY <2>1 DEF EntriesOf
  <2>2. ASSUME NEW n \in Nodes, ~In(s, n), \A a \in Addr \ {n} : mem'[a] = mem[a] PROVE EntriesOf(mem', s) = EntriesOf(mem, s)
    <3>1. \A i \in 1..Len(s) : s[i] \in Addr \ {n}
      BY <1>5, <2>2, CellsAre DEF Listed, In, Addr
    <3> QED BY <2>2, <3>1 DEF EntriesOf, Ent
  <2>3. CASE Miss137(t) \/ Miss137Short(t)
    <3>3. pc[t] = "miss137"
      BY <2>3 DEF Miss137, Miss137Short, Goto
    <3>4. uri[t] \in Uris
      BY <1>2, <3>3 DEF RequestKnown, Busy, Labels
    <3>1. PICK n \in Nodes \ live : \E b : mem' = [mem EXCEPT ![n].body = b]
      BY <2>3, <3>4, FetchIs
    <3>2. ~In(s, n)
      BY <1>5, <3>1 DEF Where, Allocated, In
    <3> QED BY <1>2, <2>2, <3>1, <3>2 DEF Typed, Memory
  <2>4. CASE Miss159Small(t)
    <3>1. mem' = [mem EXCEPT ![node[t]].path = Key(t)] /\ pc[t] = "miss159"
      BY <2>4 DEF Miss159Small, Goto
    <3>2. node[t] \in Nodes /\ ~In(s, node[t])
      BY <1>5, <3>1 DEF Where, Holds
    <3> QED BY <1>2, <2>2, <3>1, <3>2 DEF Typed, Memory
  <2>5. QuietTrans(t) \/ Miss108(t) => mem' = mem \/ Miss137(t) \/ Miss137Short(t) \/ Miss159Small(t)
    BY DEF QuietTrans, Hit97, Hit102, Hit104, Miss108, Miss159Large, Reply173, Send, listVars
  <2> QED BY <2>1, <2>3, <2>4, <2>5
<1>8. \A u \in Serving' : pc'[u] \notin Relinking
  BY <1>3, <1>4 DEF Serving
<1> QED BY <1>3, <1>4, <1>5, <1>6, <1>7, <1>8, Stutters

\* A step that leaves the list alone, and no thread in the middle of moveFront.
LEMMA OtherStepLru ==
  ASSUME OneByOne, OneByOne', mem' = mem,
         \A t \in Threads : pc'[t] = pc[t] \/ (pc[t] \notin Relinking /\ pc'[t] \notin Relinking /\ pc'[t] # pc[t]),
         UNCHANGED node \/ \A t \in Threads : pc[t] \notin Relinking /\ pc'[t] \notin Relinking
  PROVE  Mapped' = Mapped
<1>1. Walk' = Walk
  BY DEF Walk
<1>2. Entries' = Entries
  BY <1>1 DEF Entries, ChainLength
<1>3. Moving' = Moving
  BY DEF Moving, Relinking
<1>4. Detached' = Detached
  <2>1. CASE UNCHANGED node
    BY <1>3, <2>1 DEF Detached
  <2>2. CASE \A t \in Threads : pc[t] \notin Relinking
    BY <1>3, <2>2 DEF Detached, Moving, Relinking
  <2> QED BY <2>1, <2>2
<1> QED BY <1>2, <1>4 DEF Mapped

\* Every step of the proxy is a step of the abstract cache, or nothing to it.
LEMMA NextLru == MaxActive = 1 /\ OneByOne /\ OneByOne' /\ [Next]_vars => Lru!Next \/ Mapped' = Mapped
<1> SUFFICES ASSUME MaxActive = 1, OneByOne, OneByOne', [Next]_vars PROVE Lru!Next \/ Mapped' = Mapped
  OBVIOUS
<1>1. IInv /\ pc \in [Threads -> Labels]
  BY DEF OneByOne, IInv, TypeOK, ProcessTypeOK
<1>2. mem' = mem /\ UNCHANGED <<pc, node>> => Mapped' = Mapped
  BY OtherStepLru
<1>3. CASE Main
  <2>1. ASSUME NEW t \in Threads, Create35(t) PROVE Mapped' = Mapped
    <3>1. /\ mem' = mem /\ UNCHANGED node /\ pc[t] = "none" /\ pc'[t] = "t44"
          /\ \A u \in Threads : u # t => pc'[u] = pc[u]
      BY <1>1, <2>1 DEF Create35, Goto, listVars, localVars
    <3>2. \A u \in Threads : pc'[u] = pc[u] \/ (pc[u] \notin Relinking /\ pc'[u] \notin Relinking /\ pc'[u] # pc[u])
      BY <3>1 DEF Relinking
    <3> QED BY <3>1, <3>2, OtherStepLru
  <2> QED BY <1>2, <1>3, <2>1 DEF Main, Malloc33, AcceptError, Exit, listVars, localVars
<1>4. CASE Environment
  <2>1. ASSUME NEW c \in Clients, SendOn(c) \/ GiveUp(c) PROVE Mapped' = Mapped
    BY <1>1, <1>2, <2>1, OpenKept DEF listVars, localVars
  <2> QED BY <1>2, <1>4, <2>1 DEF Environment, Accept34, listVars, localVars
<1>5. ASSUME NEW t \in Threads, Thread(t) PROVE Lru!Next \/ Mapped' = Mapped
  <2>1. CASE CacheStep(t)
    BY <2>1, CacheStepLru
  <2>2. CASE QuietTrans(t) \/ Miss108(t)
    BY <2>2, TransStepLru
  <2>3. CASE T44(t) \/ T46(t) \/ T65(t) \/ T65Gone(t)
    <3>1. /\ mem' = mem /\ UNCHANGED node /\ pc[t] \notin Relinking /\ pc'[t] \notin Relinking /\ pc'[t] # pc[t]
          /\ \A u \in Threads : u # t => pc'[u] = pc[u]
      BY <1>1, <2>3 DEF T44, T46, T65, T65Gone, Goto, listVars, localVars, Relinking
    <3>2. \A u \in Threads : pc'[u] = pc[u] \/ (pc[u] \notin Relinking /\ pc'[u] \notin Relinking /\ pc'[u] # pc[u])
      BY <3>1
    <3> QED BY <3>1, <3>2, OtherStepLru
  <2>4. CASE Close48(t)
    <3>1. /\ mem' = mem /\ pc[t] = "close48" /\ pc'[t] = "none"
          /\ \A u \in Threads : u # t => pc'[u] = pc[u]
      BY <1>1, <2>4 DEF Close48, Goto, listVars
    <3>2. \A u \in Threads : u # t => pc[u] = "none"
      <4>1. t \in Serving
        BY <3>1 DEF Serving
      <4> QED BY <4>1, ServesAlone DEF OneByOne, Serving
    <3>3. \A u \in Threads : pc[u] \notin Relinking /\ pc'[u] \notin Relinking /\ (pc'[u] = pc[u] \/ pc'[u] # pc[u])
      BY <3>1, <3>2 DEF Relinking
    <3> QED BY <3>1, <3>3, OtherStepLru
  <2>5. CASE Miss108Error(t)
    BY <1>2, <2>5 DEF Miss108Error, Exit, listVars, localVars
  <2> QED BY <1>5, <2>1, <2>2, <2>3, <2>4, <2>5 DEF Thread, Statement, TransStep, QuietTrans
<1>6. ASSUME NEW t \in Threads, Crash(t) \/ ReadError(t) PROVE Mapped' = Mapped
  BY <1>2, <1>6 DEF Crash, ReadError, Exit, listVars, localVars
<1>7. CASE UNCHANGED vars
  BY <1>2, <1>7 DEF vars, listVars, localVars
<1> QED BY <1>3, <1>4, <1>5, <1>6, <1>7 DEF Next

LEMMA OneByOneFresh == OneByOne => FreshHit
<1> SUFFICES ASSUME OneByOne, NEW t \in Threads, pc[t] = "hit102" PROVE Mapped # << >> /\ Mapped[1].path = Path[uri[t]]
  BY DEF FreshHit
<1>1. t \in Serving
  BY DEF Serving
<1>2. PICK s : Listed(s) /\ Where(t, s)
  BY <1>1 DEF OneByOne, ListHeld
<1>3. Front(mem, s, node[t], Path[uri[t]]) /\ size = Len(s) /\ size <= Capacity
  BY <1>2 DEF Where, First, Known, Key, Counted, Relinking, Popping
<1>4. Mapped = Kept(EntriesOf(mem, s))
  BY <1>1, <1>2, MappedIs DEF MappedHolds, Abstracted, Relinking
<1>5. /\ EntriesOf(mem, s) \in Seq(LruEntries) /\ Len(EntriesOf(mem, s)) = Len(s) /\ Len(s) \in Nat
      /\ \A k \in 1..Len(s) : EntriesOf(mem, s)[k] = Ent(mem, s[k])
  BY <1>2, EntriesAre DEF Listed
<1>6. Mapped = EntriesOf(mem, s)
  BY <1>3, <1>4, <1>5, KeptAll
<1>7. 1 \in 1..Len(s) /\ s[1] = node[t] /\ mem[node[t]].path = Path[uri[t]]
  BY <1>3, <1>5 DEF Front
<1>8. Mapped[1].path = Path[uri[t]]
  <2>1. Mapped[1] = Ent(mem, s[1])
    BY <1>5, <1>6, <1>7
  <2> QED BY <1>7, <2>1 DEF Ent
<1>9. Mapped # << >>
  BY <1>5, <1>6, <1>7
<1> QED BY <1>8, <1>9

LEMMA InitLru == MaxActive = 1 /\ Init => Lru!Init
<1> SUFFICES ASSUME MaxActive = 1, Init PROVE Mapped = << >>
  BY DEF Lru!Init
<1>1. OneByOne /\ Serving = {}
  BY InitOneByOne DEF Init, Serving
<1>2. PICK s : Listed(s) /\ Rest(s)
  BY <1>1 DEF OneByOne, ListHeld
<1>3. size = 0
  BY DEF Init, NewDll
<1>4. /\ EntriesOf(mem, s) \in Seq(LruEntries) /\ Len(EntriesOf(mem, s)) = Len(s) /\ Len(s) \in Nat
  BY <1>2, EntriesAre DEF Listed
<1>5. Len(s) = 0
  BY <1>2, <1>3 DEF Rest
<1>6. Mapped = Kept(EntriesOf(mem, s))
  BY <1>1, <1>2, MappedIs DEF MappedHolds
<1>7. EntriesOf(mem, s) = << >>
  BY <1>4, <1>5
<1>8. Kept(<< >>) = << >>
  BY DEF Kept
<1> QED BY <1>6, <1>7, <1>8

(***************************************************************************)
(* The list of cache.c, driven by trans, implements the abstract LRU cache *)
(* for every number of blocks and every capacity: each step is a hit, an   *)
(* insertion with the eviction of the least recently used entry, or no     *)
(* step of the abstract cache, and a hit is answered from its first entry. *)
(***************************************************************************)
THEOREM ProxyCacheIsLru == ASSUME MaxActive = 1 PROVE Spec => CacheIsLru
<1>1. OneByOne /\ OneByOne' /\ [Next]_vars => [Lru!Next]_Mapped
  BY NextLru
<1>2. Init => Lru!Init
  BY InitLru
<1>3. OneByOne => \A t \in Threads : pc[t] = "hit102" => Mapped # << >> /\ Mapped[1].path = Path[uri[t]]
  BY OneByOneFresh DEF FreshHit
<1> QED BY <1>1, <1>2, <1>3, AlwaysOneByOne, PTL DEF Spec, CacheIsLru, Lru!Spec

-----------------------------------------------------------------------------
(* Every request a miss, any number of threads. *)

\* The clients of two threads differ, and differ from the one main holds.
LEMMA ServeApart ==
  ASSUME IInv
  PROVE  /\ \A t \in Serving : FdOf(t) \in Fds /\ fdt[FdOf(t)] \in Accepted
         /\ \A t, u \in Serving : t # u => FdOf(t) # FdOf(u) /\ fdt[FdOf(t)] # fdt[FdOf(u)]
         /\ mpc = "create35" => /\ cell[connfdp] \in Fds /\ fdt[cell[connfdp]] \in Accepted
                                /\ \A t \in Serving : FdOf(t) # cell[connfdp] /\ fdt[FdOf(t)] # fdt[cell[connfdp]]
<1>1. ConnectionOwned
  BY DEF IInv
<1>2. HeldIsOpen /\ NoDescriptorShared /\ OneDescriptor
  BY <1>1 DEF ConnectionOwned
<1>3. \A t \in Serving : FdOf(t) \in Fds /\ fdt[FdOf(t)] \in Accepted /\ HeldBy(t, FdOf(t)) /\ t \in Threads
  BY <1>2 DEF HeldIsOpen, HeldBy, Serving
<1>4. \A f, g \in Fds : fdt[f] \in Clients /\ fdt[f] = fdt[g] => f = g
  BY <1>2 DEF OneDescriptor
<1>5. Accepted \subseteq Clients
  BY DEF Accepted
<1>6. \A t, u \in Serving : t # u => FdOf(t) # FdOf(u)
  BY <1>2, <1>3 DEF NoDescriptorShared
<1>7. mpc = "create35" => /\ cell[connfdp] \in Fds /\ fdt[cell[connfdp]] \in Accepted
                          /\ \A t \in Serving : FdOf(t) # cell[connfdp]
  BY <1>2, <1>3 DEF NoDescriptorShared, HeldIsOpen, HeldByMain
<1> QED BY <1>3, <1>4, <1>5, <1>6, <1>7

\* What two clients have asked for has not the same path.
LEMMA WantsApart ==
  ASSUME OwnPages, \A c \in Clients : want[c] \in Asks[c] \cup {Null},
         NEW c \in Clients, NEW d \in Clients, c # d, want[c] # Null, want[d] # Null
  PROVE  Path[want[c]] # Path[want[d]]
BY DEF OwnPages

LEMMA WantKnown ==
  ASSUME IInv, NEW c \in Accepted
  PROVE  want[c] \in Uris /\ want[c] # Null /\ c \in Clients
BY PathAssumption DEF IInv, RequestKnown, Accepted

LEMMA TallyIs ==
  ASSUME Roomy
  PROVE  Tally \in Nat /\ Tally <= Capacity /\ IsFiniteSet(Done)
<1>1. Done \subseteq Clients
  BY DEF Done
<1>2. IsFiniteSet(Done) /\ Cardinality(Done) <= Cardinality(Clients)
  BY <1>1, FS_Subset DEF Roomy
<1>3. Cardinality(Done) \in Nat /\ Cardinality(Clients) \in Nat
  BY <1>2, FS_CardinalityType DEF Roomy
<1> QED BY <1>2, <1>3, CapacityAssumption DEF Roomy, Tally

LEMMA TallyNext == Roomy => Tally' \in Nat /\ IsFiniteSet(Done')
<1> SUFFICES ASSUME Roomy PROVE Tally' \in Nat /\ IsFiniteSet(Done')
  OBVIOUS
<1>1. Done' \subseteq Clients
  BY DEF Done
<1>2. IsFiniteSet(Done')
  BY <1>1, FS_Subset DEF Roomy
<1> QED BY <1>2, FS_CardinalityType DEF Tally

LEMMA TallyGrows ==
  ASSUME Roomy, Done \subseteq Done'
  PROVE  Tally <= Tally' /\ \A c : c \in Done' /\ c \notin Done => Tally + 1 <= Tally'
<1>1. /\ IsFiniteSet(Done) /\ IsFiniteSet(Done') /\ Tally \in Nat /\ Tally' \in Nat
      /\ Tally = Cardinality(Done) /\ Tally' = Cardinality(Done')
  BY TallyIs, TallyNext DEF Tally
<1>2. Cardinality(Done) <= Cardinality(Done')
  BY <1>1, FS_Subset
<1>3. ASSUME NEW c, c \in Done', c \notin Done PROVE Cardinality(Done) + 1 <= Cardinality(Done')
  <2> DEFINE B == Done \cup {c}
  <2>1. IsFiniteSet(B) /\ Cardinality(B) = Cardinality(Done) + 1
    BY <1>1, <1>3, FS_AddElement
  <2>2. B \subseteq Done'
    BY <1>3
  <2> HIDE DEF B
  <2>3. Cardinality(B) <= Cardinality(Done')
    BY <1>1, <2>2, FS_Subset
  <2> QED BY <2>1, <2>3
<1> QED BY <1>1, <1>2, <1>3

\* Where the nodes are, before and after a step of t.
Others(t, L) == {node[u] : u \in {v \in Threads \ {t} : pc[v] \in L}}

LEMMA AtStep ==
  ASSUME NEW t \in Threads, NEW L, NEW l, pc' = [pc EXCEPT ![t] = l], pc \in [Threads -> Labels],
         \A u \in Threads \ {t} : node'[u] = node[u]
  PROVE  /\ At(L) = Others(t, L) \cup (IF pc[t] \in L THEN {node[t]} ELSE {})
         /\ At(L)' = Others(t, L) \cup (IF l \in L THEN {node'[t]} ELSE {})
<1>1. At(L) = Others(t, L) \cup (IF pc[t] \in L THEN {node[t]} ELSE {})
  BY DEF At, Others
<1>2. At(L)' = {node'[u] : u \in {v \in Threads \ {t} : pc'[v] \in L}} \cup (IF pc'[t] \in L THEN {node'[t]} ELSE {})
  BY DEF At
<1>3. \A u \in Threads \ {t} : pc'[u] = pc[u]
  OBVIOUS
<1>4. {v \in Threads \ {t} : pc'[v] \in L} = {v \in Threads \ {t} : pc[v] \in L}
  BY <1>3
<1>5. {node'[u] : u \in {v \in Threads \ {t} : pc[v] \in L}} = Others(t, L)
  BY DEF Others
<1> QED BY <1>1, <1>2, <1>4, <1>5

\* A step between two places that are not in L.
LEMMA AtSame ==
  ASSUME NEW t \in Threads, NEW L, NEW l, pc' = [pc EXCEPT ![t] = l], pc \in [Threads -> Labels],
         \A u \in Threads \ {t} : node'[u] = node[u], pc[t] \notin L, l \notin L
  PROVE  At(L)' = At(L)
<1>1. At(L) = Others(t, L) \cup (IF pc[t] \in L THEN {node[t]} ELSE {})
  BY AtStep
<1>2. At(L)' = Others(t, L) \cup (IF l \in L THEN {node'[t]} ELSE {})
  BY AtStep
<1>3. At(L) = Others(t, L)
  BY <1>1
<1>4. At(L)' = Others(t, L)
  BY <1>2
<1> QED BY <1>3, <1>4

\* The nodes of two threads that store a page differ.
LEMMA StoreApart ==
  ASSUME OwnPages, OnlyMisses, NEW t \in Threads, pc[t] \in Storing \/ Stored(t), NEW u \in Threads, u # t, pc[u] \in Storing
  PROVE  node[u] # node[t]
<1>1. IInv /\ Served /\ Missing(t) /\ Missing(u)
  BY DEF OnlyMisses
<1>2. /\ pc[t] \in Busy \ {"t65"} /\ pc[u] \in Busy \ {"t65"} /\ t \in Serving /\ u \in Serving
      /\ pc[t] # "t44" /\ pc[u] # "t44"
  BY DEF Storing, Stored, Busy, Labels, Serving, Printing
<1>3. /\ Client(t) \in Accepted /\ Client(u) \in Accepted /\ Client(t) # Client(u)
  BY <1>1, <1>2, ServeApart DEF Client, FdOf
<1>4. uri[t] = want[Client(t)] /\ uri[u] = want[Client(u)]
  BY <1>1, <1>2 DEF Served
<1>5. uri[t] # uri[u]
  <2>1. /\ want[Client(t)] # Null /\ want[Client(u)] # Null
        /\ Client(t) \in Clients /\ Client(u) \in Clients
    BY <1>1, <1>3, WantKnown
  <2>2. \A c \in Clients : want[c] \in Asks[c] \cup {Null}
    BY DEF OnlyMisses
  <2>3. Path[want[Client(t)]] # Path[want[Client(u)]]
    BY <1>3, <2>1, <2>2, WantsApart
  <2> QED BY <1>4, <2>3
<1>6. mem[node[t]].body = uri[t] /\ mem[node[u]].body = uri[u]
  BY <1>1 DEF Missing
<1> QED BY <1>5, <1>6

LEMMA InOthers ==
  ASSUME OwnPages, OnlyMisses, NEW t \in Threads, pc[t] \in Storing \/ Stored(t), NEW L, L \subseteq Storing
  PROVE  node[t] \notin Others(t, L)
BY StoreApart DEF Others

\* What a step of another thread, or of main, leaves to thread u.
Undisturbed(u) ==
  /\ pc'[u] = pc[u] /\ uri'[u] = uri[u] /\ node'[u] = node[u] /\ now'[u] = now[u] /\ reg'[u] = reg[u] /\ ret'[u] = ret[u]
  /\ pc[u] # "none" => (fdt[FdOf(u)])' = fdt[FdOf(u)] /\ want'[fdt[FdOf(u)]] = want[fdt[FdOf(u)]]

\* What a step adds to the memory.
Grows ==
  /\ live \subseteq live' /\ Onward \subseteq Onward' /\ Done \subseteq Done'
  /\ \A n \in Blocks : mem'[n].body = mem[n].body

LEMMA OthersMissing ==
  ASSUME Roomy, NEW u \in Threads, Missing(u), Undisturbed(u), Grows,
         Looking(u) => \A n \in live' \ live : mem'[n].body # want[fdt[FdOf(u)]]
  PROVE  Missing(u)'
<1>1. Blocks \subseteq Blocks' /\ \A n \in Blocks' : n \in Blocks \/ n \in live' \ live
  BY DEF Grows, Blocks
<1>2. Looking(u)' <=> Looking(u)
  BY DEF Undisturbed, Looking
<1>3. Stored(u)' <=> Stored(u)
  BY DEF Undisturbed, Stored
<1>4. Looking(u) => NotYet(fdt[FdOf(u)])'
  <2>1. SUFFICES ASSUME Looking(u), NEW n \in Blocks' PROVE mem'[n].body # want'[(fdt[FdOf(u)])']
    BY DEF NotYet
  <2>2. pc[u] # "none"
    BY <2>1 DEF Looking, Printing
  <2>3. want'[(fdt[FdOf(u)])'] = want[fdt[FdOf(u)]]
    BY <2>2 DEF Undisturbed
  <2>4. \A m \in Blocks : mem[m].body # want[fdt[FdOf(u)]]
    BY <2>1 DEF Missing, NotYet
  <2> QED BY <1>1, <2>1, <2>3, <2>4 DEF Grows
<1>5. Tally \in Nat /\ Tally' \in Nat /\ Tally <= Tally'
  BY TallyIs, TallyNext, TallyGrows DEF Grows
<1>6. pc[u] = "push21s" => reg[u] \in Nat /\ reg[u] <= Tally'
  BY <1>5 DEF Missing
<1> QED BY <1>1, <1>2, <1>3, <1>4, <1>6 DEF Missing, Undisturbed, Grows

\* A step of thread t inside trans.
LEMMA MissStep ==
  ASSUME OwnPages, Roomy, OnlyMisses, IInv', NEW t \in Threads, NEW l \in Busy, pc' = [pc EXCEPT ![t] = l],
         pc[t] \in Busy \ {"t65"},
         UNCHANGED <<mainVars, uri, conn, want, connfd, ub>>,
         \A f \in Fds : fdt[f] \in Clients => fdt'[f] = fdt[f],
         \A u \in Threads \ {t} : node'[u] = node[u] /\ now'[u] = now[u] /\ reg'[u] = reg[u] /\ ret'[u] = ret[u],
         Grows, \A n \in live' \ live : mem'[n].body = uri[t] /\ Looking(t),
         Pages', Chain', Replies', RightPage', Missing(t)', size' \in Nat, size' <= Tally'
  PROVE  OnlyMisses'
<1>1. IInv /\ Served /\ pc \in [Threads -> Labels]
  BY DEF OnlyMisses, IInv, TypeOK, ProcessTypeOK
<1>2. /\ t \in Serving /\ pc[t] # "t44" /\ FdOf(t) = connfd[t]
  BY DEF Serving, Busy, FdOf
<1>3. \A u \in Serving : (fdt[FdOf(u)])' = fdt[FdOf(u)]
  <2>1. SUFFICES ASSUME NEW u \in Serving PROVE fdt'[FdOf(u)'] = fdt[FdOf(u)]
    OBVIOUS
  <2>2. FdOf(u)' = FdOf(u)
    BY <1>1, <1>2 DEF FdOf, mainVars, Busy, Serving
  <2> QED BY <1>1, <2>2, ServeApart DEF Accepted
<1>4. uri[t] = want[fdt[FdOf(t)]]
  BY <1>1, <1>2 DEF Served, Client
<1>5. Served'
  <2>1. SUFFICES ASSUME NEW u \in Threads, pc'[u] \in Busy \ {"t65"} PROVE uri'[u] = want'[fdt'[connfd'[u]]]
    BY DEF Served, Client
  <2>2. pc[u] \in Busy \ {"t65"}
    BY <1>1, <2>1
  <2>3. u \in Serving /\ FdOf(u) = connfd[u]
    BY <2>2 DEF Serving, Busy, FdOf
  <2>4. uri[u] = want[fdt[connfd[u]]]
    BY <1>1, <2>2 DEF Served, Client
  <2>5. fdt'[connfd[u]] = fdt[connfd[u]]
    BY <1>1, <2>3, ServeApart DEF Accepted
  <2> QED BY <2>4, <2>5
<1>6. ASSUME NEW u \in Serving, u # t, NEW n \in live' \ live PROVE mem'[n].body # want[fdt[FdOf(u)]]
  <2>1. want[fdt[FdOf(u)]] # Null /\ want[fdt[FdOf(t)]] # Null /\ fdt[FdOf(u)] \in Clients /\ fdt[FdOf(t)] \in Clients
        /\ fdt[FdOf(u)] # fdt[FdOf(t)]
    <3>1. fdt[FdOf(u)] \in Accepted /\ fdt[FdOf(t)] \in Accepted /\ fdt[FdOf(u)] # fdt[FdOf(t)]
      BY <1>1, <1>2, <1>6, ServeApart
    <3> QED BY <1>1, <3>1, WantKnown
  <2>2. \A c \in Clients : want[c] \in Asks[c] \cup {Null}
    BY DEF OnlyMisses
  <2>3. Path[want[fdt[FdOf(u)]]] # Path[want[fdt[FdOf(t)]]]
    BY <2>1, <2>2, WantsApart
  <2> QED BY <1>4, <2>3
<1>7. \A u \in Threads : Missing(u)'
  <2>1. SUFFICES ASSUME NEW u \in Threads, u # t PROVE Missing(u)'
    OBVIOUS
  <2>2. Missing(u)
    BY DEF OnlyMisses
  <2>3. Undisturbed(u)
    BY <1>1, <1>3, <2>1 DEF Undisturbed, Serving
  <2>4. Looking(u) => u \in Serving
    BY DEF Looking, Serving, Printing
  <2> QED BY <1>6, <2>1, <2>2, <2>3, <2>4, OthersMissing
<1>8. mpc' = "create35" => NotYet(fdt[cell[connfdp]])'
  <2>1. SUFFICES ASSUME mpc = "create35", NEW n \in Blocks' PROVE mem'[n].body # want[fdt'[cell[connfdp]]]
    BY DEF NotYet, mainVars
  <2>2. cell[connfdp] \in Fds /\ fdt[cell[connfdp]] \in Accepted /\ fdt[FdOf(t)] # fdt[cell[connfdp]]
        /\ fdt[FdOf(t)] \in Accepted
    BY <1>1, <1>2, <2>1, ServeApart
  <2>3. fdt'[cell[connfdp]] = fdt[cell[connfdp]]
    BY <2>2 DEF Accepted
  <2>4. CASE n \in live
    <3>1. n \in Blocks /\ NotYet(fdt[cell[connfdp]])
      BY <2>1, <2>4 DEF Blocks, OnlyMisses
    <3> QED BY <2>3, <3>1 DEF NotYet, Grows
  <2>5. CASE n \notin live
    <3>1. mem'[n].body = uri[t]
      BY <2>1, <2>5 DEF Blocks
    <3>2. /\ want[fdt[FdOf(t)]] # Null /\ want[fdt[cell[connfdp]]] # Null
          /\ fdt[FdOf(t)] \in Clients /\ fdt[cell[connfdp]] \in Clients
      BY <1>1, <2>2, WantKnown
    <3>3. \A c \in Clients : want[c] \in Asks[c] \cup {Null}
      BY DEF OnlyMisses
    <3>4. Path[want[fdt[FdOf(t)]]] # Path[want[fdt[cell[connfdp]]]]
      BY <2>2, <3>2, <3>3, WantsApart
    <3> QED BY <1>4, <2>3, <3>1, <3>4
  <2> QED BY <2>4, <2>5
<1>9. NoUndefinedBehaviour'
  BY DEF OnlyMisses, NoUndefinedBehaviour
<1>10. \A c \in Clients : want'[c] \in Asks[c] \cup {Null}
  BY DEF OnlyMisses
<1> QED BY <1>5, <1>7, <1>8, <1>9, <1>10 DEF OnlyMisses

LEMMA DoneKept ==
  ASSUME IInv, NEW t \in Threads, NEW l \in Busy, pc' = [pc EXCEPT ![t] = l], pc[t] # "close48",
         UNCHANGED <<conn, want, connfd>>,
         \A f \in Fds : fdt[f] \in Clients => fdt'[f] = fdt[f],
         \A u \in Threads \ {t} : ret'[u] = ret[u],
         Stored(t) => Stored(t)' \/ l = "close48"
  PROVE  Done \subseteq Done'
<1>1. pc \in [Threads -> Labels]
  BY DEF IInv, TypeOK, ProcessTypeOK
<1>2. SUFFICES ASSUME NEW c \in Done, conn[c] # "idle" PROVE c \in Done'
  BY DEF Done
<1>3. PICK u \in Threads : (Stored(u) \/ pc[u] = "close48") /\ Client(u) = c
  BY <1>2 DEF Done
<1>4. u \in Serving /\ FdOf(u) = connfd[u]
  BY <1>3 DEF Stored, Serving, FdOf, Printing
<1>5. Client(u)' = Client(u)
  BY <1>4, ServeApart DEF Client, Accepted
<1>6. Stored(u)' \/ pc'[u] = "close48"
  <2>1. CASE u = t
    BY <1>1, <1>3, <2>1
  <2>2. CASE u # t
    BY <1>1, <1>3, <2>2 DEF Stored
  <2> QED BY <2>1, <2>2
<1> QED BY <1>2, <1>3, <1>5, <1>6 DEF Done

\* A step that leaves the memory alone, and the node of a thread that stores one.
LEMMA Still ==
  ASSUME OnlyMisses, NEW t \in Threads, NEW l, pc' = [pc EXCEPT ![t] = l],
         pc[t] \notin Pushing \cup {"miss159"}, l \notin Pushing \cup {"miss159"},
         \A u \in Threads \ {t} : node'[u] = node[u], UNCHANGED <<mem, live, want>>
  PROVE  Blocks' = Blocks /\ Onward' = Onward /\ Pages' /\ Chain'
<1>1. pc \in [Threads -> Labels]
  BY DEF OnlyMisses, IInv, TypeOK, ProcessTypeOK
<1>2. Blocks' = Blocks
  BY DEF Blocks
<1>3. ASSUME NEW L, L \subseteq Pushing \cup {"miss159"} PROVE At(L)' = At(L)
  <2>1. pc[t] \notin L /\ l \notin L
    BY <1>3
  <2> QED BY <1>1, <2>1, AtSame
<1>4. /\ At(Pushing \cup {"miss159"})' = At(Pushing \cup {"miss159"})
      /\ At({"miss159", "push16"})' = At({"miss159", "push16"})
      /\ At({"miss159"})' = At({"miss159"})
  BY <1>3 DEF Pushing
<1>5. Onward' = Onward /\ Chained' = Chained
  BY <1>2, <1>4 DEF Onward, Chained
<1>6. Pages'
  BY <1>2, <1>4 DEF OnlyMisses, Pages
<1>7. Chain'
  <2>1. PICK rank \in [Nodes -> Nat] : Descends(rank)
    BY DEF OnlyMisses, Chain
  <2>2. Descends(rank)'
    BY <1>5, <2>1 DEF Descends
  <2> QED BY <1>5, <2>2 DEF OnlyMisses, Chain
<1> QED BY <1>2, <1>5, <1>6, <1>7

\* The statements of cache.c and trans that leave the memory alone.
Reading(t) == \/ Print95(t) \/ Print101(t) \/ PrintNext(t) \/ PrintLast(t)
              \/ Search56(t) \/ SearchNext(t) \/ SearchMiss(t)
              \/ Push21Load(t) \/ Push21Store(t) \/ Push24(t) \/ Push28(t)

LEMMA ReadStep ==
  ASSUME OwnPages, Roomy, OnlyMisses, IInv', NEW t \in Threads, Reading(t),
         UNCHANGED <<mainVars, netVars, fdt, connfd, ub>>
  PROVE  OnlyMisses'
<1>1. IInv /\ Missing(t) /\ pc \in [Threads -> Labels] /\ Typed
  BY IInvTyped DEF OnlyMisses, IInv, TypeOK, ProcessTypeOK
<1>2. PICK l \in Busy : pc' = [pc EXCEPT ![t] = l]
  BY <1>1, ListStepLabels DEF Reading, ListStep
<1>3. pc[t] \in {"print95", "print101", "print102", "search56", "search63", "push21", "push21s", "push24", "push28"}
  BY DEF Reading, Print95, Print101, PrintNext, PrintLast, Search56, SearchNext, SearchMiss,
         Push21Load, Push21Store, Push24, Push28, Goto, CallPrint
<1>4. pc[t] \in Busy \ {"t65"} /\ pc[t] \notin Pushing \cup {"miss159"} /\ pc[t] # "close48" /\ pc'[t] = l
  BY <1>1, <1>2, <1>3 DEF Busy, Labels, Pushing
<1>5. /\ UNCHANGED <<mem, live, uri>>
      /\ \A u \in Threads \ {t} : node'[u] = node[u] /\ now'[u] = now[u] /\ reg'[u] = reg[u] /\ ret'[u] = ret[u]
  BY <1>1 DEF Reading, Print95, Print101, PrintNext, PrintLast, Search56, SearchNext, SearchMiss, Typed,
         Push21Load, Push21Store, Push24, Push28, CallPrint, listVars, localVars
<1>6. Tally \in Nat /\ Tally <= Capacity /\ Tally' \in Nat /\ size \in Nat /\ size <= Tally
      /\ Capacity \in Nat
  BY TallyIs, TallyNext, CapacityAssumption DEF OnlyMisses
<1>7. ret[t] \in {"search63", "reply173"} \/ pc[t] \notin Printing
  BY <1>1 DEF Missing, Storing, Looking, Stored, Printing
<1>8. pc[t] = "push24" => pc'[t] = "push28"
  <2>1. pc[t] = "push24" => Push24(t)
    BY DEF Reading, Print95, Print101, PrintNext, PrintLast, Search56, SearchNext, SearchMiss,
         Push21Load, Push21Store, Push28, Goto, CallPrint
  <2> QED BY <1>1, <1>6, <2>1 DEF Push24, Goto, Full
<1> DEFINE L == CASE pc[t] = "print95" -> {ret[t], "print101"}
                  [] pc[t] = "print101" -> {"print102"}
                  [] pc[t] = "print102" -> {"print102", ret[t]}
                  [] pc[t] = "search56" -> {"print95"}
                  [] pc[t] = "search63" -> {"search63", "miss108"}
                  [] pc[t] = "push21" -> {"push21s"}
                  [] pc[t] = "push21s" -> {"push24"}
                  [] pc[t] = "push24" -> {"push28"}
                  [] pc[t] = "push28" -> {"print95"}
<1>9. /\ l \in L
      /\ ret'[t] = IF pc[t] = "search56" THEN "search63" ELSE IF pc[t] = "push28" THEN "reply173" ELSE ret[t]
      /\ pc[t] \notin {"search56", "search63"} => node'[t] = node[t]
      /\ pc[t] = "search56" => node'[t] = mem[HeadNode].next
      /\ pc[t] = "search63" => node'[t] = node[t] \/ (node[t] \in Nodes /\ node'[t] = mem[node[t]].next)
      /\ pc[t] = "print101" => now'[t] = mem[HeadNode].next
      /\ pc[t] = "print102" /\ l = "print102" => now[t] \in Addr /\ now'[t] = mem[now[t]].next
      /\ pc[t] = "push21" => reg'[t] = size
      /\ size' = IF pc[t] = "push21s" THEN reg[t] + 1 ELSE size
  BY <1>1, <1>3, <1>4, <1>8 DEF Reading, Print95, Print101, PrintNext, PrintLast, Search56, SearchNext, SearchMiss, Typed,
         Push21Load, Push21Store, Push24, Push28, CallPrint, listVars, localVars, Goto
<1>10. l \notin Pushing \cup {"miss159"}
  BY <1>3, <1>7, <1>9 DEF Pushing, Printing
<1>11. Blocks' = Blocks /\ Onward' = Onward /\ Pages' /\ Chain'
  BY <1>2, <1>4, <1>5, <1>10, Still DEF netVars
<1>12. Stored(t) => Stored(t)'
  BY <1>3, <1>4, <1>7, <1>9 DEF Stored, Printing
<1>13. Done \subseteq Done'
  BY <1>1, <1>2, <1>4, <1>5, <1>12, DoneKept DEF netVars
<1>14. Tally <= Tally' /\ size' \in Nat /\ size' <= Tally'
  <2>1. Tally <= Tally'
    BY <1>13, TallyGrows
  <2>2. CASE pc[t] # "push21s"
    BY <1>6, <1>9, <2>1, <2>2
  <2>3. CASE pc[t] = "push21s"
    <3>1. reg[t] \in Nat /\ reg[t] <= Tally
      BY <1>1, <2>3 DEF Missing
    <3>2. t \in Serving /\ FdOf(t) = connfd[t] /\ Client(t)' = Client(t)
      BY <2>3 DEF Serving, FdOf, Client
    <3>3. Client(t) \in Accepted /\ Client(t) \in Clients /\ want[Client(t)] # Null
      BY <1>1, <3>2, ServeApart, WantKnown DEF Client
    <3>4. Client(t) \in Done'
      BY <1>4, <1>9, <2>3, <3>2, <3>3 DEF Done, netVars, Stored
    <3>5. Client(t) \notin Done
      <4>1. SUFFICES ASSUME NEW u \in Threads, Stored(u) \/ pc[u] = "close48", Client(u) = Client(t) PROVE FALSE
        BY <3>3 DEF Done, Accepted
      <4>2. u # t /\ u \in Serving /\ FdOf(u) = connfd[u]
        BY <2>3, <4>1 DEF Stored, Printing, Serving, FdOf
      <4> QED BY <1>1, <3>2, <4>1, <4>2, ServeApart DEF Client
    <3>6. Tally + 1 <= Tally'
      BY <1>13, <3>4, <3>5, TallyGrows
    <3> QED BY <1>6, <1>9, <2>3, <3>1, <3>6
  <2> QED BY <2>1, <2>2, <2>3
<1>15. Grows
  BY <1>5, <1>11, <1>13 DEF Grows
<1>16. Missing(t)'
  <2>1. mem[HeadNode].next \in Onward /\ \A n \in Onward : mem[n].next \in Onward
    <3>1. \A n \in Onward : n \in Chained \/ n = HeadNode
      BY DEF Onward, Chained, At, Pushing
    <3> QED BY <3>1 DEF OnlyMisses, Chain
  <2>2. Looking(t) \/ Stored(t) \/ pc[t] \in Storing
    BY <1>1, <1>3 DEF Missing
  <2>3. /\ pc[t] = "search56" => pc'[t] \in Printing /\ ret'[t] = "search63"
        /\ pc'[t] = "push21s" => reg'[t] = size
        /\ pc'[t] = "print102" => pc[t] \in {"print101", "print102"}
    BY <1>3, <1>4, <1>7, <1>9 DEF Printing
  <2>4. (pc[t] \in {"none", "close48"} \cup Storing \/ Looking(t) \/ Stored(t))'
    BY <1>3, <1>4, <1>7, <1>9 DEF Looking, Stored, Storing, Printing
  <2>5. (Looking(t) => NotYet(fdt[FdOf(t)]))'
    <3>1. Looking(t)' => Looking(t) /\ pc'[t] # "t44" /\ pc[t] # "t44"
      BY <1>3, <1>4, <1>7, <1>9 DEF Looking, Printing
    <3>2. Looking(t)' => FdOf(t)' = FdOf(t)
      BY <3>1 DEF FdOf
    <3>3. NotYet(fdt[FdOf(t)]) /\ FdOf(t)' = FdOf(t) => NotYet(fdt[FdOf(t)])'
      BY <1>5, <1>11 DEF NotYet, netVars
    <3> QED BY <1>1, <3>1, <3>2, <3>3 DEF Missing
  <2>6. (pc[t] \in Storing \/ Stored(t) => node[t] \in Blocks /\ mem[node[t]].body = uri[t])'
    <3>1. (pc[t] \in Storing \/ Stored(t))' => (pc[t] \in Storing \/ Stored(t)) /\ node'[t] = node[t]
      BY <1>3, <1>4, <1>7, <1>9 DEF Storing, Stored, Printing
    <3> QED BY <1>1, <1>5, <1>11, <3>1 DEF Missing
  <2>7. (pc[t] = "search63" \/ (pc[t] \in Printing /\ ret[t] = "search63") => node[t] \in Onward)'
    <3>1. CASE pc[t] = "search56"
      BY <1>9, <1>11, <2>1, <3>1
    <3>2. CASE pc[t] = "search63"
      <4>1. node[t] \in Onward
        BY <1>1, <3>2 DEF Missing
      <4> QED BY <1>9, <1>11, <2>1, <3>2, <4>1
    <3>3. CASE pc[t] \notin {"search56", "search63"}
      <4>1. node'[t] = node[t] /\ ((pc[t] = "search63" \/ (pc[t] \in Printing /\ ret[t] = "search63"))'
                                     => pc[t] \in Printing /\ ret[t] = "search63")
        BY <1>3, <1>4, <1>7, <1>9, <3>3 DEF Printing
      <4> QED BY <1>1, <1>11, <4>1 DEF Missing
    <3> QED BY <3>1, <3>2, <3>3
  <2>8. (pc[t] = "print102" => now[t] \in Onward)'
    <3>1. pc[t] = "print102" => now[t] \in Onward
      BY <1>1 DEF Missing
    <3> QED BY <1>4, <1>9, <1>11, <2>1, <2>3, <3>1
  <2>9. (pc[t] = "push21s" => reg[t] \in Nat /\ reg[t] <= Tally)'
    BY <1>6, <1>14, <2>3
  <2> QED BY <2>4, <2>5, <2>6, <2>7, <2>8, <2>9 DEF Missing
<1>17. Replies' /\ RightPage'
  BY DEF OnlyMisses, Replies, RightPage, netVars
<1> QED BY <1>1, <1>2, <1>4, <1>5, <1>11, <1>14, <1>15, <1>16, <1>17, MissStep DEF netVars

\* A step from the connection to the origin, which opens a descriptor that was free.
LEMMA Miss108Step ==
  ASSUME OwnPages, Roomy, OnlyMisses, IInv', NEW t \in Threads, Miss108(t), ub' = ub
  PROVE  OnlyMisses'
<1>1. IInv /\ Missing(t) /\ pc \in [Threads -> Labels] /\ Typed
  BY IInvTyped DEF OnlyMisses, IInv, TypeOK, ProcessTypeOK
<1>2. /\ pc[t] = "miss108" /\ pc' = [pc EXCEPT ![t] = "miss137"] /\ pc'[t] = "miss137"
      /\ UNCHANGED <<mem, live, size, uri, node, now, victim, reg, ret, mainVars, conn, want, reply, connfd>>
  BY <1>1 DEF Miss108, Goto, listVars, localVars, netVars
<1>3. \A f \in Fds : fdt[f] \in Clients => fdt'[f] = fdt[f]
  BY ClientsAssumption DEF Miss108, LowestFree, FreeFds, Free
<1>4. Blocks' = Blocks /\ Onward' = Onward /\ Pages' /\ Chain'
  BY <1>2, Still DEF Pushing
<1>5. ~Stored(t)
  BY <1>2 DEF Stored, Printing
<1>6. "miss137" \in Busy /\ pc[t] \in Busy \ {"t65"}
  BY <1>2 DEF Busy, Labels
<1>7. Done \subseteq Done'
  BY <1>1, <1>2, <1>3, <1>5, <1>6, DoneKept
<1>8. Grows
  BY <1>2, <1>4, <1>7 DEF Grows
<1>9. Missing(t)'
  <2>1. NotYet(fdt[FdOf(t)])
    BY <1>1, <1>2 DEF Missing, Looking
  <2>2. t \in Serving /\ FdOf(t) = connfd[t] /\ FdOf(t)' = connfd[t]
    BY <1>2 DEF Serving, FdOf
  <2>3. fdt'[connfd[t]] = fdt[connfd[t]]
    BY <1>1, <1>3, <2>2, ServeApart DEF Accepted
  <2>4. NotYet(fdt[FdOf(t)])'
    BY <1>2, <1>4, <2>1, <2>2, <2>3 DEF NotYet
  <2>5. ~(pc[t] \in Storing \/ Stored(t) \/ pc[t] = "search63" \/ pc[t] \in Printing \/ pc[t] = "print102" \/ pc[t] = "push21s")'
    BY <1>2 DEF Storing, Stored, Printing
  <2>6. Looking(t)'
    BY <1>2 DEF Looking
  <2> QED BY <2>4, <2>5, <2>6 DEF Missing
<1>10. size' \in Nat /\ size' <= Tally'
  <2>1. Tally <= Tally' /\ Tally \in Nat /\ Tally' \in Nat
    BY <1>7, TallyGrows, TallyIs, TallyNext
  <2> QED BY <1>2, <2>1 DEF OnlyMisses
<1>11. Replies' /\ RightPage'
  BY <1>2 DEF OnlyMisses, Replies, RightPage, NoReply
<1> QED BY <1>1, <1>2, <1>3, <1>4, <1>6, <1>8, <1>9, <1>10, <1>11, MissStep

\* malloc, and the body that is read into the block.
LEMMA Miss137Step ==
  ASSUME OwnPages, Roomy, OnlyMisses, IInv', NEW t \in Threads, Miss137(t), ub' = ub
  PROVE  OnlyMisses'
<1>1. IInv /\ Missing(t) /\ pc \in [Threads -> Labels] /\ Typed /\ Served /\ RequestKnown
  BY IInvTyped DEF OnlyMisses, IInv, TypeOK, ProcessTypeOK
<1>2. PICK n \in Nodes \ live : /\ node' = [node EXCEPT ![t] = n]
                                /\ live' = live \cup {n}
                                /\ mem' = [mem EXCEPT ![n].body = uri[t]]
  BY DEF Miss137
<1>3. /\ pc[t] = "miss137" /\ pc' = [pc EXCEPT ![t] = "miss159"] /\ pc'[t] = "miss159"
      /\ node'[t] = n /\ \A u \in Threads \ {t} : node'[u] = node[u]
      /\ UNCHANGED <<size, uri, now, victim, reg, ret, mainVars, conn, want, reply, fdt, connfd>>
  BY <1>1, <1>2 DEF Miss137, Goto, netVars, Typed
<1>4. /\ mem'[n].body = uri[t] /\ mem'[n].next = mem[n].next
      /\ \A a \in Addr : /\ mem'[a].next = mem[a].next /\ mem'[a].path = mem[a].path
                         /\ a # n => mem'[a].body = mem[a].body
  BY <1>1, <1>2 DEF Typed, Memory, Addr
<1>5. /\ "miss159" \in Busy /\ pc[t] \in Busy \ {"t65"} /\ ~Stored(t) /\ Looking(t)
      /\ t \in Serving /\ FdOf(t) = connfd[t]
  BY <1>3 DEF Busy, Labels, Stored, Printing, Looking, Serving, FdOf
<1>6. Done \subseteq Done'
  BY <1>1, <1>3, <1>5, DoneKept
<1>7. Blocks' = Blocks \cup {n} /\ n \notin Blocks /\ Blocks \subseteq Addr /\ HeadNode \in Addr /\ n # HeadNode
  BY <1>2, HeapAssumption DEF Blocks, OnlyMisses, Pages, Addr
<1>8. ASSUME NEW L, "miss159" \in L, "miss137" \notin L PROVE At(L)' = At(L) \cup {n}
  <2>1. pc' = [pc EXCEPT ![t] = "miss159"] /\ pc \in [Threads -> Labels] /\ \A u \in Threads \ {t} : node'[u] = node[u]
    BY <1>1, <1>3
  <2>2. At(L) = Others(t, L) \cup (IF pc[t] \in L THEN {node[t]} ELSE {})
    BY <2>1, AtStep
  <2>3. At(L)' = Others(t, L) \cup (IF "miss159" \in L THEN {node'[t]} ELSE {})
    BY <2>1, AtStep
  <2> QED BY <1>3, <1>8, <2>2, <2>3
<1>9. /\ At(Pushing \cup {"miss159"})' = At(Pushing \cup {"miss159"}) \cup {n}
      /\ At({"miss159", "push16"})' = At({"miss159", "push16"}) \cup {n}
      /\ At({"miss159"})' = At({"miss159"}) \cup {n}
  BY <1>8 DEF Pushing
<1>10. Onward' = Onward /\ Chained' = Chained /\ Chained \subseteq Addr
  BY <1>7, <1>9 DEF Onward, Chained
<1>11. Pages'
  <2>1. live' \subseteq Addr /\ HeadNode \in live'
    BY <1>2 DEF OnlyMisses, Pages, Addr
  <2>2. uri[t] = want[Client(t)] /\ Client(t) \in Clients /\ uri[t] \in Uris
    BY <1>1, <1>5, ServeApart DEF Served, Client, RequestKnown, Accepted
  <2>3. ASSUME NEW m \in Blocks' PROVE mem'[m].body \in Uris /\ \E c \in Clients : want[c] = mem'[m].body
    BY <1>4, <1>7, <2>2, <2>3 DEF OnlyMisses, Pages
  <2>4. ASSUME NEW m \in Blocks' \ At({"miss159"})' PROVE mem'[m].path = Path[mem'[m].body]
    BY <1>4, <1>7, <1>9, <2>4 DEF OnlyMisses, Pages
  <2> QED BY <1>3, <2>1, <2>3, <2>4 DEF Pages
<1>12. Chain'
  <2>1. PICK rank \in [Nodes -> Nat] : Descends(rank)
    BY DEF OnlyMisses, Chain
  <2>2. Descends(rank)'
    BY <1>4, <1>10, <2>1 DEF Descends
  <2> QED BY <1>4, <1>7, <1>10, <2>2 DEF OnlyMisses, Chain
<1>13. Grows
  BY <1>2, <1>4, <1>6, <1>7, <1>10 DEF Grows
<1>14. Missing(t)'
  <2>1. ~(Looking(t) \/ pc[t] = "search63" \/ pc[t] \in Printing \/ pc[t] = "print102" \/ pc[t] = "push21s")'
    BY <1>3 DEF Looking, Printing
  <2>2. (pc[t] \in Storing)' /\ node'[t] \in Blocks' /\ mem'[node'[t]].body = uri'[t]
    BY <1>3, <1>4, <1>7 DEF Storing
  <2> QED BY <2>1, <2>2 DEF Missing
<1>15. size' \in Nat /\ size' <= Tally'
  <2>1. Tally <= Tally' /\ Tally \in Nat /\ Tally' \in Nat
    BY <1>6, TallyGrows, TallyIs, TallyNext
  <2> QED BY <1>3, <2>1 DEF OnlyMisses
<1>16. Replies' /\ RightPage'
  BY <1>3 DEF OnlyMisses, Replies, RightPage, NoReply
<1>17. \A m \in live' \ live : mem'[m].body = uri[t] /\ Looking(t)
  BY <1>2, <1>4, <1>5
<1> QED BY <1>1, <1>3, <1>5, <1>11, <1>12, <1>13, <1>14, <1>15, <1>16, <1>17, MissStep

\* The statements that fill the node in and link it.
Linking(t) == Miss159Small(t) \/ Push16(t) \/ Push17(t) \/ Push18(t) \/ Push19(t)

LEMMA LinkingIs ==
  ASSUME Typed, NEW t \in Threads, Linking(t), UNCHANGED <<mainVars, netVars, fdt, connfd>>
  PROVE  /\ pc[t] \in {"miss159", "push16", "push17", "push18", "push19"}
         /\ pc' = [pc EXCEPT ![t] = CASE pc[t] = "miss159" -> "push16" [] pc[t] = "push16" -> "push17"
                                      [] pc[t] = "push17" -> "push18" [] pc[t] = "push18" -> "push19"
                                      [] pc[t] = "push19" -> "push21"]
         /\ UNCHANGED <<live, size, uri, node, now, victim, reg, ret>>
         /\ pc[t] = "miss159" => mem' = [mem EXCEPT ![node[t]].path = Key(t)]
         /\ pc[t] = "push16" => mem' = WithNext(mem, node[t], mem[HeadNode].next)
         /\ pc[t] = "push17" => \E p \in Addr : mem' = WithPrev(mem, p, node[t])
         /\ pc[t] = "push18" => mem' = WithNext(mem, HeadNode, node[t])
         /\ pc[t] = "push19" => \E p \in Addr : mem' = WithPrev(mem, p, HeadNode)
<1>1. CASE Miss159Small(t)
  BY <1>1 DEF Miss159Small, Goto, localVars, Typed
<1>2. CASE Push16(t)
  BY <1>2 DEF Push16, Goto, localVars, Typed, SetNext, WithNext
<1>3. CASE Push17(t)
  BY <1>3 DEF Push17, Goto, localVars, Typed, SetPrev, WithPrev
<1>4. CASE Push18(t)
  BY <1>4 DEF Push18, Goto, localVars, Typed, SetNext, WithNext
<1>5. CASE Push19(t)
  BY <1>5 DEF Push19, Goto, localVars, Typed, SetPrev, WithPrev
<1> QED BY <1>1, <1>2, <1>3, <1>4, <1>5 DEF Linking

LEMMA LinkingStep ==
  ASSUME OwnPages, Roomy, OnlyMisses, IInv', NEW t \in Threads, Linking(t),
         UNCHANGED <<mainVars, netVars, fdt, connfd, ub>>
  PROVE  OnlyMisses'
<1> DEFINE n == node[t]
<1>1. IInv /\ Missing(t) /\ pc \in [Threads -> Labels] /\ Typed /\ RequestKnown
  BY IInvTyped DEF OnlyMisses, IInv, TypeOK, ProcessTypeOK
<1>2. /\ pc[t] \in {"miss159", "push16", "push17", "push18", "push19"}
      /\ UNCHANGED <<live, size, uri, node, now, victim, reg, ret>>
      /\ pc[t] = "miss159" => mem' = [mem EXCEPT ![n].path = Key(t)]
      /\ pc[t] = "push16" => mem' = WithNext(mem, n, mem[HeadNode].next)
      /\ pc[t] = "push17" => \E p \in Addr : mem' = WithPrev(mem, p, n)
      /\ pc[t] = "push18" => mem' = WithNext(mem, HeadNode, n)
      /\ pc[t] = "push19" => \E p \in Addr : mem' = WithPrev(mem, p, HeadNode)
  BY <1>1, LinkingIs
<1>3. PICK l \in {"push16", "push17", "push18", "push19", "push21"} :
        /\ pc' = [pc EXCEPT ![t] = l] /\ pc'[t] = l
        /\ pc[t] = "miss159" <=> l = "push16"
        /\ pc[t] = "push16" <=> l = "push17"
        /\ pc[t] = "push17" <=> l = "push18"
        /\ pc[t] = "push18" <=> l = "push19"
        /\ pc[t] = "push19" <=> l = "push21"
  <2> DEFINE k == CASE pc[t] = "miss159" -> "push16" [] pc[t] = "push16" -> "push17"
                     [] pc[t] = "push17" -> "push18" [] pc[t] = "push18" -> "push19"
                     [] pc[t] = "push19" -> "push21"
  <2>1. pc' = [pc EXCEPT ![t] = k]
    BY <1>1, LinkingIs
  <2>2. /\ k \in {"push16", "push17", "push18", "push19", "push21"}
        /\ pc[t] = "miss159" <=> k = "push16"
        /\ pc[t] = "push16" <=> k = "push17"
        /\ pc[t] = "push17" <=> k = "push18"
        /\ pc[t] = "push18" <=> k = "push19"
        /\ pc[t] = "push19" <=> k = "push21"
    BY <1>2
  <2> HIDE DEF k
  <2> QED BY <1>1, <2>1, <2>2
<1>4. /\ l \in Busy /\ pc[t] \in Busy \ {"t65"} /\ ~Stored(t) /\ pc[t] \in Storing /\ l \in Storing
      /\ pc[t] # "close48" /\ ~Looking(t)' /\ ~Stored(t)'
  BY <1>2, <1>3 DEF Busy, Labels, Stored, Printing, Storing, Looking
<1>5. n \in Blocks /\ mem[n].body = uri[t] /\ n \in Nodes /\ n \in Addr /\ n # HeadNode /\ uri[t] \in Uris
  <2>1. n \in Blocks /\ mem[n].body = uri[t]
    BY <1>1, <1>4 DEF Missing
  <2>2. Blocks \subseteq Nodes
    BY DEF OnlyMisses, Pages, Blocks, Addr
  <2> QED BY <1>1, <1>4, <2>1, <2>2, HeapAssumption DEF Addr, RequestKnown
<1>6. mem \in Memory /\ HeadNode \in Addr
  BY <1>1 DEF Typed, Addr
<1>7. /\ \A a \in Addr : mem'[a].body = mem[a].body
      /\ \A a \in Addr : pc[t] # "miss159" \/ a # n => mem'[a].path = mem[a].path
      /\ pc[t] = "miss159" => mem'[n].path = Path[uri[t]]
      /\ \A a \in Addr : pc[t] \notin {"push16", "push18"} => mem'[a].next = mem[a].next
      /\ pc[t] = "push16" => mem'[n].next = mem[HeadNode].next /\ \A a \in Addr \ {n} : mem'[a].next = mem[a].next
      /\ pc[t] = "push18" => mem'[HeadNode].next = n /\ \A a \in Addr \ {HeadNode} : mem'[a].next = mem[a].next
  <2>1. CASE pc[t] = "miss159"
    BY <1>2, <1>5, <1>6, <2>1 DEF Memory, Key
  <2>2. CASE pc[t] \in {"push16", "push18"}
    BY <1>2, <1>5, <1>6, <2>2 DEF Memory, WithNext
  <2>3. CASE pc[t] \in {"push17", "push19"}
    BY <1>2, <1>5, <1>6, <2>3 DEF Memory, WithPrev
  <2> QED BY <1>2, <2>1, <2>2, <2>3
<1>8. Blocks' = Blocks
  BY <1>2 DEF Blocks
<1>9. ASSUME NEW L, L \subseteq Storing
      PROVE  /\ n \notin Others(t, L)
             /\ At(L) = Others(t, L) \cup (IF pc[t] \in L THEN {n} ELSE {})
             /\ At(L)' = Others(t, L) \cup (IF l \in L THEN {n} ELSE {})
  <2>1. n \notin Others(t, L)
    BY <1>4, <1>9, InOthers
  <2>2. At(L) = Others(t, L) \cup (IF pc[t] \in L THEN {n} ELSE {})
    BY <1>1, <1>2, <1>3, AtStep
  <2>3. At(L)' = Others(t, L) \cup (IF l \in L THEN {node'[t]} ELSE {})
    BY <1>1, <1>2, <1>3, AtStep
  <2> QED BY <1>2, <2>1, <2>2, <2>3
<1> DEFINE P == Pushing \cup {"miss159"}
           C == {"miss159", "push16"}
           M == {"miss159"}
<1>10. P \subseteq Storing /\ C \subseteq Storing /\ M \subseteq Storing
  BY DEF Pushing, Storing
<1>11. /\ Onward' = IF pc[t] = "push18" THEN Onward \cup {n} ELSE Onward
       /\ pc[t] = "push16" => n \notin Onward
       /\ Onward \subseteq Addr
  <2>1. /\ n \notin Others(t, P)
        /\ At(P) = Others(t, P) \cup (IF pc[t] \in P THEN {n} ELSE {})
        /\ At(P)' = Others(t, P) \cup (IF l \in P THEN {n} ELSE {})
    BY <1>9, <1>10
  <2>2. Onward = (Blocks \ At(P)) \cup {HeadNode} /\ Onward' = (Blocks \ At(P)') \cup {HeadNode}
    BY <1>8 DEF Onward
  <2>3. /\ l \in P <=> l \in {"push16", "push17", "push18"}
        /\ pc[t] \in P <=> pc[t] \in {"miss159", "push16", "push17", "push18"}
    BY <1>2, <1>3 DEF Pushing
  <2>4. Blocks \subseteq Addr
    BY DEF OnlyMisses, Pages, Blocks
  <2> HIDE DEF n
  <2> QED BY <1>2, <1>3, <1>5, <1>6, <2>1, <2>2, <2>3, <2>4
<1>12. /\ Chained' = IF pc[t] = "push16" THEN Chained \cup {n} ELSE Chained
       /\ pc[t] = "push16" => n \notin Chained
       /\ Chained \subseteq Addr \ {HeadNode}
  <2>1. /\ n \notin Others(t, C)
        /\ At(C) = Others(t, C) \cup (IF pc[t] \in C THEN {n} ELSE {})
        /\ At(C)' = Others(t, C) \cup (IF l \in C THEN {n} ELSE {})
    BY <1>9, <1>10
  <2>2. Chained = Blocks \ At(C) /\ Chained' = Blocks \ At(C)'
    BY <1>8 DEF Chained
  <2>3. Blocks \subseteq Addr \ {HeadNode}
    BY DEF OnlyMisses, Pages, Blocks
  <2> HIDE DEF n
  <2> QED BY <1>2, <1>3, <1>5, <2>1, <2>2, <2>3
<1>13. At(M)' = At(M) \ (IF pc[t] = "miss159" THEN {n} ELSE {}) /\ (pc[t] # "miss159" => n \notin At(M))
  <2>1. /\ n \notin Others(t, M)
        /\ At(M) = Others(t, M) \cup (IF pc[t] \in M THEN {n} ELSE {})
        /\ At(M)' = Others(t, M) \cup (IF l \in M THEN {n} ELSE {})
    BY <1>9, <1>10
  <2> HIDE DEF n
  <2> QED BY <1>2, <1>3, <2>1
<1>14. Pages'
  <2>1. ASSUME NEW m \in Blocks PROVE mem'[m].body \in Uris /\ \E c \in Clients : want'[c] = mem'[m].body
    <3>1. m \in Addr
      BY DEF OnlyMisses, Pages, Blocks
    <3> QED BY <1>7, <3>1 DEF OnlyMisses, Pages, netVars
  <2>2. ASSUME NEW m \in Blocks \ At(M)' PROVE mem'[m].path = Path[mem'[m].body]
    <3>1. m \in Addr /\ mem'[m].body = mem[m].body
      BY <1>7 DEF OnlyMisses, Pages, Blocks
    <3>2. CASE pc[t] = "miss159" /\ m = n
      BY <1>5, <1>7, <3>1, <3>2
    <3>3. CASE ~(pc[t] = "miss159" /\ m = n)
      <4>1. m \notin At(M)
        BY <1>13, <2>2, <3>3
      <4>2. mem[m].path = Path[mem[m].body]
        BY <4>1 DEF OnlyMisses, Pages
      <4> QED BY <1>7, <3>1, <3>3, <4>2
    <3> QED BY <3>2, <3>3
  <2> QED BY <1>2, <1>8, <2>1, <2>2 DEF OnlyMisses, Pages
<1>15. Chain'
  <2>1. PICK rank \in [Nodes -> Nat] : Descends(rank)
    BY DEF OnlyMisses, Chain
  <2>2. mem[HeadNode].next \in Onward /\ \A m \in Chained : mem[m].next \in Onward
    BY DEF OnlyMisses, Chain
  <2>3. mem'[HeadNode].next \in Onward'
    BY <1>5, <1>6, <1>7, <1>11, <2>2
  <2>4. \A m \in Chained' : mem'[m].next \in Onward'
    BY <1>5, <1>6, <1>7, <1>11, <1>12, <2>2
  <2>5. \E r \in [Nodes -> Nat] : Descends(r)'
    <3>1. CASE pc[t] # "push16"
      <4>1. \A m \in Chained : mem'[m].next = mem[m].next
        BY <1>5, <1>7, <1>12, <3>1
      <4>2. Descends(rank)'
        BY <1>12, <2>1, <3>1, <4>1 DEF Descends
      <4> QED BY <4>2
    <3>2. CASE pc[t] = "push16"
      <4> DEFINE h == mem[HeadNode].next
                 k == IF h \in Nodes THEN rank[h] + 1 ELSE 0
                 r == [rank EXCEPT ![n] = k]
      <4>1. h # n
        BY <1>11, <2>2, <3>2
      <4>2. k \in Nat /\ r \in [Nodes -> Nat] /\ r[n] = k /\ \A m \in Nodes : m # n => r[m] = rank[m]
        BY <1>5
      <4>3. ASSUME NEW m \in Chained, mem[m].next \in Nodes PROVE r[mem'[m].next] < r[m] /\ mem'[m].next = mem[m].next
        <5>1. m # n /\ m \in Addr /\ m # HeadNode /\ mem'[m].next = mem[m].next /\ mem[m].next # n
          BY <1>7, <1>11, <1>12, <2>2, <3>2, <4>3
        <5>2. m \in Nodes
          BY <5>1 DEF Addr
        <5>3. rank[mem[m].next] < rank[m]
          BY <2>1, <4>3 DEF Descends
        <5> HIDE DEF r, n
        <5> QED BY <4>2, <4>3, <5>1, <5>2, <5>3
      <4>4. mem'[n].next = h /\ (h \in Nodes => r[h] < r[n])
        <5>1. mem'[n].next = h
          BY <1>7, <3>2
        <5>2. h \in Nodes => r[h] < k
          <6>1. h \in Nodes => r[h] = rank[h] /\ rank[h] \in Nat
            BY <4>1
          <6> HIDE DEF r, h
          <6> QED BY <6>1
        <5> QED BY <4>2, <5>1, <5>2
      <4>5. \A m \in Chained' : mem'[m].next \in Nodes => r[mem'[m].next] < r[m]
        <5>1. SUFFICES ASSUME NEW m \in Chained', mem'[m].next \in Nodes PROVE r[mem'[m].next] < r[m]
          OBVIOUS
        <5>2. m \in Chained \/ m = n
          BY <1>12, <3>2, <5>1
        <5>3. m \in Chained => mem'[m].next = mem[m].next
          BY <1>7, <1>11, <1>12, <3>2
        <5> HIDE DEF r, h, n
        <5> QED BY <4>3, <4>4, <5>1, <5>2, <5>3
      <4>6. PICK q \in [Nodes -> Nat] : \A m \in Chained' : mem'[m].next \in Nodes => q[mem'[m].next] < q[m]
        <5> HIDE DEF r
        <5> QED BY <4>2, <4>5
      <4>7. Descends(q)'
        BY <4>6 DEF Descends
      <4> QED BY <4>7
    <3> QED BY <3>1, <3>2
  <2> QED BY <2>3, <2>4, <2>5 DEF Chain
<1>16. Done \subseteq Done'
  BY <1>1, <1>2, <1>3, <1>4, DoneKept DEF netVars
<1>17. Grows
  <2>1. \A m \in Blocks : m \in Addr
    BY DEF OnlyMisses, Pages, Blocks
  <2> QED BY <1>2, <1>7, <1>11, <1>16, <2>1 DEF Grows
<1>18. Missing(t)'
  <2>1. (pc[t] \in Storing)' /\ node'[t] \in Blocks' /\ mem'[node'[t]].body = uri'[t]
    BY <1>2, <1>3, <1>4, <1>5, <1>7, <1>8
  <2>2. pc'[t] \notin {"search63", "print102", "push21s"} /\ pc'[t] \notin Printing
    BY <1>3 DEF Printing
  <2> QED BY <1>4, <2>1, <2>2 DEF Missing
<1>19. size' \in Nat /\ size' <= Tally'
  <2>1. Tally <= Tally' /\ Tally \in Nat /\ Tally' \in Nat
    BY <1>16, TallyGrows, TallyIs, TallyNext
  <2> QED BY <1>2, <2>1 DEF OnlyMisses
<1>20. Replies' /\ RightPage'
  BY DEF OnlyMisses, Replies, RightPage, netVars
<1> QED BY <1>1, <1>2, <1>3, <1>4, <1>14, <1>15, <1>17, <1>18, <1>19, <1>20, MissStep DEF netVars

LEMMA Reply173Step ==
  ASSUME OwnPages, Roomy, OnlyMisses, IInv', NEW t \in Threads, Reply173(t), ub' = ub
  PROVE  OnlyMisses'
<1>1. IInv /\ Missing(t) /\ pc \in [Threads -> Labels] /\ Typed /\ RequestKnown /\ Served
  BY IInvTyped DEF OnlyMisses, IInv, TypeOK, ProcessTypeOK
<1>2. /\ pc[t] = "reply173" /\ pc' = [pc EXCEPT ![t] = "close48"] /\ pc'[t] = "close48"
      /\ UNCHANGED <<mem, live, size, uri, node, now, victim, reg, ret, mainVars, conn, want, fdt, connfd>>
      /\ reply' = [c \in Clients |-> IF c = Client(t) /\ conn[c] \notin Closed THEN mem[node[t]].body ELSE reply[c]]
  BY <1>1 DEF Reply173, Send, Goto, listVars, localVars
<1>3. Blocks' = Blocks /\ Onward' = Onward /\ Pages' /\ Chain'
  BY <1>2, Still DEF Pushing
<1>4. "close48" \in Busy /\ pc[t] \in Busy \ {"t65"}
  BY <1>2 DEF Busy, Labels
<1>5. Done \subseteq Done'
  BY <1>1, <1>2, <1>4, DoneKept
<1>6. Grows
  BY <1>2, <1>3, <1>5 DEF Grows
<1>7. Missing(t)'
  BY <1>2 DEF Missing, Looking, Storing, Stored, Printing
<1>8. size' \in Nat /\ size' <= Tally'
  <2>1. Tally <= Tally' /\ Tally \in Nat /\ Tally' \in Nat
    BY <1>5, TallyGrows, TallyIs, TallyNext
  <2> QED BY <1>2, <2>1 DEF OnlyMisses
<1>9. mem[node[t]].body = uri[t] /\ uri[t] \in Uris /\ uri[t] = want[Client(t)]
  BY <1>1, <1>2, <1>4 DEF Missing, Stored, RequestKnown, Served
<1>10. Replies'
  BY <1>2, <1>9 DEF OnlyMisses, Replies
<1>11. RightPage'
  BY <1>2, <1>9 DEF OnlyMisses, RightPage, NoReply
<1> QED BY <1>1, <1>2, <1>3, <1>4, <1>6, <1>7, <1>8, <1>10, <1>11, MissStep

\* search finds nothing: the node it has come to keeps another page.
LEMMA NeverFound ==
  ASSUME OwnPages, OnlyMisses, NEW t \in Threads, SearchFound(t)
  PROVE  FALSE
<1>1. IInv /\ Missing(t) /\ Served /\ Pages
  BY DEF OnlyMisses
<1>2. pc[t] = "search63" /\ node[t] \in Nodes /\ mem[node[t]].path = Path[uri[t]]
  BY DEF SearchFound, Goto, Key
<1>3. node[t] \in Blocks \ At({"miss159"})
  <2>1. node[t] \in Onward /\ node[t] # HeadNode
    BY <1>1, <1>2, HeapAssumption DEF Missing
  <2> QED BY <2>1 DEF Onward, At
<1>4. mem[node[t]].path = Path[mem[node[t]].body]
  BY <1>1, <1>3 DEF Pages
<1>5. PICK d \in Clients : want[d] = mem[node[t]].body
  BY <1>1, <1>3 DEF Pages
<1>6. t \in Serving /\ FdOf(t) = connfd[t] /\ Looking(t)
  BY <1>2 DEF Serving, FdOf, Looking
<1>7. fdt[connfd[t]] \in Accepted
  BY <1>1, <1>6, ServeApart
<1>8. want[fdt[connfd[t]]] # Null /\ fdt[connfd[t]] \in Clients
  BY <1>1, <1>7, WantKnown
<1>9. uri[t] = want[fdt[connfd[t]]]
  BY <1>1, <1>2 DEF Served, Busy, Labels, Client
<1>10. d # fdt[connfd[t]]
  <2>1. mem[node[t]].body # want[fdt[connfd[t]]]
    BY <1>1, <1>3, <1>6 DEF Missing, NotYet
  <2> QED BY <1>5, <2>1
<1>11. want[d] # Null
  BY <1>1, <1>3, <1>5, PathAssumption DEF Pages
<1>12. \A c \in Clients : want[c] \in Asks[c] \cup {Null}
  BY DEF OnlyMisses
<1>13. Path[want[d]] # Path[want[fdt[connfd[t]]]]
  BY <1>8, <1>10, <1>11, <1>12, WantsApart
<1> QED BY <1>2, <1>4, <1>5, <1>9, <1>13

\* No statement dereferences a block that is not allocated, or sends what nobody has written.
LEMMA MissLegal ==
  ASSUME OnlyMisses, Orderly, NEW t \in Serving
  PROVE  Illegal(t) = {}
<1>1. /\ pc[t] \in {"close48"} \cup Storing \/ Looking(t) \/ Stored(t)
      /\ pc[t] \in Storing \/ Stored(t) => node[t] \in live
      /\ pc[t] = "search63" => node[t] \in live
      /\ pc[t] = "print102" => now[t] \in live
      /\ HeadNode \in live /\ mem[HeadNode].next \in live
  <2>1. Missing(t) /\ pc[t] # "none"
    BY DEF OnlyMisses, Serving
  <2>2. HeadNode \in live /\ Blocks \subseteq live
    BY DEF OnlyMisses, Pages, Blocks
  <2>3. Onward \subseteq live
    BY <2>2 DEF Onward
  <2>4. mem[HeadNode].next \in Onward
    BY DEF OnlyMisses, Chain
  <2> QED BY <2>1, <2>2, <2>3, <2>4 DEF Missing
<1>2. pc[t] \in {"close48", "miss159", "push16", "push17", "push18", "push19", "push21", "push21s", "t44", "t46", "t65",
                 "search56", "search63", "miss108", "miss137", "push24", "push28", "reply173",
                 "print95", "print101", "print102"}
  BY <1>1 DEF Storing, Looking, Stored, Printing
<1>3. ~Overflows(t)
  BY <1>2 DEF Overflows
<1>4. Derefs(t) \subseteq live
  BY <1>1, <1>2 DEF Derefs, ListDerefs, Storing, Stored
<1>5. ~Unwritten(t)
  <2>1. pc[t] = "t65" => conn[Client(t)] # "gone"
    BY HasSent DEF OnlyMisses, Serving, Busy, Labels
  <2>2. pc[t] \in {"miss159", "reply173"} => mem[node[t]].body \in Uris
    BY DEF OnlyMisses, Serving, Missing, Storing, Stored, Pages
  <2> QED BY <1>2, <2>1, <2>2, PathAssumption DEF Unwritten
<1> QED BY <1>3, <1>4, <1>5 DEF Illegal

\* The statements of a thread inside trans.
LEMMA InsideStep ==
  ASSUME OwnPages, Roomy, Orderly, OnlyMisses, IInv', NEW t \in Threads,
         CacheStep(t) \/ QuietTrans(t) \/ Miss108(t), ub' = ub \cup Illegal(t)
  PROVE  OnlyMisses'
<1>1. IInv /\ Missing(t) /\ RequestKnown
  BY IInvTyped DEF OnlyMisses
<1>2. t \in Serving /\ pc[t] # "none"
  <2>1. pc[t] # "none"
    <3>1. CASE CacheStep(t)
      BY <1>1, <3>1, ListStepLabels DEF CacheStep, InCache, Busy
    <3>2. CASE QuietTrans(t) \/ Miss108(t)
      BY <3>2 DEF QuietTrans, Hit97, Hit102, Hit104, Miss108, Miss137, Miss137Short, Miss159Small, Miss159Large, Reply173, Send, Goto
    <3> QED BY <3>1, <3>2
  <2> QED BY <2>1 DEF Serving
<1>3. ub' = ub
  BY <1>2, MissLegal
<1>4. pc[t] \notin {"hit97", "hit102", "hit104"} \cup Popping \cup {"move83", "move89"} \cup Relinking
  BY <1>1 DEF Missing, Looking, Storing, Stored, Printing, Popping, Relinking
<1>5. CASE CacheStep(t)
  <2>1. ListStep(t) /\ UNCHANGED <<mainVars, netVars, fdt, connfd, buf, status>>
    BY <1>5 DEF CacheStep
  <2>2. CASE Reading(t)
    BY <1>3, <2>1, <2>2, ReadStep
  <2>3. CASE Push16(t) \/ Push17(t) \/ Push18(t) \/ Push19(t)
    BY <1>3, <2>1, <2>3, LinkingStep DEF Linking
  <2>4. ~SearchFound(t)
    BY NeverFound
  <2>5. ~(Move83(t) \/ Move84(t) \/ Move86(t) \/ Move87(t) \/ Move88(t) \/ Move89(t))
    BY <1>4 DEF Move83, Move84, Move86, Move87, Move88, Move89, Goto, CallPrint, Relinking
  <2>6. ~(\/ Pop33(t) \/ Pop37(t) \/ Pop38(t) \/ Pop40(t) \/ Pop41(t) \/ Pop43(t) \/ Pop47Load(t) \/ Pop47Store(t))
    BY <1>4 DEF Pop33, Pop37, Pop38, Pop40, Pop41, Pop43, Pop47Load, Pop47Store, Goto, CallPrint, Popping
  <2> QED BY <2>1, <2>2, <2>3, <2>4, <2>5, <2>6 DEF ListStep, Reading
<1>6. CASE Miss108(t)
  BY <1>3, <1>6, Miss108Step
<1>7. CASE Miss137(t)
  BY <1>3, <1>7, Miss137Step
<1>8. CASE Miss159Small(t)
  <2>1. UNCHANGED <<mainVars, netVars, fdt, connfd>>
    BY <1>8 DEF Miss159Small
  <2> QED BY <1>3, <1>8, <2>1, LinkingStep DEF Linking
<1>9. CASE Reply173(t)
  BY <1>3, <1>9, Reply173Step
<1>10. ~Miss159Large(t)
  <2>1. SUFFICES ASSUME pc[t] = "miss159" PROVE mem[node[t]].body # Null /\ ~(Length[uri[t]] > MaxObject)
    BY DEF Miss159Large, Goto
  <2>2. uri[t] \in Uris /\ mem[node[t]].body = uri[t]
    BY <1>1, <2>1 DEF RequestKnown, Busy, Labels, Missing, Storing
  <2> QED BY <2>2, SizesAssumption, PathAssumption DEF Orderly
<1>12. ~Miss137Short(t)
  <2>1. SUFFICES ASSUME pc[t] = "miss137", Host[uri[t]] \in Fickle PROVE FALSE
    BY DEF Miss137Short, Goto
  <2> QED BY <2>1 DEF Orderly
<1>11. ~(Hit97(t) \/ Hit102(t) \/ Hit104(t))
  BY <1>4 DEF Hit97, Hit102, Hit104, Send, Goto
<1> QED BY <1>5, <1>6, <1>7, <1>8, <1>9, <1>10, <1>11, <1>12 DEF QuietTrans

\* A step of the connections: of main, of the clients, and of a thread outside trans.
LEMMA OutsideKeeps ==
  ASSUME OnlyMisses, UNCHANGED <<mem, live>>,
         At(Pushing \cup {"miss159"})' = At(Pushing \cup {"miss159"}),
         At({"miss159", "push16"})' = At({"miss159", "push16"}), At({"miss159"})' = At({"miss159"}),
         \A c \in Clients : want[c] # Null => want'[c] = want[c]
  PROVE  Blocks' = Blocks /\ Onward' = Onward /\ Pages' /\ Chain'
<1>1. Blocks' = Blocks
  BY DEF Blocks
<1>2. Onward' = Onward /\ Chained' = Chained
  BY <1>1 DEF Onward, Chained
<1>3. Pages'
  <2>1. ASSUME NEW n \in Blocks PROVE \E c \in Clients : want'[c] = mem[n].body
    <3>1. PICK c \in Clients : want[c] = mem[n].body /\ mem[n].body \in Uris
      BY DEF OnlyMisses, Pages
    <3> QED BY <3>1, PathAssumption
  <2> QED BY <1>1, <2>1 DEF OnlyMisses, Pages
<1>4. Chain'
  <2>1. PICK rank \in [Nodes -> Nat] : Descends(rank)
    BY DEF OnlyMisses, Chain
  <2>2. Descends(rank)'
    BY <1>2, <2>1 DEF Descends
  <2> QED BY <1>2, <2>2 DEF OnlyMisses, Chain
<1> QED BY <1>1, <1>2, <1>3, <1>4

LEMMA OutsideStep ==
  ASSUME Roomy, OnlyMisses, IInv', UNCHANGED <<mem, live, size, ub>>, NEW S, S \subseteq Threads,
         Blocks' = Blocks, Onward' = Onward, Pages', Chain', Done \subseteq Done',
         \A u \in Threads \ S : Undisturbed(u), \A u \in S : Missing(u)',
         mpc' = "create35" => NotYet(fdt[cell[connfdp]])',
         \A c \in Clients : want'[c] \in Asks[c] \cup {Null},
         Served', Replies', RightPage'
  PROVE  OnlyMisses'
<1>1. Grows
  BY DEF Grows
<1>2. \A u \in Threads : Missing(u)'
  <2>1. ASSUME NEW u \in Threads \ S PROVE Missing(u)'
    <3>1. Missing(u) /\ Undisturbed(u)
      BY <2>1 DEF OnlyMisses
    <3> QED BY <1>1, <3>1, OthersMissing
  <2> QED BY <2>1
<1>3. size' \in Nat /\ size' <= Tally'
  <2>1. Tally <= Tally' /\ Tally \in Nat /\ Tally' \in Nat
    BY TallyGrows, TallyIs, TallyNext
  <2> QED BY <2>1 DEF OnlyMisses
<1> QED BY <1>2, <1>3 DEF OnlyMisses, NoUndefinedBehaviour

\* What a thread that is not disturbed serves.
LEMMA AskedStill ==
  ASSUME IInv, Served, NEW u \in Threads, Undisturbed(u), connfd'[u] = connfd[u], pc'[u] \in Busy \ {"t65"}
  PROVE  uri'[u] = want'[Client(u)']
<1>1. pc[u] \in Busy \ {"t65"} /\ uri'[u] = uri[u]
  BY DEF Undisturbed
<1>2. u \in Serving /\ FdOf(u) = connfd[u] /\ FdOf(u)' = connfd[u]
  BY <1>1 DEF Serving, FdOf, Busy, Undisturbed
<1>3. fdt'[connfd[u]] = fdt[connfd[u]] /\ want'[fdt[connfd[u]]] = want[fdt[connfd[u]]]
  BY <1>2 DEF Undisturbed, Serving
<1> QED BY <1>1, <1>3 DEF Served, Client

LEMMA DoneStill ==
  ASSUME IInv,
         \A c \in Clients : want[c] # Null => want'[c] = want[c],
         \A c \in Clients : conn[c] = "idle" /\ want[c] # Null => conn'[c] = "idle",
         \A u \in Threads : Stored(u) \/ pc[u] = "close48" =>
            \/ Undisturbed(u) /\ connfd'[u] = connfd[u]
            \/ conn'[Client(u)] = "idle"
  PROVE  Done \subseteq Done'
<1>1. SUFFICES ASSUME NEW c \in Done PROVE c \in Done'
  OBVIOUS
<1>2. c \in Clients /\ want[c] # Null /\ want'[c] = want[c]
  BY DEF Done
<1>3. CASE conn[c] = "idle"
  BY <1>2, <1>3 DEF Done
<1>4. CASE conn[c] # "idle"
  <2>1. PICK u \in Threads : (Stored(u) \/ pc[u] = "close48") /\ Client(u) = c
    BY <1>4 DEF Done
  <2>2. u \in Serving /\ FdOf(u) = connfd[u]
    BY <2>1 DEF Stored, Serving, FdOf, Printing
  <2>3. CASE Undisturbed(u) /\ connfd'[u] = connfd[u]
    <3>1. (Stored(u) \/ pc[u] = "close48")' /\ pc'[u] # "t44"
      BY <2>1, <2>2, <2>3 DEF Undisturbed, Stored, Printing
    <3>2. FdOf(u)' = connfd[u]
      BY <2>3, <3>1 DEF FdOf
    <3>3. Client(u)' = c
      BY <2>1, <2>2, <2>3, <3>2 DEF Undisturbed, Serving, Client
    <3> QED BY <1>2, <3>1, <3>3 DEF Done
  <2>4. CASE conn'[Client(u)] = "idle"
    BY <1>2, <2>1, <2>4 DEF Done
  <2> QED BY <2>1, <2>3, <2>4
<1> QED BY <1>3, <1>4

\* T44, T46, T65: a thread before it looks for its page.
LEMMA EarlyStep ==
  ASSUME OwnPages, Roomy, OnlyMisses, IInv', NEW t \in Threads, T44(t) \/ T46(t) \/ T65(t)
  PROVE  OnlyMisses'
<1>1. /\ IInv /\ Missing(t) /\ pc \in [Threads -> Labels] /\ connfd \in [Threads -> Fds \cup {NoFd}] /\ Served
      /\ cell \in [Cells -> Fds \cup {NoFd}] /\ uri \in [Threads -> Uris \cup {Null}]
  BY DEF OnlyMisses, IInv, TypeOK, ProcessTypeOK
<1>2. PICK l \in {"t46", "t65", "search56"} : pc' = [pc EXCEPT ![t] = l] /\ pc'[t] = l
  BY <1>1 DEF T44, T46, T65, Goto
<1>3. /\ pc[t] \in {"t44", "t46", "t65"} /\ (pc[t] = "t44" <=> l = "t46") /\ (pc[t] = "t46" <=> l = "t65")
      /\ UNCHANGED <<mem, live, size, ub, node, now, reg, ret, conn, want, reply, fdt, mpc, connfdp>>
      /\ \A u \in Threads \ {t} : uri'[u] = uri[u] /\ connfd'[u] = connfd[u]
      /\ pc[t] = "t44" => connfd'[t] = cell[arg[t]] /\ cell' = cell /\ arg' = arg
      /\ pc[t] = "t46" => cell' = [cell EXCEPT ![arg[t]] = NoFd] /\ arg' = [arg EXCEPT ![t] = Null] /\ connfd' = connfd
      /\ pc[t] = "t65" => uri'[t] = want[Client(t)] /\ connfd' = connfd /\ cell' = cell /\ arg' = arg
  BY <1>1, <1>2 DEF T44, T46, T65, Goto, listVars, localVars, netVars, mainVars
<1>4. t \in Serving /\ Looking(t) /\ FdOf(t)' = FdOf(t)
  <2>1. t \in Serving /\ Looking(t)
    BY <1>3 DEF Serving, Looking
  <2>2. FdOf(t)' = FdOf(t)
    BY <1>2, <1>3 DEF FdOf
  <2> QED BY <2>1, <2>2
<1>5. ASSUME NEW L, L \subseteq Storing PROVE At(L)' = At(L)
  <2>1. pc[t] \notin L /\ l \notin L
    BY <1>2, <1>3, <1>5 DEF Storing
  <2>2. \A u \in Threads \ {t} : node'[u] = node[u]
    BY <1>3
  <2>3. pc' = [pc EXCEPT ![t] = l] /\ pc \in [Threads -> Labels]
    BY <1>1, <1>2
  <2> QED BY <2>1, <2>2, <2>3, AtSame
<1>6. Blocks' = Blocks /\ Onward' = Onward /\ Pages' /\ Chain'
  <2>1. /\ At(Pushing \cup {"miss159"})' = At(Pushing \cup {"miss159"})
        /\ At({"miss159", "push16"})' = At({"miss159", "push16"}) /\ At({"miss159"})' = At({"miss159"})
    BY <1>5 DEF Pushing, Storing
  <2> QED BY <1>3, <2>1, OutsideKeeps
<1>7. \A u \in Threads \ {t} : Undisturbed(u) /\ connfd'[u] = connfd[u]
  <2>1. SUFFICES ASSUME NEW u \in Threads \ {t} PROVE Undisturbed(u)
    BY <1>3
  <2>2. pc'[u] = pc[u]
    BY <1>1, <1>2
  <2>3. pc[u] # "none" => FdOf(u)' = FdOf(u)
    <3>1. pc[t] = "t46" /\ pc[u] = "t44" => arg[u] # arg[t]
      BY <1>1 DEF IInv, CellsOwned
    <3>2. pc[u] = "t44" => arg'[u] = arg[u] /\ cell'[arg[u]] = cell[arg[u]]
      <4>1. SUFFICES ASSUME pc[u] = "t44" PROVE arg'[u] = arg[u] /\ cell'[arg[u]] = cell[arg[u]]
        OBVIOUS
      <4>2. CASE pc[t] # "t46"
        BY <1>3, <4>2
      <4>3. CASE pc[t] = "t46"
        <5>1. arg \in [Threads -> Cells \cup {Null}]
          BY <1>1 DEF IInv, TypeOK, ProcessTypeOK
        <5>2. arg' = [arg EXCEPT ![t] = Null] /\ cell' = [cell EXCEPT ![arg[t]] = NoFd]
          BY <1>3, <4>3
        <5>3. arg'[u] = arg[u]
          BY <5>1, <5>2
        <5>4. arg[u] \in Cells
          BY <1>1, <4>1 DEF IInv, CellsOwned, TypeOK, ProcessTypeOK
        <5>5. cell'[arg[u]] = cell[arg[u]]
          BY <1>1, <3>1, <4>1, <4>3, <5>2, <5>4
        <5> QED BY <5>3, <5>5
      <4> QED BY <4>2, <4>3
    <3> QED BY <1>3, <2>2, <3>2 DEF FdOf
  <2> QED BY <1>3, <2>2, <2>3 DEF Undisturbed
<1>8. Done \subseteq Done'
  <2>1. ~(Stored(t) \/ pc[t] = "close48")
    BY <1>3 DEF Stored, Printing
  <2> QED BY <1>1, <1>3, <1>7, <2>1, DoneStill
<1>9. Missing(t)'
  <2>1. NotYet(fdt[FdOf(t)])
    BY <1>1, <1>4 DEF Missing
  <2>2. NotYet(fdt[FdOf(t)])'
    BY <1>3, <1>4, <1>6, <2>1 DEF NotYet
  <2> QED BY <1>2, <2>2 DEF Missing, Looking, Storing, Stored, Printing
<1>10. mpc' = "create35" => NotYet(fdt[cell[connfdp]])'
  <2>1. SUFFICES ASSUME mpc = "create35" PROVE NotYet(fdt[cell[connfdp]])'
    BY <1>3
  <2>2. cell'[connfdp] = cell[connfdp]
    <3>1. pc[t] = "t46" => arg[t] # connfdp
      BY <1>1, <2>1 DEF IInv, CellsOwned
    <3>2. CASE pc[t] # "t46"
      BY <1>3, <3>2
    <3>3. CASE pc[t] = "t46"
      <4>1. cell' = [cell EXCEPT ![arg[t]] = NoFd]
        BY <1>3, <3>3
      <4>2. connfdp \in Cells
        BY <1>1, <2>1 DEF IInv, CellsOwned, TypeOK, ProcessTypeOK
      <4> QED BY <1>1, <3>1, <3>3, <4>1, <4>2
    <3> QED BY <3>2, <3>3
  <2>3. NotYet(fdt[cell[connfdp]])
    BY <2>1 DEF OnlyMisses
  <2> QED BY <1>3, <1>6, <2>2, <2>3 DEF NotYet
<1>11. Served'
  <2>1. ASSUME NEW u \in Threads \ {t}, pc'[u] \in Busy \ {"t65"} PROVE uri'[u] = want'[Client(u)']
    BY <1>1, <1>7, <2>1, AskedStill
  <2>2. pc'[t] \in Busy \ {"t65"} => uri'[t] = want'[Client(t)']
    <3>1. pc'[t] \in Busy \ {"t65"} => pc[t] = "t65"
      BY <1>2, <1>3 DEF Busy
    <3> QED BY <1>3, <3>1 DEF Client
  <2> QED BY <2>1, <2>2 DEF Served, Client
<1>12. Replies' /\ RightPage' /\ \A c \in Clients : want'[c] \in Asks[c] \cup {Null}
  BY <1>3 DEF OnlyMisses, Replies, RightPage, NoReply
<1> DEFINE S == {t}
<1>13. S \subseteq Threads /\ (\A u \in Threads \ S : Undisturbed(u)) /\ \A u \in S : Missing(u)'
  BY <1>7, <1>9
<1> HIDE DEF S
<1> QED BY <1>3, <1>6, <1>8, <1>10, <1>11, <1>12, <1>13, OutsideStep

\* main hands the descriptor to a new thread.
LEMMA Create35Step ==
  ASSUME OwnPages, Roomy, OnlyMisses, IInv', NEW t \in Threads, Create35(t)
  PROVE  OnlyMisses'
<1>1. IInv /\ Served /\ pc \in [Threads -> Labels] /\ arg \in [Threads -> Cells \cup {Null}]
  BY DEF OnlyMisses, IInv, TypeOK, ProcessTypeOK
<1>2. /\ mpc = "create35" /\ mpc' = "malloc33" /\ pc[t] = "none" /\ pc' = [pc EXCEPT ![t] = "t44"]
      /\ pc'[t] = "t44" /\ arg'[t] = connfdp
      /\ \A u \in Threads \ {t} : pc'[u] = pc[u] /\ arg'[u] = arg[u]
      /\ UNCHANGED <<mem, live, size, ub, uri, node, now, reg, ret, conn, want, reply, fdt, connfd, cell>>
  BY <1>1 DEF Create35, Goto, listVars, localVars, netVars
<1>3. ASSUME NEW L, L \subseteq Storing PROVE At(L)' = At(L)
  <2>1. pc[t] \notin L /\ "t44" \notin L
    BY <1>2, <1>3 DEF Storing
  <2>2. \A u \in Threads \ {t} : node'[u] = node[u]
    BY <1>2
  <2>3. pc' = [pc EXCEPT ![t] = "t44"] /\ pc \in [Threads -> Labels]
    BY <1>1, <1>2
  <2> QED BY <2>1, <2>2, <2>3, AtSame
<1>4. Blocks' = Blocks /\ Onward' = Onward /\ Pages' /\ Chain'
  <2>1. /\ At(Pushing \cup {"miss159"})' = At(Pushing \cup {"miss159"})
        /\ At({"miss159", "push16"})' = At({"miss159", "push16"}) /\ At({"miss159"})' = At({"miss159"})
    BY <1>3 DEF Pushing, Storing
  <2> QED BY <1>2, <2>1, OutsideKeeps
<1>5. \A u \in Threads \ {t} : Undisturbed(u) /\ connfd'[u] = connfd[u]
  BY <1>2 DEF Undisturbed, FdOf
<1>6. Done \subseteq Done'
  <2>1. ~(Stored(t) \/ pc[t] = "close48")
    BY <1>2 DEF Stored, Printing
  <2> QED BY <1>1, <1>2, <1>5, <2>1, DoneStill
<1>7. Missing(t)'
  <2>1. NotYet(fdt[cell[connfdp]])
    BY <1>2 DEF OnlyMisses
  <2>2. FdOf(t)' = cell[connfdp]
    BY <1>2 DEF FdOf
  <2>3. NotYet(fdt[FdOf(t)])'
    BY <1>2, <1>4, <2>1, <2>2 DEF NotYet
  <2> QED BY <1>2, <2>3 DEF Missing, Looking, Storing, Stored, Printing
<1>8. Served'
  <2>1. ASSUME NEW u \in Threads \ {t}, pc'[u] \in Busy \ {"t65"} PROVE uri'[u] = want'[Client(u)']
    BY <1>1, <1>5, <2>1, AskedStill
  <2>2. pc'[t] \notin Busy \ {"t65"}
    BY <1>2 DEF Busy
  <2> QED BY <2>1, <2>2 DEF Served, Client
<1>9. Replies' /\ RightPage' /\ \A c \in Clients : want'[c] \in Asks[c] \cup {Null}
  BY <1>2 DEF OnlyMisses, Replies, RightPage, NoReply
<1> DEFINE S == {t}
<1>10. S \subseteq Threads /\ (\A u \in Threads \ S : Undisturbed(u)) /\ \A u \in S : Missing(u)'
  BY <1>5, <1>7
<1> HIDE DEF S
<1> QED BY <1>2, <1>4, <1>6, <1>8, <1>9, <1>10, OutsideStep

\* Steps that touch neither the list nor who serves whom.
LEMMA AsideStep ==
  ASSUME Roomy, OnlyMisses, IInv',
         UNCHANGED <<mem, live, size, pc, uri, node, now, reg, ret, want, reply, fdt, connfd, cell, arg, ub>>,
         \A c \in Clients : conn[c] = "idle" => conn'[c] = "idle",
         mpc' = "create35" => mpc = "create35" /\ connfdp' = connfdp
  PROVE  OnlyMisses'
<1>1. IInv /\ Served
  BY DEF OnlyMisses
<1>2. \A L : At(L)' = At(L)
  BY DEF At
<1>3. Blocks' = Blocks /\ Onward' = Onward /\ Pages' /\ Chain'
  BY <1>2, OutsideKeeps
<1>4. \A u \in Threads \ {} : Undisturbed(u) /\ connfd'[u] = connfd[u]
  BY DEF Undisturbed, FdOf
<1>5. Done \subseteq Done'
  BY <1>1, <1>4, DoneStill
<1>6. mpc' = "create35" => NotYet(fdt[cell[connfdp]])'
  <2>1. mpc' = "create35" => NotYet(fdt[cell[connfdp]]) /\ connfdp' = connfdp
    BY DEF OnlyMisses
  <2> QED BY <1>3, <2>1 DEF NotYet
<1>7. Served' /\ Replies' /\ RightPage' /\ \A c \in Clients : want'[c] \in Asks[c] \cup {Null}
  BY DEF OnlyMisses, Served, Client, Replies, RightPage, NoReply
<1> DEFINE S == {}
<1>8. S \subseteq Threads /\ (\A u \in Threads \ S : Undisturbed(u)) /\ \A u \in S : Missing(u)'
  BY <1>4
<1> HIDE DEF S
<1> QED BY <1>3, <1>5, <1>6, <1>7, <1>8, OutsideStep

\* accept: the page the client asks for is nobody else's, so no node keeps it.
LEMMA Accept34Step ==
  ASSUME OwnPages, Roomy, OnlyMisses, IInv', NEW c \in Clients, NEW p \in Uris, Accept34(c, p)
  PROVE  OnlyMisses'
<1>1. /\ IInv /\ Served /\ conn \in [Clients -> {"idle", "mute", "line", "accepted"} \cup Closed]
      /\ want \in [Clients -> Uris \cup {Null}]
      /\ cell \in [Cells -> Fds \cup {NoFd}] /\ fdt \in [Fds -> Clients \cup {Free, Origin}] /\ reply \in [Clients -> Uris \cup {Null}]
  BY DEF OnlyMisses, IInv, TypeOK, ProcessTypeOK, Replies
<1>2. PICK f \in Fds : fdt[f] = Free /\ fdt' = [fdt EXCEPT ![f] = c] /\ cell' = [cell EXCEPT ![connfdp] = f]
  BY DEF Accept34, LowestFree, FreeFds
<1>3. /\ mpc = "accept34" /\ want[c] = Null /\ conn[c] = "idle" /\ p \in Asks[c]
      /\ conn' = [conn EXCEPT ![c] = IF c \in Slow THEN "mute" ELSE "accepted"] /\ want' = [want EXCEPT ![c] = p]
      /\ reply' = [reply EXCEPT ![c] = Null]
      /\ UNCHANGED <<mem, live, size, ub, pc, uri, node, now, reg, ret, connfd, connfdp, arg>>
  BY DEF Accept34, OwnPages, listVars, localVars, NoReply
<1>4. connfdp \in Cells /\ \A u \in Threads : pc[u] = "t44" => arg[u] # connfdp /\ arg[u] \in Cells
  BY <1>1, <1>3 DEF IInv, CellsOwned, TypeOK, ProcessTypeOK
<1>5. want'[c] = p /\ \A d \in Clients \ {c} : want'[d] = want[d] /\ conn'[d] = conn[d] /\ reply'[d] = reply[d]
  BY <1>1, <1>3
<1>6. \A L : At(L)' = At(L)
  BY <1>3 DEF At
<1>7. Blocks' = Blocks /\ Onward' = Onward /\ Pages' /\ Chain'
  BY <1>3, <1>5, <1>6, OutsideKeeps
<1>8. \A u \in Threads \ {} : Undisturbed(u) /\ connfd'[u] = connfd[u]
  <2>1. SUFFICES ASSUME NEW u \in Threads, pc[u] # "none"
                 PROVE fdt'[FdOf(u)'] = fdt[FdOf(u)] /\ want'[fdt[FdOf(u)]] = want[fdt[FdOf(u)]]
    BY <1>3 DEF Undisturbed
  <2>2. FdOf(u) \in Fds /\ fdt[FdOf(u)] \in Accepted
    BY <1>1, <2>1, ServeApart DEF Serving
  <2>3. fdt[FdOf(u)] \in Clients \ {c} /\ FdOf(u) # f
    BY <1>2, <1>3, <2>2, ClientsAssumption DEF Accepted, Free
  <2>4. FdOf(u)' = FdOf(u)
    BY <1>1, <1>2, <1>3, <1>4 DEF FdOf
  <2> QED BY <1>1, <1>2, <1>5, <2>2, <2>3, <2>4
<1>9. Done \subseteq Done'
  BY <1>1, <1>3, <1>5, <1>8, DoneStill
<1>10. NotYet(fdt[cell[connfdp]])'
  <2>1. fdt'[cell'[connfdp']] = c
    BY <1>1, <1>2, <1>3, <1>4
  <2>2. SUFFICES ASSUME NEW n \in Blocks PROVE mem[n].body # p
    BY <1>3, <1>5, <1>7, <2>1 DEF NotYet
  <2>3. PICK d \in Clients : want[d] = mem[n].body /\ mem[n].body \in Uris
    BY DEF OnlyMisses, Pages
  <2>4. want[d] # Null /\ d # c /\ want[d] \in Asks[d]
    BY <1>3, <2>3, PathAssumption DEF OnlyMisses
  <2>5. Path[want[d]] # Path[p]
    BY <1>3, <2>4 DEF OwnPages
  <2> QED BY <2>3, <2>5
<1>11. Served'
  BY <1>1, <1>8, AskedStill DEF Served, Client
<1>12. Replies' /\ RightPage' /\ \A d \in Clients : want'[d] \in Asks[d] \cup {Null}
  <2>1. reply'[c] = Null /\ reply' \in [Clients -> Uris \cup {Null}]
    BY <1>1, <1>3
  <2> QED BY <1>3, <1>5, <2>1 DEF OnlyMisses, Replies, RightPage, NoReply
<1> DEFINE S == {}
<1>13. S \subseteq Threads /\ (\A u \in Threads \ S : Undisturbed(u)) /\ \A u \in S : Missing(u)'
  BY <1>8
<1> HIDE DEF S
<1> QED BY <1>3, <1>7, <1>9, <1>10, <1>11, <1>12, <1>13, OutsideStep

\* The thread closes its descriptor and ends: its page counts from now on.
LEMMA Close48Step ==
  ASSUME OwnPages, Roomy, Orderly, OnlyMisses, IInv', NEW t \in Threads, Close48(t), ub' = ub \cup Illegal(t)
  PROVE  OnlyMisses'
<1>1. /\ IInv /\ Served /\ pc \in [Threads -> Labels] /\ conn \in [Clients -> {"idle", "mute", "line", "accepted"} \cup Closed]
      /\ fdt \in [Fds -> Clients \cup {Free, Origin}] /\ connfd \in [Threads -> Fds \cup {NoFd}] /\ Typed
  BY IInvTyped DEF OnlyMisses, IInv, TypeOK, ProcessTypeOK
<1>2. /\ pc[t] = "close48" /\ pc' = [pc EXCEPT ![t] = "none"] /\ pc'[t] = "none"
      /\ conn' = [conn EXCEPT ![Client(t)] = "idle"] /\ fdt' = [fdt EXCEPT ![connfd[t]] = Free]
      /\ \A u \in Threads \ {t} : /\ pc'[u] = pc[u] /\ connfd'[u] = connfd[u] /\ uri'[u] = uri[u]
                                  /\ node'[u] = node[u] /\ ret'[u] = ret[u]
      /\ UNCHANGED <<mem, live, size, now, reg, want, reply, mpc, connfdp, arg, cell>>
  BY <1>1 DEF Close48, Goto, listVars, mainVars, Typed
<1>3. /\ t \in Serving /\ FdOf(t) = connfd[t] /\ connfd[t] \in Fds /\ Client(t) \in Clients
      /\ conn'[Client(t)] = "idle" /\ \A c \in Clients : conn[c] = "idle" => conn'[c] = "idle"
  <2>1. t \in Serving /\ FdOf(t) = connfd[t]
    BY <1>2 DEF Serving, FdOf
  <2> QED BY <1>1, <1>2, <2>1, ServeApart DEF Client, Accepted
<1>4. ub' = ub
  BY <1>3, MissLegal
<1>5. ASSUME NEW L, L \subseteq Storing PROVE At(L)' = At(L)
  <2>1. pc[t] \notin L /\ "none" \notin L
    BY <1>2, <1>5 DEF Storing
  <2>2. \A u \in Threads \ {t} : node'[u] = node[u]
    BY <1>2
  <2>3. pc' = [pc EXCEPT ![t] = "none"] /\ pc \in [Threads -> Labels]
    BY <1>1, <1>2
  <2> QED BY <2>1, <2>2, <2>3, AtSame
<1>6. Blocks' = Blocks /\ Onward' = Onward /\ Pages' /\ Chain'
  <2>1. /\ At(Pushing \cup {"miss159"})' = At(Pushing \cup {"miss159"})
        /\ At({"miss159", "push16"})' = At({"miss159", "push16"}) /\ At({"miss159"})' = At({"miss159"})
    BY <1>5 DEF Pushing, Storing
  <2> QED BY <1>2, <2>1, OutsideKeeps
<1>7. \A u \in Threads \ {t} : Undisturbed(u) /\ connfd'[u] = connfd[u]
  <2>1. SUFFICES ASSUME NEW u \in Threads \ {t}, pc[u] # "none" PROVE fdt'[FdOf(u)'] = fdt[FdOf(u)]
    BY <1>2 DEF Undisturbed
  <2>2. FdOf(u) \in Fds /\ FdOf(u) # connfd[t]
    BY <1>1, <1>3, <2>1, ServeApart DEF Serving
  <2>3. FdOf(u)' = FdOf(u)
    BY <1>2 DEF FdOf
  <2> QED BY <1>1, <1>2, <2>2, <2>3
<1>8. Done \subseteq Done'
  BY <1>1, <1>2, <1>3, <1>7, DoneStill
<1>9. Missing(t)'
  BY <1>2 DEF Missing, Looking, Storing, Stored, Printing
<1>10. mpc' = "create35" => NotYet(fdt[cell[connfdp]])'
  <2>1. SUFFICES ASSUME mpc = "create35" PROVE NotYet(fdt[cell[connfdp]])'
    BY <1>2
  <2>2. cell[connfdp] \in Fds /\ cell[connfdp] # connfd[t]
    BY <1>1, <1>3, <2>1, ServeApart
  <2>3. NotYet(fdt[cell[connfdp]]) /\ fdt'[cell[connfdp]] = fdt[cell[connfdp]]
    BY <1>1, <1>2, <2>1, <2>2 DEF OnlyMisses
  <2> QED BY <1>2, <1>6, <2>3 DEF NotYet
<1>11. Served'
  <2>1. ASSUME NEW u \in Threads \ {t}, pc'[u] \in Busy \ {"t65"} PROVE uri'[u] = want'[Client(u)']
    BY <1>1, <1>7, <2>1, AskedStill
  <2>2. pc'[t] \notin Busy \ {"t65"}
    BY <1>2 DEF Busy
  <2> QED BY <2>1, <2>2 DEF Served, Client
<1>12. Replies' /\ RightPage' /\ \A c \in Clients : want'[c] \in Asks[c] \cup {Null}
  BY <1>2 DEF OnlyMisses, Replies, RightPage, NoReply
<1> DEFINE S == {t}
<1>13. S \subseteq Threads /\ (\A u \in Threads \ S : Undisturbed(u)) /\ \A u \in S : Missing(u)'
  BY <1>7, <1>9
<1> HIDE DEF S
<1> QED BY <1>2, <1>4, <1>6, <1>8, <1>10, <1>11, <1>12, <1>13, OutsideStep

LEMMA InitOnlyMisses == Init => OnlyMisses
<1> SUFFICES ASSUME Init PROVE OnlyMisses
  OBVIOUS
<1>1. IInv
  BY InitIInv
<1>2. /\ \A t \in Threads : pc[t] = "none"
      /\ live = {HeadNode} /\ mem[HeadNode].next = HeadNode /\ size = 0 /\ mpc = "malloc33"
      /\ \A c \in Clients : want[c] = Null
  BY DEF Init, NewDll, Addr
<1>3. Served /\ Replies /\ RightPage /\ NoUndefinedBehaviour
  BY DEF Served, Replies, RightPage, NoUndefinedBehaviour, Init, NoReply, Busy
<1>4. Blocks = {} /\ HeadNode \in Onward /\ Chained = {}
  BY <1>2 DEF Blocks, Onward, Chained
<1>5. Pages
  BY <1>2, <1>4 DEF Pages, Addr
<1>6. Chain
  <2>1. [n \in Nodes |-> 0] \in [Nodes -> Nat] /\ Descends([n \in Nodes |-> 0])
    BY <1>4 DEF Descends
  <2> QED BY <1>2, <1>4, <2>1 DEF Chain
<1>7. size \in Nat /\ size <= Tally
  <2>1. Done = {}
    BY <1>2 DEF Done
  <2>2. Tally = 0
    BY <2>1, FS_EmptySet DEF Tally
  <2> QED BY <1>2, <2>2
<1>8. \A t \in Threads : Missing(t)
  BY <1>2 DEF Missing, Looking, Storing, Stored, Printing
<1> QED BY <1>1, <1>2, <1>3, <1>5, <1>6, <1>7, <1>8 DEF OnlyMisses

LEMMA NextOnlyMisses == OwnPages /\ Roomy /\ Orderly /\ OnlyMisses /\ [Next]_vars => OnlyMisses'
<1> SUFFICES ASSUME OwnPages, Roomy, Orderly, OnlyMisses, [Next]_vars PROVE OnlyMisses'
  OBVIOUS
<1>1. IInv' /\ IInv
  BY NextIInv DEF OnlyMisses
<1>2. Exit => OnlyMisses'
  BY <1>1, AsideStep DEF Exit, listVars, localVars, mainVars, netVars
<1>3. CASE Main
  <2>1. CASE Malloc33
    BY <1>1, <2>1, AsideStep DEF Malloc33, listVars, localVars, netVars
  <2>2. ASSUME NEW t \in Threads, Create35(t) PROVE OnlyMisses'
    BY <1>1, <2>2, Create35Step
  <2> QED BY <1>2, <1>3, <2>1, <2>2 DEF Main, AcceptError
<1>4. CASE Environment
  <2>1. ASSUME NEW c \in Clients, SendOn(c) \/ GiveUp(c) PROVE OnlyMisses'
    <3>1. /\ Accepted' = Accepted
          /\ UNCHANGED <<listVars, pc, localVars, mainVars, want, reply, fdt, connfd, buf, status, ub>>
      BY <1>1, <2>1, OpenKept
    <3>2. \A d \in Clients : conn[d] = "idle" => conn'[d] = "idle"
      BY <3>1 DEF Accepted
    <3> QED BY <1>1, <3>1, <3>2, AsideStep DEF listVars, localVars, mainVars
  <2>2. ASSUME NEW c \in Clients, NEW u \in Uris, Accept34(c, u) PROVE OnlyMisses'
    BY <1>1, <2>2, Accept34Step
  <2> QED BY <1>4, <2>1, <2>2 DEF Environment
<1>5. ASSUME NEW t \in Threads, Thread(t) PROVE OnlyMisses'
  <2>1. CASE T44(t) \/ T46(t) \/ T65(t)
    BY <1>1, <2>1, EarlyStep
  <2>2. CASE Miss108Error(t)
    BY <1>2, <2>2 DEF Miss108Error
  <2>3. CASE CacheStep(t) /\ Derefs(t) \subseteq Addr /\ ub' = ub \cup Illegal(t)
    BY <1>1, <2>3, InsideStep
  <2>4. CASE TransStep(t) /\ Derefs(t) \subseteq Addr /\ ub' = ub \cup Illegal(t)
    <3>1. CASE Close48(t)
      BY <1>1, <2>4, <3>1, Close48Step
    <3>2. CASE QuietTrans(t) \/ Miss108(t)
      BY <1>1, <2>4, <3>2, InsideStep
    <3>3. ~T65Gone(t)
      BY <1>1, HasSent DEF T65Gone, Goto, Busy, Labels
    <3> QED BY <2>4, <3>1, <3>2, <3>3 DEF TransStep, QuietTrans
  <2> QED BY <1>5, <2>1, <2>2, <2>3, <2>4 DEF Thread, Statement
<1>6. ASSUME NEW t \in Threads, Crash(t) PROVE OnlyMisses'
  <2>1. t \in Serving
    <3>1. SUFFICES ASSUME pc[t] = "none" PROVE FALSE
      BY DEF Serving
    <3> QED BY <1>6, <3>1 DEF Crash, Illegal, BrokenPipe, Derefs, ListDerefs, Overflows, Unwritten
  <2>2. ub' = ub
    BY <1>6, <2>1, MissLegal DEF Crash
  <2> QED BY <1>1, <1>6, <2>2, AsideStep DEF Crash, listVars, localVars, mainVars, netVars
<1>8. ASSUME NEW t \in Threads, ReadError(t) PROVE OnlyMisses'
  BY <1>2, <1>8 DEF ReadError
<1>7. CASE UNCHANGED vars
  BY <1>1, <1>7, AsideStep DEF vars, listVars, localVars, mainVars, netVars
<1> QED BY <1>3, <1>4, <1>5, <1>6, <1>7, <1>8 DEF Next

\* The walk along next, until it meets the dummy node: it goes down in the ranks.
LEMMA Wanders ==
  ASSUME OnlyMisses, NEW m \in 0..Steps, \A k \in 1..m : Walk[k] # HeadNode
  PROVE  /\ \A k \in 1..m : Walk[k] \in Onward \ {HeadNode} /\ Walk[k] \in Nodes
         /\ \A i, k \in 1..m : Walk[i] = Walk[k] => i = k
<1>1. Typed /\ Steps \in Nat
  BY IInvTyped, WalkIs DEF OnlyMisses
<1>2. PICK rank \in [Nodes -> Nat] : Descends(rank)
  BY DEF OnlyMisses, Chain
<1>3. /\ Onward \ {HeadNode} \subseteq Chained /\ Onward \ {HeadNode} \subseteq Nodes /\ HeadNode \in Addr /\ Nodes \subseteq Addr
      /\ mem[HeadNode].next \in Onward /\ \A n \in Chained : mem[n].next \in Onward
  BY HeapAssumption DEF Onward, Chained, At, Pushing, Blocks, Addr, OnlyMisses, Pages, Chain
<1> DEFINE On(k) == Walk[k] \in Onward \ {HeadNode} /\ \A i \in 1..k-1 : Walk[i] \in Nodes /\ rank[Walk[k]] < rank[Walk[i]]
           D == {j \in Nat : j + 1 <= m => On(j + 1)}
<1>4. 0 \in D
  <2>1. SUFFICES ASSUME 1 <= m PROVE On(1)
    OBVIOUS
  <2>2. 1 \in 1..Steps /\ 1 - 1 = 0 /\ 1 \in 1..m
    BY <1>1, <2>1
  <2>3. Walk[1] = mem[HeadNode].next
    BY <1>1, <1>3, <2>2, WalkIs
  <2> QED BY <1>3, <2>2, <2>3
<1>5. ASSUME NEW j \in Nat \cap D PROVE j + 1 \in D
  <2>1. SUFFICES ASSUME j + 2 <= m PROVE On(j + 2)
    BY <1>5
  <2>2. j + 1 \in 1..m /\ j + 2 \in 1..m /\ j + 2 \in 1..Steps /\ (j + 2) - 1 = j + 1 /\ j + 1 <= m
    BY <1>1, <2>1
  <2>3. On(j + 1)
    BY <1>5, <2>2
  <2>4. Walk[j + 1] \in Chained /\ Walk[j + 1] \in Nodes
    BY <1>3, <2>3
  <2>5. Walk[j + 2] = mem[Walk[j + 1]].next
    BY <1>1, <1>3, <2>2, <2>4, WalkIs
  <2>6. Walk[j + 2] \in Onward \ {HeadNode} /\ Walk[j + 2] \in Nodes
    BY <1>3, <2>2, <2>4, <2>5
  <2>7. rank[Walk[j + 2]] < rank[Walk[j + 1]]
    BY <1>2, <2>4, <2>5, <2>6 DEF Descends
  <2>8. ASSUME NEW i \in 1..j+1 PROVE Walk[i] \in Nodes /\ rank[Walk[j + 2]] < rank[Walk[i]]
    <3>1. CASE i = j + 1
      BY <2>4, <2>7, <3>1
    <3>2. CASE i # j + 1
      <4>1. i \in 1..(j + 1) - 1
        BY <3>2
      <4>2. Walk[i] \in Nodes /\ rank[Walk[j + 1]] < rank[Walk[i]]
        BY <2>3, <4>1
      <4> QED BY <1>2, <2>4, <2>6, <2>7, <4>2
    <3> QED BY <3>1, <3>2
  <2> QED BY <2>2, <2>6, <2>8
<1>6. Nat \subseteq D
  <2> HIDE DEF D
  <2> QED BY <1>4, <1>5, Counting
<1>7. ASSUME NEW k \in 1..m PROVE On(k)
  <2>1. k - 1 \in Nat /\ (k - 1) + 1 = k /\ k <= m
    BY <1>1
  <2> QED BY <1>6, <2>1
<1>8. \A k \in 1..m : Walk[k] \in Onward \ {HeadNode} /\ Walk[k] \in Nodes
  BY <1>3, <1>7
<1>9. ASSUME NEW i \in 1..m, NEW k \in 1..m, i < k PROVE Walk[i] # Walk[k]
  <2>1. i \in 1..k-1
    BY <1>9
  <2>2. rank[Walk[k]] < rank[Walk[i]]
    BY <1>7, <2>1
  <2> QED BY <1>2, <1>8, <2>2
<1>10. ASSUME NEW i \in 1..m, NEW k \in 1..m, Walk[i] = Walk[k] PROVE i = k
  <2>1. ~(i < k) /\ ~(k < i)
    BY <1>9, <1>10
  <2> QED BY <2>1
<1> QED BY <1>8, <1>10

\* There are too few nodes not to meet it.
LEMMA ComesBack ==
  ASSUME OnlyMisses
  PROVE  \E k \in 1..Steps : Walk[k] = HeadNode
<1>1. SUFFICES ASSUME \A k \in 1..Steps : Walk[k] # HeadNode PROVE FALSE
  OBVIOUS
<1>2. Typed
  BY IInvTyped DEF OnlyMisses
<1>3. Steps \in Nat /\ Steps \in 0..Steps
  BY <1>2, WalkIs
<1> DEFINE f == [k \in 1..Steps |-> Walk[k]]
<1>4. \A k \in 1..Steps : Walk[k] \in Nodes
  BY <1>1, <1>3, Wanders
<1>5. \A i, k \in 1..Steps : Walk[i] = Walk[k] => i = k
  BY <1>1, <1>3, Wanders
<1>6. f \in Injection(1..Steps, Nodes)
  BY <1>4, <1>5 DEF Injection, IsInjective
<1> HIDE DEF f
<1>7. Cardinality(1..Steps) <= Cardinality(Nodes)
  BY <1>6, HeapAssumption, FS_Injection
<1>8. Cardinality(1..Steps) = Steps /\ Cardinality(Nodes) \in Nat
  <2>1. Cardinality(1..Steps) = IF 1 > Steps THEN 0 ELSE Steps - 1 + 1
    BY <1>3, FS_Interval
  <2> QED BY <1>3, <2>1, HeapAssumption, FS_CardinalityType
<1> QED BY <1>7, <1>8 DEF Steps

LEMMA OnlyMissesForward == OnlyMisses => ForwardChain
<1> SUFFICES ASSUME OnlyMisses PROVE ForwardChain
  OBVIOUS
<1>1. Typed /\ Steps \in Nat /\ Pages
  BY IInvTyped, WalkIs DEF OnlyMisses
<1>2. PICK k \in {j \in 1..Steps : Walk[j] = HeadNode} : \A j \in {j \in 1..Steps : Walk[j] = HeadNode} : k <= j
  <2>1. {j \in 1..Steps : Walk[j] = HeadNode} \in SUBSET Nat /\ {j \in 1..Steps : Walk[j] = HeadNode} # {}
    BY <1>1, ComesBack
  <2> QED BY <2>1, LeastMember
<1>3. k - 1 \in 0..Steps /\ \A j \in 1..k-1 : Walk[j] # HeadNode
  BY <1>1, <1>2
<1>4. \A j \in 1..k-1 : Walk[j] \in Onward \ {HeadNode}
  BY <1>3, Wanders
<1>5. ASSUME NEW n \in Onward \ {HeadNode} PROVE n \in live \ {HeadNode} /\ mem[n].path # Null
  <2>1. n \in Blocks /\ n \notin At({"miss159"})
    BY <1>5 DEF Onward, At
  <2>2. mem[n].body \in Uris /\ mem[n].path = Path[mem[n].body]
    BY <1>1, <2>1 DEF Pages
  <2> QED BY <2>1, <2>2, PathAssumption DEF Blocks
<1>6. \A j \in 1..k-1 : Walk[j] \in live \ {HeadNode} /\ mem[Walk[j]].path # Null
  BY <1>4, <1>5
<1> QED BY <1>2, <1>6 DEF ForwardChain

LEMMA AlwaysOnlyMisses == ASSUME OwnPages, Roomy, Orderly PROVE Spec => []OnlyMisses
<1>1. OnlyMisses /\ [Next]_vars => OnlyMisses'
  BY NextOnlyMisses
<1> QED BY <1>1, InitOnlyMisses, PTL DEF Spec

(***************************************************************************)
(* However many threads push their pages onto the list at the same time, with *)
(* no lock: as long as every request is for a page of its own, all of them *)
(* fit, and clients and origins are orderly (they send what they should when *)
(* they should), a walk along next comes back to the dummy node and meets only nodes *)
(* that are allocated and have their path.  (A node can be lost from the list, *)
(* and size can lose an update; the walk cannot go astray, because pushFront *)
(* writes next of the new node before the dummy node points at it.)        *)
(***************************************************************************)
THEOREM ProxyMissesKeepTheChain == ASSUME OwnPages, Roomy, Orderly PROVE Spec => []ForwardChain
BY AlwaysOnlyMisses, OnlyMissesForward, PTL

(***************************************************************************)
(* No thread then follows a pointer nobody has written, reads a freed block, *)
(* or sends what it has not received.                                      *)
(***************************************************************************)
THEOREM ProxyMissesLegal == ASSUME OwnPages, Roomy, Orderly PROVE Spec => []NoUndefinedBehaviour
<1>1. OnlyMisses => NoUndefinedBehaviour
  BY DEF OnlyMisses
<1> QED BY <1>1, AlwaysOnlyMisses, PTL

(***************************************************************************)
(* And every client receives the page it asked for, whatever the other threads *)
(* do to the list in the meantime.                                         *)
(***************************************************************************)
THEOREM ProxyMissesRightPage == ASSUME OwnPages, Roomy, Orderly PROVE Spec => []RightPage
<1>1. OnlyMisses => RightPage
  BY DEF OnlyMisses
<1> QED BY <1>1, AlwaysOnlyMisses, PTL
=============================================================================
