------------------------- MODULE NetworkBuffers_proofs -------------------------
(***************************************************************************)
(* Proofs about NetworkBuffers for every number of users, descriptors and  *)
(* blocks and both implementations: its invariants, and that it implements *)
(* BufferPool.                                                             *)
(***************************************************************************)
EXTENDS NetworkBuffers, FiniteSetTheorems, TLAPS

\* A call knows its descriptor; a resize owns it, and has its new block.
CallInv ==
  \A u \in Users :
    /\ pc[u] \in {"allocate", "free", "insert", "give", "resize"} => pxDesc[u] \in Descriptors
    /\ pc[u] = "resize" => /\ pxDesc[u] \in held[u]
                           /\ pucBuffer[u] \in Blocks
    /\ pc[u] # "resize" => pucBuffer[u] = NULL
    /\ pc[u] \in {"free", "resize"} => implementation = "heap"

\* The list holds one descriptor for each count of the semaphore, for each
\* user that has taken it and not yet the descriptor, and for each user that
\* has put a descriptor back and not yet given the semaphore.
At(label) == {u \in Users : pc[u] = label}

CountInv ==
  Len(xFreeBuffersList) = xNetworkBufferSemaphore + Cardinality(At("unlink"))
                                                  + Cardinality(At("give"))

\* Where descriptors have no memory of their own.
MemoryInv ==
  /\ implementation = "heap" =>
       /\ \A d \in Listed : pucEthernetBuffer[d] = NULL
       /\ \A u \in Users :
            pc[u] \in {"allocate", "insert"} => pucEthernetBuffer[pxDesc[u]] = NULL
       /\ \A u \in Users :
            pc[u] = "resize" => pucEthernetBuffer[pxDesc[u]] # NULL
  /\ implementation = "static" =>
       pucEthernetBuffer = ucEthTxBuffers /\ heap = {} /\ raw = [u \in Users |-> {}]

Inv == TypeOK /\ CallInv /\ EveryDescriptorOnce /\ CountInv /\ MemoryInv /\ EveryBlockOnce

-----------------------------------------------------------------------------
(* Lists without repetitions.                                              *)

LEMMA TailFacts ==
  ASSUME NEW S, NEW s \in Seq(S), s # <<>>, NoRepeats(s)
  PROVE  /\ Head(s) \in S
         /\ Tail(s) \in Seq(S)
         /\ Len(Tail(s)) = Len(s) - 1
         /\ NoRepeats(Tail(s))
         /\ Head(s) \in Elements(s)
         /\ Elements(Tail(s)) = Elements(s) \ {Head(s)}
<1>1. /\ Tail(s) \in Seq(S) /\ Len(Tail(s)) = Len(s) - 1 /\ Head(s) = s[1]
      /\ Len(s) \in Nat /\ Len(s) >= 1 /\ s[1] \in S
  OBVIOUS
<1>2. \A i \in 1 .. Len(Tail(s)) : Tail(s)[i] = s[i + 1]
  OBVIOUS
<1>3. NoRepeats(Tail(s))
  BY <1>1, <1>2 DEF NoRepeats
<1>4. Elements(Tail(s)) \subseteq Elements(s) \ {Head(s)}
  BY <1>1, <1>2 DEF Elements, NoRepeats
<1>5. ASSUME NEW x \in Elements(s) \ {Head(s)}
      PROVE  x \in Elements(Tail(s))
  <2>1. PICK i \in 1 .. Len(s) : x = s[i]
    BY DEF Elements
  <2>2. i # 1
    BY <2>1, <1>1
  <2>3. i - 1 \in 1 .. Len(Tail(s)) /\ Tail(s)[i - 1] = x
    BY <2>1, <2>2, <1>1, <1>2
  <2> QED
    BY <2>3 DEF Elements
<1>6. Head(s) \in Elements(s)
  BY <1>1 DEF Elements
<1> QED
  BY <1>1, <1>3, <1>4, <1>5, <1>6

LEMMA AppendFacts ==
  ASSUME NEW S, NEW s \in Seq(S), NEW x \in S, x \notin Elements(s), NoRepeats(s)
  PROVE  /\ Append(s, x) \in Seq(S)
         /\ Len(Append(s, x)) = Len(s) + 1
         /\ NoRepeats(Append(s, x))
         /\ Elements(Append(s, x)) = Elements(s) \cup {x}
<1> DEFINE t == Append(s, x)
<1>1. /\ t \in Seq(S) /\ Len(t) = Len(s) + 1 /\ Len(s) \in Nat
      /\ t[Len(s) + 1] = x
      /\ \A i \in 1 .. Len(s) : t[i] = s[i]
  OBVIOUS
<1> HIDE DEF t
<1>2. NoRepeats(t)
  BY <1>1 DEF NoRepeats, Elements
<1>3. Elements(t) = Elements(s) \cup {x}
  <2>1. Elements(s) \cup {x} \subseteq Elements(t)
    BY <1>1 DEF Elements
  <2>2. Elements(t) \subseteq Elements(s) \cup {x}
    BY <1>1 DEF Elements
  <2> QED
    BY <2>1, <2>2
<1> QED
  BY <1>1, <1>2, <1>3 DEF t

\* Counting the users at a label.
LEMMA CountFacts ==
  ASSUME NEW S, IsFiniteSet(S), NEW u
  PROVE  /\ Cardinality(S) \in Nat
         /\ u \notin S => Cardinality(S \cup {u}) = Cardinality(S) + 1
         /\ u \in S => Cardinality(S \ {u}) = Cardinality(S) - 1
         /\ u \in S => Cardinality(S) > 0
<1>1. Cardinality(S) \in Nat
  BY FS_CardinalityType
<1>2. u \notin S => Cardinality(S \cup {u}) = Cardinality(S) + 1
  BY FS_AddElement
<1>3. u \in S => Cardinality(S \ {u}) = Cardinality(S) - 1
  BY FS_RemoveElement
<1>4. u \in S => Cardinality(S) > 0
  BY <1>1, FS_EmptySet
<1> QED
  BY <1>1, <1>2, <1>3, <1>4

-----------------------------------------------------------------------------
(* Type correctness.                                                       *)

LEMMA TypeStep ==
  ASSUME TypeOK, CallInv, MemoryInv, [Next]_vars
  PROVE  TypeOK'
<1> USE PoolAssumption DEF TypeOK, Labels, CallInv
<1>1. ASSUME NEW u \in Users, pxGetNetworkBufferWithDescriptor(u)
      PROVE  TypeOK'
  BY <1>1 DEF pxGetNetworkBufferWithDescriptor, Goto
<1>2. ASSUME NEW u \in Users, TakeSemaphore(u)
      PROVE  TypeOK'
  BY <1>2 DEF TakeSemaphore, Goto
<1>3. ASSUME NEW u \in Users, TakeTimesOut(u)
      PROVE  TypeOK'
  BY <1>3 DEF TakeTimesOut, Goto
<1>4. ASSUME NEW u \in Users, UnlinkHead(u)
      PROVE  TypeOK'
  BY <1>4 DEF UnlinkHead, Goto
<1>5. ASSUME NEW u \in Users, ReturnStatic(u)
      PROVE  TypeOK'
  BY <1>5 DEF ReturnStatic, Goto
<1>6. ASSUME NEW u \in Users, Allocate(u)
      PROVE  TypeOK'
  BY <1>6 DEF Allocate, Goto
<1>7. ASSUME NEW u \in Users, AllocateFails(u)
      PROVE  TypeOK'
  BY <1>7 DEF AllocateFails, Goto
<1>8. ASSUME NEW u \in Users, vReleaseNetworkBufferAndDescriptor(u)
      PROVE  TypeOK'
  BY <1>8 DEF vReleaseNetworkBufferAndDescriptor, Goto
<1>9. ASSUME NEW u \in Users, FreeStorage(u)
      PROVE  TypeOK'
  BY <1>9 DEF FreeStorage, Goto
<1>10. ASSUME NEW u \in Users, InsertEnd(u)
       PROVE  TypeOK'
  <2>1. pxDesc[u] \in Descriptors
    BY <1>10 DEF InsertEnd
  <2>2. Append(xFreeBuffersList, pxDesc[u]) \in Seq(Descriptors)
    BY <2>1
  <2> QED
    BY <1>10, <2>2 DEF InsertEnd, Goto
<1>11. ASSUME NEW u \in Users, GiveSemaphore(u)
       PROVE  TypeOK'
  BY <1>11 DEF GiveSemaphore, Goto
<1>12. ASSUME NEW u \in Users, pucGetNetworkBuffer(u)
       PROVE  TypeOK'
  BY <1>12 DEF pucGetNetworkBuffer, Goto
<1>13. ASSUME NEW u \in Users, vReleaseNetworkBuffer(u)
       PROVE  TypeOK'
  BY <1>13 DEF vReleaseNetworkBuffer, Goto
<1>14. ASSUME NEW u \in Users, pxResizeNetworkBufferWithDescriptor(u)
       PROVE  TypeOK'
  BY <1>14 DEF pxResizeNetworkBufferWithDescriptor, Goto
<1>15. ASSUME NEW u \in Users, ResizeSwap(u)
       PROVE  TypeOK'
  <2>1. pxDesc[u] \in Descriptors /\ pucEthernetBuffer[pxDesc[u]] \in Blocks
    BY <1>15 DEF ResizeSwap, MemoryInv
  <2> QED
    BY <1>15, <2>1 DEF ResizeSwap, Goto
<1>16. ASSUME NEW u \in Users, Detach(u)
       PROVE  TypeOK'
  BY <1>16 DEF Detach, Goto
<1>17. ASSUME NEW u \in Users, Exchange(u)
       PROVE  TypeOK'
  BY <1>17 DEF Exchange, Goto
<1>18. ASSUME NEW u \in Users, NEW v \in Users, Pass(u, v)
       PROVE  TypeOK'
  BY <1>18 DEF Pass
<1>19. CASE UNCHANGED vars
  BY <1>19 DEF vars
<1> QED
  BY <1>1, <1>2, <1>3, <1>4, <1>5, <1>6, <1>7, <1>8, <1>9, <1>10, <1>11, <1>12, <1>13, <1>14, <1>15, <1>16, <1>17, <1>18, <1>19 DEF Next, UserStep

LEMMA CallStep ==
  ASSUME TypeOK, CallInv, [Next]_vars
  PROVE  CallInv'
<1> USE PoolAssumption DEF TypeOK, Labels, CallInv
<1>1. ASSUME NEW u \in Users, pxGetNetworkBufferWithDescriptor(u)
      PROVE  CallInv'
  BY <1>1 DEF pxGetNetworkBufferWithDescriptor, Goto
<1>2. ASSUME NEW u \in Users, TakeSemaphore(u)
      PROVE  CallInv'
  BY <1>2 DEF TakeSemaphore, Goto
<1>3. ASSUME NEW u \in Users, TakeTimesOut(u)
      PROVE  CallInv'
  BY <1>3 DEF TakeTimesOut, Goto
<1>4. ASSUME NEW u \in Users, UnlinkHead(u)
      PROVE  CallInv'
  BY <1>4 DEF UnlinkHead, Goto
<1>5. ASSUME NEW u \in Users, ReturnStatic(u)
      PROVE  CallInv'
  BY <1>5 DEF ReturnStatic, Goto
<1>6. ASSUME NEW u \in Users, Allocate(u)
      PROVE  CallInv'
  BY <1>6 DEF Allocate, Goto
<1>7. ASSUME NEW u \in Users, AllocateFails(u)
      PROVE  CallInv'
  BY <1>7 DEF AllocateFails, Goto
<1>8. ASSUME NEW u \in Users, vReleaseNetworkBufferAndDescriptor(u)
      PROVE  CallInv'
  BY <1>8 DEF vReleaseNetworkBufferAndDescriptor, Goto
<1>9. ASSUME NEW u \in Users, FreeStorage(u)
      PROVE  CallInv'
  BY <1>9 DEF FreeStorage, Goto
<1>10. ASSUME NEW u \in Users, InsertEnd(u)
       PROVE  CallInv'
  BY <1>10 DEF InsertEnd, Goto
<1>11. ASSUME NEW u \in Users, GiveSemaphore(u)
       PROVE  CallInv'
  BY <1>11 DEF GiveSemaphore, Goto
<1>12. ASSUME NEW u \in Users, pucGetNetworkBuffer(u)
       PROVE  CallInv'
  BY <1>12 DEF pucGetNetworkBuffer, Goto
<1>13. ASSUME NEW u \in Users, vReleaseNetworkBuffer(u)
       PROVE  CallInv'
  BY <1>13 DEF vReleaseNetworkBuffer, Goto
<1>14. ASSUME NEW u \in Users, pxResizeNetworkBufferWithDescriptor(u)
       PROVE  CallInv'
  BY <1>14 DEF pxResizeNetworkBufferWithDescriptor, Goto
<1>15. ASSUME NEW u \in Users, ResizeSwap(u)
       PROVE  CallInv'
  BY <1>15 DEF ResizeSwap, Goto
<1>16. ASSUME NEW u \in Users, Detach(u)
       PROVE  CallInv'
  BY <1>16 DEF Detach, Goto
<1>17. ASSUME NEW u \in Users, Exchange(u)
       PROVE  CallInv'
  BY <1>17 DEF Exchange, Goto
<1>18. ASSUME NEW u \in Users, NEW v \in Users, Pass(u, v)
       PROVE  CallInv'
  BY <1>18 DEF Pass
<1>19. CASE UNCHANGED vars
  BY <1>19 DEF vars
<1> QED
  BY <1>1, <1>2, <1>3, <1>4, <1>5, <1>6, <1>7, <1>8, <1>9, <1>10, <1>11, <1>12, <1>13, <1>14, <1>15, <1>16, <1>17, <1>18, <1>19 DEF Next, UserStep

-----------------------------------------------------------------------------
(* A descriptor is in one place.                                           *)

LEMMA DescriptorStep ==
  ASSUME TypeOK, CallInv, EveryDescriptorOnce, [Next]_vars
  PROVE  EveryDescriptorOnce'
<1> USE PoolAssumption DEF TypeOK, Labels, CallInv, EveryDescriptorOnce, InCall
<1>1. ASSUME NEW u \in Users, pxGetNetworkBufferWithDescriptor(u)
      PROVE  EveryDescriptorOnce'
  BY <1>1 DEF pxGetNetworkBufferWithDescriptor, Goto, Listed
<1>2. ASSUME NEW u \in Users, TakeSemaphore(u)
      PROVE  EveryDescriptorOnce'
  BY <1>2 DEF TakeSemaphore, Goto, Listed
<1>3. ASSUME NEW u \in Users, TakeTimesOut(u)
      PROVE  EveryDescriptorOnce'
  BY <1>3 DEF TakeTimesOut, Goto, Listed
<1>4. ASSUME NEW u \in Users, UnlinkHead(u)
      PROVE  EveryDescriptorOnce'
  <2>1. /\ xFreeBuffersList \in Seq(Descriptors) /\ xFreeBuffersList # <<>>
        /\ NoRepeats(xFreeBuffersList)
    BY <1>4 DEF UnlinkHead
  <2> DEFINE d == Head(xFreeBuffersList)
  <2>2. /\ d \in Descriptors /\ NoRepeats(xFreeBuffersList') /\ d \in Listed
        /\ Listed' = Listed \ {d}
    BY <2>1, TailFacts, <1>4 DEF UnlinkHead, Listed
  <2>3. pxDesc' = [pxDesc EXCEPT ![u] = d] /\ pc' = [pc EXCEPT ![u] = "allocate"]
        /\ held' = held /\ pc[u] = "unlink"
    BY <1>4 DEF UnlinkHead, Goto
  <2> HIDE DEF d
  <2> QED
    BY <2>2, <2>3
<1>5. ASSUME NEW u \in Users, ReturnStatic(u)
      PROVE  EveryDescriptorOnce'
  BY <1>5 DEF ReturnStatic, Goto, Listed
<1>6. ASSUME NEW u \in Users, Allocate(u)
      PROVE  EveryDescriptorOnce'
  BY <1>6 DEF Allocate, Goto, Listed
<1>7. ASSUME NEW u \in Users, AllocateFails(u)
      PROVE  EveryDescriptorOnce'
  BY <1>7 DEF AllocateFails, Goto, Listed
<1>8. ASSUME NEW u \in Users, vReleaseNetworkBufferAndDescriptor(u)
      PROVE  EveryDescriptorOnce'
  BY <1>8 DEF vReleaseNetworkBufferAndDescriptor, Goto, Listed
<1>9. ASSUME NEW u \in Users, FreeStorage(u)
      PROVE  EveryDescriptorOnce'
  BY <1>9 DEF FreeStorage, Goto, Listed
<1>10. ASSUME NEW u \in Users, InsertEnd(u)
       PROVE  EveryDescriptorOnce'
  <2> DEFINE d == pxDesc[u]
  <2>1. d \in Descriptors /\ pc[u] = "insert" /\ d \notin Listed /\ held' = held
    BY <1>10 DEF InsertEnd
  <2>2. /\ xFreeBuffersList' = Append(xFreeBuffersList, d)
        /\ pc' = [pc EXCEPT ![u] = "give"] /\ pxDesc' = pxDesc
    BY <2>1, <1>10 DEF InsertEnd, Goto
  <2>3. NoRepeats(xFreeBuffersList') /\ Listed' = Listed \cup {d}
    BY <2>1, <2>2, AppendFacts DEF Listed
  <2>4. \A v \in Users : v # u /\ InCall(v) => pxDesc[v] # d
    BY <2>1
  <2>5. \A v \in Users : d \notin held[v]
    BY <2>1
  <2>6. \A v \in Users : InCall(v)' <=> (v # u /\ InCall(v))
    BY <2>2
  <2> HIDE DEF d
  <2> QED
    BY <2>1, <2>2, <2>3, <2>4, <2>5, <2>6
<1>11. ASSUME NEW u \in Users, GiveSemaphore(u)
       PROVE  EveryDescriptorOnce'
  BY <1>11 DEF GiveSemaphore, Goto, Listed
<1>12. ASSUME NEW u \in Users, pucGetNetworkBuffer(u)
       PROVE  EveryDescriptorOnce'
  BY <1>12 DEF pucGetNetworkBuffer, Goto, Listed
<1>13. ASSUME NEW u \in Users, vReleaseNetworkBuffer(u)
       PROVE  EveryDescriptorOnce'
  BY <1>13 DEF vReleaseNetworkBuffer, Goto, Listed
<1>14. ASSUME NEW u \in Users, pxResizeNetworkBufferWithDescriptor(u)
       PROVE  EveryDescriptorOnce'
  BY <1>14 DEF pxResizeNetworkBufferWithDescriptor, Goto, Listed
<1>15. ASSUME NEW u \in Users, ResizeSwap(u)
       PROVE  EveryDescriptorOnce'
  BY <1>15 DEF ResizeSwap, Goto, Listed
<1>16. ASSUME NEW u \in Users, Detach(u)
       PROVE  EveryDescriptorOnce'
  BY <1>16 DEF Detach, Goto, Listed
<1>17. ASSUME NEW u \in Users, Exchange(u)
       PROVE  EveryDescriptorOnce'
  BY <1>17 DEF Exchange, Goto, Listed
<1>18. ASSUME NEW u \in Users, NEW v \in Users, Pass(u, v)
       PROVE  EveryDescriptorOnce'
  BY <1>18 DEF Pass, Listed
<1>19. CASE UNCHANGED vars
  BY <1>19 DEF vars, Listed
<1> QED
  BY <1>1, <1>2, <1>3, <1>4, <1>5, <1>6, <1>7, <1>8, <1>9, <1>10, <1>11, <1>12, <1>13, <1>14, <1>15, <1>16, <1>17, <1>18, <1>19 DEF Next, UserStep

-----------------------------------------------------------------------------
(* The semaphore counts the list.                                          *)

LEMMA UsersAreCounted ==
  /\ IsFiniteSet(At("unlink")) /\ IsFiniteSet(At("give"))
  /\ Cardinality(At("unlink")) \in Nat /\ Cardinality(At("give")) \in Nat
<1>1. At("unlink") \subseteq Users /\ At("give") \subseteq Users
  BY DEF At
<1>2. IsFiniteSet(At("unlink")) /\ IsFiniteSet(At("give"))
  BY <1>1, PoolAssumption, FS_Subset
<1> QED
  BY <1>2, FS_CardinalityType

\* A list without repetitions is not longer than there are descriptors.
LEMMA ListIsShort ==
  ASSUME TypeOK, EveryDescriptorOnce
  PROVE  Len(xFreeBuffersList) <= ipconfigNUM_NETWORK_BUFFER_DESCRIPTORS
<1> DEFINE L == xFreeBuffersList
           n == Len(L)
<1>1. n \in Nat /\ L \in [1 .. n -> Descriptors]
  BY DEF TypeOK
<1>2. \A i, j \in 1 .. n : L[i] = L[j] => i = j
  BY DEF EveryDescriptorOnce, NoRepeats
<1>3. IsFiniteSet(Descriptors) /\ Cardinality(Descriptors) = ipconfigNUM_NETWORK_BUFFER_DESCRIPTORS
  BY PoolAssumption, FS_Interval DEF Descriptors
<1>4. IsFiniteSet(1 .. n) /\ Cardinality(1 .. n) = n
  BY <1>1, FS_Interval
<1>5. L \in Injection(1 .. n, Descriptors)
  BY <1>1, <1>2 DEF Injection, IsInjective
<1> HIDE DEF L, n
<1>6. Cardinality(1 .. n) <= Cardinality(Descriptors)
  BY <1>3, <1>4, <1>5, FS_Injection
<1> QED
  BY <1>3, <1>4, <1>6 DEF n, L

LEMMA CountStep ==
  ASSUME TypeOK, CallInv, EveryDescriptorOnce, CountInv, [Next]_vars
  PROVE  CountInv'
<1> USE PoolAssumption DEF TypeOK, Labels, CallInv, CountInv
<1>1. ASSUME NEW u \in Users, pxGetNetworkBufferWithDescriptor(u)
      PROVE  CountInv'
  <2>1. At("unlink")' = At("unlink") /\ At("give")' = At("give")
    BY <1>1 DEF pxGetNetworkBufferWithDescriptor, Goto, At
  <2> QED
    BY <1>1, <2>1 DEF pxGetNetworkBufferWithDescriptor
<1>2. ASSUME NEW u \in Users, TakeSemaphore(u)
      PROVE  CountInv'
  <2>1. At("unlink")' = At("unlink") \cup {u} /\ u \notin At("unlink")
        /\ At("give")' = At("give")
    BY <1>2 DEF TakeSemaphore, Goto, At
  <2>2. /\ xNetworkBufferSemaphore' = xNetworkBufferSemaphore - 1
        /\ xFreeBuffersList' = xFreeBuffersList
    BY <1>2 DEF TakeSemaphore
  <2>3. Cardinality(At("unlink") \cup {u}) = Cardinality(At("unlink")) + 1
    BY <2>1, CountFacts, UsersAreCounted
  <2>4. /\ Cardinality(At("unlink")') = Cardinality(At("unlink")) + 1
        /\ Cardinality(At("give")') = Cardinality(At("give"))
    BY <2>1, <2>3
  <2>5. xNetworkBufferSemaphore \in Int /\ Len(xFreeBuffersList') = Len(xFreeBuffersList)
    BY <2>2
  <2> QED
    BY <2>2, <2>4, <2>5, UsersAreCounted DEF CountInv
<1>3. ASSUME NEW u \in Users, TakeTimesOut(u)
      PROVE  CountInv'
  <2>1. At("unlink")' = At("unlink") /\ At("give")' = At("give")
    BY <1>3 DEF TakeTimesOut, Goto, At
  <2> QED
    BY <1>3, <2>1 DEF TakeTimesOut
<1>4. ASSUME NEW u \in Users, UnlinkHead(u)
      PROVE  CountInv'
  <2>1. At("unlink")' = At("unlink") \ {u} /\ u \in At("unlink")
        /\ At("give")' = At("give")
    BY <1>4 DEF UnlinkHead, Goto, At
  <2>2. Len(xFreeBuffersList') = Len(xFreeBuffersList) - 1
    BY <1>4 DEF UnlinkHead
  <2>3. xNetworkBufferSemaphore' = xNetworkBufferSemaphore
    BY <1>4 DEF UnlinkHead
  <2>4. Cardinality(At("unlink") \ {u}) = Cardinality(At("unlink")) - 1
    BY <2>1, CountFacts, UsersAreCounted
  <2>5. /\ Cardinality(At("unlink")') = Cardinality(At("unlink")) - 1
        /\ Cardinality(At("give")') = Cardinality(At("give"))
    BY <2>1, <2>4
  <2>6. xNetworkBufferSemaphore \in Int /\ Len(xFreeBuffersList) \in Nat
    OBVIOUS
  <2> QED
    BY <2>2, <2>3, <2>5, <2>6, UsersAreCounted DEF CountInv
<1>5. ASSUME NEW u \in Users, ReturnStatic(u)
      PROVE  CountInv'
  <2>1. At("unlink")' = At("unlink") /\ At("give")' = At("give")
    BY <1>5 DEF ReturnStatic, Goto, At
  <2> QED
    BY <1>5, <2>1 DEF ReturnStatic
<1>6. ASSUME NEW u \in Users, Allocate(u)
      PROVE  CountInv'
  <2>1. At("unlink")' = At("unlink") /\ At("give")' = At("give")
    BY <1>6 DEF Allocate, Goto, At
  <2> QED
    BY <1>6, <2>1 DEF Allocate
<1>7. ASSUME NEW u \in Users, AllocateFails(u)
      PROVE  CountInv'
  <2>1. At("unlink")' = At("unlink") /\ At("give")' = At("give")
    BY <1>7 DEF AllocateFails, Goto, At
  <2> QED
    BY <1>7, <2>1 DEF AllocateFails
<1>8. ASSUME NEW u \in Users, vReleaseNetworkBufferAndDescriptor(u)
      PROVE  CountInv'
  <2>1. At("unlink")' = At("unlink") /\ At("give")' = At("give")
    BY <1>8 DEF vReleaseNetworkBufferAndDescriptor, Goto, At
  <2> QED
    BY <1>8, <2>1 DEF vReleaseNetworkBufferAndDescriptor
<1>9. ASSUME NEW u \in Users, FreeStorage(u)
      PROVE  CountInv'
  <2>1. At("unlink")' = At("unlink") /\ At("give")' = At("give")
    BY <1>9 DEF FreeStorage, Goto, At
  <2> QED
    BY <1>9, <2>1 DEF FreeStorage
<1>10. ASSUME NEW u \in Users, InsertEnd(u)
       PROVE  CountInv'
  <2>1. At("give")' = At("give") \cup {u} /\ u \notin At("give")
        /\ At("unlink")' = At("unlink")
    BY <1>10 DEF InsertEnd, Goto, At, EveryDescriptorOnce, InCall
  <2>2. xFreeBuffersList' = Append(xFreeBuffersList, pxDesc[u]) /\ pxDesc[u] \in Descriptors
    BY <1>10 DEF InsertEnd, EveryDescriptorOnce, InCall
  <2>3. Len(xFreeBuffersList') = Len(xFreeBuffersList) + 1
    BY <2>2
  <2>4. xNetworkBufferSemaphore' = xNetworkBufferSemaphore
    BY <1>10 DEF InsertEnd
  <2> QED
    BY <2>1, <2>3, <2>4, CountFacts, UsersAreCounted
<1>11. ASSUME NEW u \in Users, GiveSemaphore(u)
       PROVE  CountInv'
  <2>1. At("give")' = At("give") \ {u} /\ u \in At("give")
        /\ At("unlink")' = At("unlink")
    BY <1>11 DEF GiveSemaphore, Goto, At
  <2>2. xNetworkBufferSemaphore < ipconfigNUM_NETWORK_BUFFER_DESCRIPTORS
    <3>1. Len(xFreeBuffersList) <= ipconfigNUM_NETWORK_BUFFER_DESCRIPTORS
      BY ListIsShort
    <3>2. Cardinality(At("give")) > 0
      BY <2>1, CountFacts, UsersAreCounted
    <3> QED
      BY <3>1, <3>2, UsersAreCounted
  <2>3. /\ xNetworkBufferSemaphore' = xNetworkBufferSemaphore + 1
        /\ xFreeBuffersList' = xFreeBuffersList
    BY <1>11, <2>2 DEF GiveSemaphore
  <2> QED
    BY <2>1, <2>3, CountFacts, UsersAreCounted
<1>12. ASSUME NEW u \in Users, pucGetNetworkBuffer(u)
       PROVE  CountInv'
  <2>1. At("unlink")' = At("unlink") /\ At("give")' = At("give")
    BY <1>12 DEF pucGetNetworkBuffer, Goto, At
  <2> QED
    BY <1>12, <2>1 DEF pucGetNetworkBuffer
<1>13. ASSUME NEW u \in Users, vReleaseNetworkBuffer(u)
       PROVE  CountInv'
  <2>1. At("unlink")' = At("unlink") /\ At("give")' = At("give")
    BY <1>13 DEF vReleaseNetworkBuffer, Goto, At
  <2> QED
    BY <1>13, <2>1 DEF vReleaseNetworkBuffer
<1>14. ASSUME NEW u \in Users, pxResizeNetworkBufferWithDescriptor(u)
       PROVE  CountInv'
  <2>1. At("unlink")' = At("unlink") /\ At("give")' = At("give")
    BY <1>14 DEF pxResizeNetworkBufferWithDescriptor, Goto, At
  <2> QED
    BY <1>14, <2>1 DEF pxResizeNetworkBufferWithDescriptor
<1>15. ASSUME NEW u \in Users, ResizeSwap(u)
       PROVE  CountInv'
  <2>1. At("unlink")' = At("unlink") /\ At("give")' = At("give")
    BY <1>15 DEF ResizeSwap, Goto, At
  <2> QED
    BY <1>15, <2>1 DEF ResizeSwap
<1>16. ASSUME NEW u \in Users, Detach(u)
       PROVE  CountInv'
  <2>1. At("unlink")' = At("unlink") /\ At("give")' = At("give")
    BY <1>16 DEF Detach, Goto, At
  <2> QED
    BY <1>16, <2>1 DEF Detach
<1>17. ASSUME NEW u \in Users, Exchange(u)
       PROVE  CountInv'
  <2>1. At("unlink")' = At("unlink") /\ At("give")' = At("give")
    BY <1>17 DEF Exchange, Goto, At
  <2> QED
    BY <1>17, <2>1 DEF Exchange
<1>18. ASSUME NEW u \in Users, NEW v \in Users, Pass(u, v)
       PROVE  CountInv'
  BY <1>18 DEF Pass, At
<1>19. CASE UNCHANGED vars
  BY <1>19 DEF vars, At
<1> QED
  BY <1>1, <1>2, <1>3, <1>4, <1>5, <1>6, <1>7, <1>8, <1>9, <1>10, <1>11, <1>12, <1>13, <1>14, <1>15, <1>16, <1>17, <1>18, <1>19 DEF Next, UserStep

-----------------------------------------------------------------------------
(* Memory: a free descriptor has none, and a block is in one place.        *)

LEMMA MemoryStep ==
  ASSUME TypeOK, CallInv, EveryDescriptorOnce, MemoryInv, EveryBlockOnce, [Next]_vars
  PROVE  MemoryInv'
<1> USE PoolAssumption DEF TypeOK, Labels, CallInv, MemoryInv
<1>1. ASSUME NEW u \in Users, pxGetNetworkBufferWithDescriptor(u)
      PROVE  MemoryInv'
  BY <1>1 DEF pxGetNetworkBufferWithDescriptor, Goto, Listed, EveryDescriptorOnce, InCall, EveryBlockOnce, NoBlockTwice
<1>2. ASSUME NEW u \in Users, TakeSemaphore(u)
      PROVE  MemoryInv'
  BY <1>2 DEF TakeSemaphore, Goto, Listed, EveryDescriptorOnce, InCall, EveryBlockOnce, NoBlockTwice
<1>3. ASSUME NEW u \in Users, TakeTimesOut(u)
      PROVE  MemoryInv'
  BY <1>3 DEF TakeTimesOut, Goto, Listed, EveryDescriptorOnce, InCall, EveryBlockOnce, NoBlockTwice
<1>4. ASSUME NEW u \in Users, UnlinkHead(u)
      PROVE  MemoryInv'
  <2> DEFINE d == Head(xFreeBuffersList)
  <2>1. d \in Descriptors /\ d \in Listed /\ Listed' = Listed \ {d}
    BY TailFacts, <1>4 DEF UnlinkHead, Listed, EveryDescriptorOnce
  <2>2. pxDesc' = [pxDesc EXCEPT ![u] = d] /\ pc' = [pc EXCEPT ![u] = "allocate"]
        /\ pucEthernetBuffer' = pucEthernetBuffer /\ implementation' = implementation
        /\ heap' = heap /\ raw' = raw
    BY <1>4 DEF UnlinkHead, Goto
  <2> HIDE DEF d
  <2> QED
    BY <2>1, <2>2
<1>5. ASSUME NEW u \in Users, ReturnStatic(u)
      PROVE  MemoryInv'
  BY <1>5 DEF ReturnStatic, Goto, Listed, EveryDescriptorOnce, InCall, EveryBlockOnce, NoBlockTwice
<1>6. ASSUME NEW u \in Users, Allocate(u)
      PROVE  MemoryInv'
  BY <1>6 DEF Allocate, Goto, Listed, EveryDescriptorOnce, InCall, EveryBlockOnce, NoBlockTwice
<1>7. ASSUME NEW u \in Users, AllocateFails(u)
      PROVE  MemoryInv'
  BY <1>7 DEF AllocateFails, Goto, Listed, EveryDescriptorOnce, InCall, EveryBlockOnce, NoBlockTwice
<1>8. ASSUME NEW u \in Users, vReleaseNetworkBufferAndDescriptor(u)
      PROVE  MemoryInv'
  BY <1>8 DEF vReleaseNetworkBufferAndDescriptor, Goto, Listed, EveryDescriptorOnce, InCall, EveryBlockOnce, NoBlockTwice
<1>9. ASSUME NEW u \in Users, FreeStorage(u)
      PROVE  MemoryInv'
  BY <1>9 DEF FreeStorage, Goto, Listed, EveryDescriptorOnce, InCall, EveryBlockOnce, NoBlockTwice
<1>10. ASSUME NEW u \in Users, InsertEnd(u)
       PROVE  MemoryInv'
  <2> DEFINE d == pxDesc[u]
  <2>1. d \in Descriptors /\ pc[u] = "insert" /\ d \notin Listed
    BY <1>10 DEF InsertEnd, EveryDescriptorOnce, InCall
  <2>2. /\ xFreeBuffersList' = Append(xFreeBuffersList, d)
        /\ pc' = [pc EXCEPT ![u] = "give"] /\ pxDesc' = pxDesc
        /\ pucEthernetBuffer' = pucEthernetBuffer /\ implementation' = implementation
        /\ heap' = heap /\ raw' = raw
    BY <2>1, <1>10 DEF InsertEnd, Goto
  <2>3. Listed' = Listed \cup {d}
    BY <2>1, <2>2, AppendFacts DEF Listed, EveryDescriptorOnce
  <2> HIDE DEF d
  <2>4. implementation = "heap" => pucEthernetBuffer[d] = NULL
    BY <2>1 DEF d
  <2> QED
    BY <2>1, <2>2, <2>3, <2>4
<1>11. ASSUME NEW u \in Users, GiveSemaphore(u)
       PROVE  MemoryInv'
  BY <1>11 DEF GiveSemaphore, Goto, Listed, EveryDescriptorOnce, InCall, EveryBlockOnce, NoBlockTwice
<1>12. ASSUME NEW u \in Users, pucGetNetworkBuffer(u)
       PROVE  MemoryInv'
  BY <1>12 DEF pucGetNetworkBuffer, Goto, Listed, EveryDescriptorOnce, InCall, EveryBlockOnce, NoBlockTwice
<1>13. ASSUME NEW u \in Users, vReleaseNetworkBuffer(u)
       PROVE  MemoryInv'
  BY <1>13 DEF vReleaseNetworkBuffer, Goto, Listed, EveryDescriptorOnce, InCall, EveryBlockOnce, NoBlockTwice
<1>14. ASSUME NEW u \in Users, pxResizeNetworkBufferWithDescriptor(u)
       PROVE  MemoryInv'
  BY <1>14 DEF pxResizeNetworkBufferWithDescriptor, Goto, Listed, EveryDescriptorOnce, InCall, EveryBlockOnce, NoBlockTwice
<1>15. ASSUME NEW u \in Users, ResizeSwap(u)
       PROVE  MemoryInv'
  BY <1>15 DEF ResizeSwap, Goto, Listed, EveryDescriptorOnce, InCall, EveryBlockOnce, NoBlockTwice
<1>16. ASSUME NEW u \in Users, Detach(u)
       PROVE  MemoryInv'
  <2>1. \A v \in Users : v # u => held[u] \cap held[v] = {}
    BY DEF EveryDescriptorOnce
  <2> QED
    BY <1>16, <2>1 DEF Detach, Listed
<1>17. ASSUME NEW u \in Users, Exchange(u)
       PROVE  MemoryInv'
  BY <1>17 DEF Exchange, Goto, Listed, EveryDescriptorOnce, InCall, EveryBlockOnce, NoBlockTwice
<1>18. ASSUME NEW u \in Users, NEW v \in Users, Pass(u, v)
       PROVE  MemoryInv'
  BY <1>18 DEF Pass, Listed, EveryDescriptorOnce, InCall, EveryBlockOnce, NoBlockTwice
<1>19. CASE UNCHANGED vars
  BY <1>19 DEF vars, Listed, EveryDescriptorOnce, InCall, EveryBlockOnce, NoBlockTwice
<1> QED
  BY <1>1, <1>2, <1>3, <1>4, <1>5, <1>6, <1>7, <1>8, <1>9, <1>10, <1>11, <1>12, <1>13, <1>14, <1>15, <1>16, <1>17, <1>18, <1>19 DEF Next, UserStep

LEMMA BlockStep ==
  ASSUME TypeOK, CallInv, EveryDescriptorOnce, MemoryInv, EveryBlockOnce, [Next]_vars
  PROVE  EveryBlockOnce'
<1> USE PoolAssumption DEF TypeOK, Labels, CallInv, EveryBlockOnce
<1>1. ASSUME NEW u \in Users, pxGetNetworkBufferWithDescriptor(u)
      PROVE  EveryBlockOnce'
  <2>1. UNCHANGED <<implementation, pucEthernetBuffer, heap, raw, pucBuffer>>
    BY <1>1 DEF pxGetNetworkBufferWithDescriptor
  <2> QED
    BY <2>1 DEF NoBlockTwice, NoBlockLost
<1>2. ASSUME NEW u \in Users, TakeSemaphore(u)
      PROVE  EveryBlockOnce'
  <2>1. UNCHANGED <<implementation, pucEthernetBuffer, heap, raw, pucBuffer>>
    BY <1>2 DEF TakeSemaphore
  <2> QED
    BY <2>1 DEF NoBlockTwice, NoBlockLost
<1>3. ASSUME NEW u \in Users, TakeTimesOut(u)
      PROVE  EveryBlockOnce'
  <2>1. UNCHANGED <<implementation, pucEthernetBuffer, heap, raw, pucBuffer>>
    BY <1>3 DEF TakeTimesOut
  <2> QED
    BY <2>1 DEF NoBlockTwice, NoBlockLost
<1>4. ASSUME NEW u \in Users, UnlinkHead(u)
      PROVE  EveryBlockOnce'
  <2>1. UNCHANGED <<implementation, pucEthernetBuffer, heap, raw, pucBuffer>>
    BY <1>4 DEF UnlinkHead
  <2> QED
    BY <2>1 DEF NoBlockTwice, NoBlockLost
<1>5. ASSUME NEW u \in Users, ReturnStatic(u)
      PROVE  EveryBlockOnce'
  <2>1. UNCHANGED <<implementation, pucEthernetBuffer, heap, raw, pucBuffer>>
    BY <1>5 DEF ReturnStatic
  <2> QED
    BY <2>1 DEF NoBlockTwice, NoBlockLost
<1>6. ASSUME NEW u \in Users, Allocate(u)
      PROVE  EveryBlockOnce'
  <2>1. NoBlockTwice'
    BY <1>6 DEF Allocate, Goto, MemoryInv, NoBlockTwice
  <2>2. NoBlockLost'
    BY <1>6 DEF Allocate, Goto, MemoryInv, NoBlockTwice, NoBlockLost
  <2> QED
    BY <2>1, <2>2
<1>7. ASSUME NEW u \in Users, AllocateFails(u)
      PROVE  EveryBlockOnce'
  <2>1. UNCHANGED <<implementation, pucEthernetBuffer, heap, raw, pucBuffer>>
    BY <1>7 DEF AllocateFails
  <2> QED
    BY <2>1 DEF NoBlockTwice, NoBlockLost
<1>8. ASSUME NEW u \in Users, vReleaseNetworkBufferAndDescriptor(u)
      PROVE  EveryBlockOnce'
  <2>1. UNCHANGED <<implementation, pucEthernetBuffer, heap, raw, pucBuffer>>
    BY <1>8 DEF vReleaseNetworkBufferAndDescriptor
  <2> QED
    BY <2>1 DEF NoBlockTwice, NoBlockLost
<1>9. ASSUME NEW u \in Users, FreeStorage(u)
      PROVE  EveryBlockOnce'
  <2>1. NoBlockTwice'
    BY <1>9 DEF FreeStorage, Goto, MemoryInv, NoBlockTwice
  <2>2. NoBlockLost'
    BY <1>9 DEF FreeStorage, Goto, MemoryInv, NoBlockTwice, NoBlockLost
  <2> QED
    BY <2>1, <2>2
<1>10. ASSUME NEW u \in Users, InsertEnd(u)
       PROVE  EveryBlockOnce'
  <2>1. UNCHANGED <<implementation, pucEthernetBuffer, heap, raw, pucBuffer>>
    BY <1>10 DEF InsertEnd
  <2> QED
    BY <2>1 DEF NoBlockTwice, NoBlockLost
<1>11. ASSUME NEW u \in Users, GiveSemaphore(u)
       PROVE  EveryBlockOnce'
  <2>1. UNCHANGED <<implementation, pucEthernetBuffer, heap, raw, pucBuffer>>
    BY <1>11 DEF GiveSemaphore
  <2> QED
    BY <2>1 DEF NoBlockTwice, NoBlockLost
<1>12. ASSUME NEW u \in Users, pucGetNetworkBuffer(u)
       PROVE  EveryBlockOnce'
  BY <1>12 DEF pucGetNetworkBuffer, Goto, MemoryInv, NoBlockTwice, NoBlockLost
<1>13. ASSUME NEW u \in Users, vReleaseNetworkBuffer(u)
       PROVE  EveryBlockOnce'
  BY <1>13 DEF vReleaseNetworkBuffer, Goto, MemoryInv, NoBlockTwice, NoBlockLost
<1>14. ASSUME NEW u \in Users, pxResizeNetworkBufferWithDescriptor(u)
       PROVE  EveryBlockOnce'
  BY <1>14 DEF pxResizeNetworkBufferWithDescriptor, Goto, MemoryInv, NoBlockTwice, NoBlockLost
<1>15. ASSUME NEW u \in Users, ResizeSwap(u)
       PROVE  EveryBlockOnce'
  <2>1. NoBlockTwice'
    BY <1>15 DEF ResizeSwap, Goto, MemoryInv, NoBlockTwice
  <2>2. NoBlockLost'
    BY <1>15 DEF ResizeSwap, Goto, MemoryInv, NoBlockTwice, NoBlockLost
  <2> QED
    BY <2>1, <2>2
<1>16. ASSUME NEW u \in Users, Detach(u)
       PROVE  EveryBlockOnce'
  <2>1. NoBlockTwice'
    BY <1>16 DEF Detach, Goto, MemoryInv, NoBlockTwice
  <2>2. NoBlockLost'
    BY <1>16 DEF Detach, Goto, MemoryInv, NoBlockTwice, NoBlockLost
  <2> QED
    BY <2>1, <2>2
<1>17. ASSUME NEW u \in Users, Exchange(u)
       PROVE  EveryBlockOnce'
  <2>1. NoBlockTwice'
    BY <1>17 DEF Exchange, Goto, MemoryInv, NoBlockTwice
  <2>2. NoBlockLost'
    BY <1>17 DEF Exchange, Goto, MemoryInv, NoBlockTwice, NoBlockLost
  <2> QED
    BY <2>1, <2>2
<1>18. ASSUME NEW u \in Users, NEW v \in Users, Pass(u, v)
       PROVE  EveryBlockOnce'
  BY <1>18 DEF Pass, MemoryInv, NoBlockTwice, NoBlockLost
<1>19. CASE UNCHANGED vars
  BY <1>19 DEF vars, MemoryInv, NoBlockTwice, NoBlockLost
<1> QED
  BY <1>1, <1>2, <1>3, <1>4, <1>5, <1>6, <1>7, <1>8, <1>9, <1>10, <1>11, <1>12, <1>13, <1>14, <1>15, <1>16, <1>17, <1>18, <1>19 DEF Next, UserStep

-----------------------------------------------------------------------------
(* The theorems.                                                           *)

LEMMA InitInv == ASSUME Init PROVE Inv
<1> USE PoolAssumption DEF Init
<1> DEFINE n == ipconfigNUM_NETWORK_BUFFER_DESCRIPTORS
<1>1. /\ xFreeBuffersList \in Seq(Descriptors) /\ Len(xFreeBuffersList) = n
      /\ \A i \in 1 .. n : xFreeBuffersList[i] = i - 1
  BY DEF Descriptors
<1>2. TypeOK
  BY <1>1 DEF TypeOK, Labels
<1>3. CallInv
  BY DEF CallInv
<1>4. Listed = Descriptors
  <2>1. ASSUME NEW d \in Descriptors PROVE d \in Listed
    <3>1. d + 1 \in 1 .. n /\ xFreeBuffersList[d + 1] = d
      BY <1>1 DEF Descriptors
    <3> QED
      BY <1>1, <3>1 DEF Listed, Elements
  <2>2. Listed \subseteq Descriptors
    BY <1>1 DEF Listed, Elements, Descriptors
  <2> QED
    BY <2>1, <2>2
<1>5. EveryDescriptorOnce
  BY <1>1, <1>4 DEF EveryDescriptorOnce, NoRepeats, InCall
<1>6. CountInv
  <2>1. At("unlink") = {} /\ At("give") = {}
    BY DEF At
  <2>2. Cardinality(At("unlink")) = 0 /\ Cardinality(At("give")) = 0
    BY <2>1, FS_EmptySet
  <2>3. n \in Nat /\ xNetworkBufferSemaphore = n /\ Len(xFreeBuffersList) = n
    BY <1>1
  <2> QED
    BY <2>2, <2>3 DEF CountInv
<1>7. MemoryInv
  BY <1>4 DEF MemoryInv
<1>8. EveryBlockOnce
  BY DEF EveryBlockOnce, NoBlockTwice, NoBlockLost
<1> QED
  BY <1>2, <1>3, <1>5, <1>6, <1>7, <1>8 DEF Inv

LEMMA InvStep == ASSUME Inv, [Next]_vars PROVE Inv'
BY TypeStep, CallStep, DescriptorStep, CountStep, MemoryStep, BlockStep DEF Inv

\* The invariant below all of them is inductive: each step of each call keeps
\* it, in both implementations.
THEOREM Invariance == Spec => []Inv
<1>1. Init => Inv
  BY InitInv
<1>2. Inv /\ [Next]_vars => Inv'
  BY InvStep
<1> QED
  BY <1>1, <1>2, PTL DEF Spec

\* Every variable of both implementations keeps its type; in particular the
\* semaphore never counts more than there are descriptors.
THEOREM TypeCorrect == Spec => []TypeOK
<1>1. Inv => TypeOK
  BY DEF Inv
<1> QED
  BY <1>1, Invariance, PTL

\* Whoever took the semaphore finds a descriptor at the head of the list.
THEOREM HeadExists == Spec => []SemaphoreIsCovered
<1>1. ASSUME Inv PROVE SemaphoreIsCovered
  <2> SUFFICES ASSUME NEW u \in Users, pc[u] = "unlink" PROVE xFreeBuffersList # <<>>
    BY DEF SemaphoreIsCovered
  <2>1. u \in At("unlink")
    BY DEF At
  <2>2. Cardinality(At("unlink")) > 0
    BY <2>1, CountFacts, UsersAreCounted
  <2>3. Len(xFreeBuffersList) > 0
    BY <1>1, <2>2, UsersAreCounted DEF Inv, CountInv, TypeOK
  <2> QED
    BY <2>3
<1> QED
  BY <1>1, Invariance, PTL

\* No descriptor is lost or is in two places at once.
THEOREM DescriptorsAreKept == Spec => []EveryDescriptorOnce
<1>1. Inv => EveryDescriptorOnce
  BY DEF Inv
<1> QED
  BY <1>1, Invariance, PTL

\* The assertion of pxGetNetworkBufferWithDescriptor never fails.
THEOREM AssertionHolds == Spec => []UnlinkedHasNoMemory
<1>1. Inv => UnlinkedHasNoMemory
  BY DEF Inv, MemoryInv, UnlinkedHasNoMemory
<1> QED
  BY <1>1, Invariance, PTL

\* No block is lost, freed twice or freed while it can be reached.
THEOREM BlocksAreKept == Spec => []EveryBlockOnce
<1>1. Inv => EveryBlockOnce
  BY DEF Inv
<1> QED
  BY <1>1, Invariance, PTL

-----------------------------------------------------------------------------
(* Both implementations are the abstract pool.                             *)

\* What a step does to the memory the abstract pool sees.
LEMMA StorageFacts ==
  /\ DOMAIN Storage = Descriptors
  /\ \A d \in Descriptors :
       /\ (\E u \in Users : d \in held[u]) => Storage[d] = pucEthernetBuffer[d]
       /\ ~(\E u \in Users : d \in held[u]) => Storage[d] = NULL
BY DEF Storage

LEMMA PoolInit == ASSUME Init PROVE Pool!Init
BY DEF Init, Pool!Init, Storage

\* A call that ends with a descriptor: it was free and its block unused.
LEMMA PoolGet ==
  ASSUME Inv, NEW u \in Users, NEW d \in Descriptors, NEW b \in Blocks,
         pxDesc[u] = d, pc[u] = "allocate",
         \/ implementation = "heap" /\ b \in heap
         \/ implementation = "static" /\ b = pucEthernetBuffer[d],
         held' = [held EXCEPT ![u] = @ \cup {d}],
         raw' = raw,
         pucEthernetBuffer' = [pucEthernetBuffer EXCEPT ![d] = b]
  PROVE  Pool!Get(u)
<1>1. \A v \in Users : d \notin held[v]
  BY DEF Inv, EveryDescriptorOnce, InCall
<1>2. d \in Pool!Free
  BY <1>1 DEF Pool!Free
<1>3. /\ held \in [Users -> SUBSET Descriptors]
      /\ pucEthernetBuffer \in [Descriptors -> Blocks \cup {NULL}]
      /\ NULL \notin Blocks
  BY PoolAssumption DEF Inv, TypeOK
<1>4. \A e \in Descriptors : Storage[e] # b
  <2>1. \A e \in Descriptors : Storage[e] # NULL => e # d /\ Storage[e] = pucEthernetBuffer[e]
    BY <1>1, StorageFacts
  <2>2. \A e \in Descriptors : e # d => pucEthernetBuffer[e] # b
    BY PoolAssumption DEF Inv, EveryBlockOnce, NoBlockTwice, MemoryInv
  <2> QED
    BY <2>1, <2>2, <1>3
<1>5. \A v \in Users : b \notin raw[v]
  BY DEF Inv, EveryBlockOnce, NoBlockTwice, MemoryInv
<1>6. b \in Pool!Unused
  BY <1>4, <1>5 DEF Pool!Unused
<1>7. Storage' = [Storage EXCEPT ![d] = b]
  BY <1>1, <1>3 DEF Storage
<1> QED
  BY <1>2, <1>6, <1>7 DEF Pool!Get

LEMMA PoolStep ==
  ASSUME Inv, [Next]_vars
  PROVE  [Pool!Next]_(Pool!poolVars)
<1>1. ASSUME NEW u \in Users, pxGetNetworkBufferWithDescriptor(u)
      PROVE  [Pool!Next]_(Pool!poolVars)
  <2>1. UNCHANGED <<held, raw, pucEthernetBuffer>>
    BY <1>1 DEF pxGetNetworkBufferWithDescriptor
  <2> QED
    BY <2>1 DEF Pool!poolVars, Storage
<1>2. ASSUME NEW u \in Users, TakeSemaphore(u)
      PROVE  [Pool!Next]_(Pool!poolVars)
  <2>1. UNCHANGED <<held, raw, pucEthernetBuffer>>
    BY <1>2 DEF TakeSemaphore
  <2> QED
    BY <2>1 DEF Pool!poolVars, Storage
<1>3. ASSUME NEW u \in Users, TakeTimesOut(u)
      PROVE  [Pool!Next]_(Pool!poolVars)
  <2>1. UNCHANGED <<held, raw, pucEthernetBuffer>>
    BY <1>3 DEF TakeTimesOut
  <2> QED
    BY <2>1 DEF Pool!poolVars, Storage
<1>4. ASSUME NEW u \in Users, UnlinkHead(u)
      PROVE  [Pool!Next]_(Pool!poolVars)
  <2>1. UNCHANGED <<held, raw, pucEthernetBuffer>>
    BY <1>4 DEF UnlinkHead
  <2> QED
    BY <2>1 DEF Pool!poolVars, Storage
<1>5. ASSUME NEW u \in Users, ReturnStatic(u)
      PROVE  [Pool!Next]_(Pool!poolVars)
  <2> DEFINE d == pxDesc[u]
  <2>1. d \in Descriptors /\ pc[u] = "allocate" /\ implementation = "static"
    BY <1>5 DEF ReturnStatic, Inv, CallInv
  <2>2. pucEthernetBuffer[d] \in Blocks
    BY <2>1, PoolAssumption DEF Inv, MemoryInv
  <2>3. /\ held' = [held EXCEPT ![u] = @ \cup {d}] /\ raw' = raw
        /\ pucEthernetBuffer' = [pucEthernetBuffer EXCEPT ![d] = pucEthernetBuffer[d]]
    BY <1>5, <2>1 DEF ReturnStatic, Inv, TypeOK
  <2>4. Pool!Get(u)
    BY <2>1, <2>2, <2>3, PoolGet
  <2> QED
    BY <2>4 DEF Pool!Next
<1>6. ASSUME NEW u \in Users, Allocate(u)
      PROVE  [Pool!Next]_(Pool!poolVars)
  <2> DEFINE d == pxDesc[u]
  <2>1. d \in Descriptors /\ pc[u] = "allocate" /\ implementation = "heap"
    BY <1>6 DEF Allocate, Inv, CallInv
  <2>2. PICK b \in heap : pucEthernetBuffer' = [pucEthernetBuffer EXCEPT ![d] = b]
    BY <1>6 DEF Allocate
  <2>3. b \in Blocks /\ held' = [held EXCEPT ![u] = @ \cup {d}] /\ raw' = raw
    BY <1>6 DEF Allocate, Inv, TypeOK
  <2>4. Pool!Get(u)
    BY <2>1, <2>2, <2>3, PoolGet
  <2> QED
    BY <2>4 DEF Pool!Next
<1>7. ASSUME NEW u \in Users, AllocateFails(u)
      PROVE  [Pool!Next]_(Pool!poolVars)
  <2>1. UNCHANGED <<held, raw, pucEthernetBuffer>>
    BY <1>7 DEF AllocateFails
  <2> QED
    BY <2>1 DEF Pool!poolVars, Storage
<1>8. ASSUME NEW u \in Users, vReleaseNetworkBufferAndDescriptor(u)
      PROVE  [Pool!Next]_(Pool!poolVars)
  <2>1. PICK d \in held[u] : held' = [held EXCEPT ![u] = @ \ {d}]
    BY <1>8 DEF vReleaseNetworkBufferAndDescriptor
  <2>2. /\ d \in Descriptors /\ held \in [Users -> SUBSET Descriptors]
        /\ pucEthernetBuffer' = pucEthernetBuffer /\ raw' = raw
    BY <1>8 DEF vReleaseNetworkBufferAndDescriptor, Inv, TypeOK
  <2>3. \A v \in Users : v # u => d \notin held[v]
    BY DEF Inv, EveryDescriptorOnce
  <2>4. Storage' = [Storage EXCEPT ![d] = NULL]
    BY <2>1, <2>2, <2>3 DEF Storage
  <2>5. Pool!Release(u)
    BY <2>1, <2>2, <2>4 DEF Pool!Release
  <2> QED
    BY <2>5 DEF Pool!Next
<1>9. ASSUME NEW u \in Users, FreeStorage(u)
      PROVE  [Pool!Next]_(Pool!poolVars)
  <2> DEFINE d == pxDesc[u]
  <2>1. d \in Descriptors /\ \A v \in Users : d \notin held[v]
    BY <1>9 DEF FreeStorage, Inv, CallInv, EveryDescriptorOnce, InCall
  <2>2. /\ pucEthernetBuffer' = [pucEthernetBuffer EXCEPT ![d] = NULL]
        /\ held' = held /\ raw' = raw
    BY <1>9 DEF FreeStorage
  <2>3. pucEthernetBuffer \in [Descriptors -> Blocks \cup {NULL}]
    BY DEF Inv, TypeOK
  <2>4. Storage' = Storage
    BY <2>1, <2>2, <2>3 DEF Storage
  <2> QED
    BY <2>2, <2>4 DEF Pool!poolVars
<1>10. ASSUME NEW u \in Users, InsertEnd(u)
       PROVE  [Pool!Next]_(Pool!poolVars)
  <2>1. UNCHANGED <<held, raw, pucEthernetBuffer>>
    BY <1>10 DEF InsertEnd
  <2> QED
    BY <2>1 DEF Pool!poolVars, Storage
<1>11. ASSUME NEW u \in Users, GiveSemaphore(u)
       PROVE  [Pool!Next]_(Pool!poolVars)
  <2>1. UNCHANGED <<held, raw, pucEthernetBuffer>>
    BY <1>11 DEF GiveSemaphore
  <2> QED
    BY <2>1 DEF Pool!poolVars, Storage
<1>12. ASSUME NEW u \in Users, pucGetNetworkBuffer(u)
       PROVE  [Pool!Next]_(Pool!poolVars)
  <2>1. PICK b \in heap : raw' = [raw EXCEPT ![u] = @ \cup {b}]
    BY <1>12 DEF pucGetNetworkBuffer
  <2>2. b \in Blocks /\ b # NULL /\ held' = held /\ pucEthernetBuffer' = pucEthernetBuffer
    BY <1>12, PoolAssumption DEF pucGetNetworkBuffer, Inv, TypeOK
  <2>3. \A d \in Descriptors : pucEthernetBuffer[d] # b
    BY DEF Inv, EveryBlockOnce, NoBlockTwice
  <2>4. \A d \in Descriptors : Storage[d] # b
    BY <2>2, <2>3, StorageFacts
  <2>5. \A v \in Users : b \notin raw[v]
    BY DEF Inv, EveryBlockOnce, NoBlockTwice
  <2>6. b \in Pool!Unused
    BY <2>2, <2>4, <2>5 DEF Pool!Unused
  <2>7. Storage' = Storage
    BY <2>2 DEF Storage
  <2>8. Pool!GetBlock(u)
    BY <2>1, <2>2, <2>6, <2>7 DEF Pool!GetBlock
  <2> QED
    BY <2>8 DEF Pool!Next
<1>13. ASSUME NEW u \in Users, vReleaseNetworkBuffer(u)
       PROVE  [Pool!Next]_(Pool!poolVars)
  <2>1. PICK b \in raw[u] : raw' = [raw EXCEPT ![u] = @ \ {b}]
    BY <1>13 DEF vReleaseNetworkBuffer
  <2>2. held' = held /\ Storage' = Storage
    BY <1>13 DEF vReleaseNetworkBuffer, Storage
  <2>3. Pool!ReleaseBlock(u)
    BY <2>1, <2>2 DEF Pool!ReleaseBlock
  <2> QED
    BY <2>3 DEF Pool!Next
<1>14. ASSUME NEW u \in Users, pxResizeNetworkBufferWithDescriptor(u)
       PROVE  [Pool!Next]_(Pool!poolVars)
  <2>1. UNCHANGED <<held, raw, pucEthernetBuffer>>
    BY <1>14 DEF pxResizeNetworkBufferWithDescriptor
  <2> QED
    BY <2>1 DEF Pool!poolVars, Storage
<1>15. ASSUME NEW u \in Users, ResizeSwap(u)
       PROVE  [Pool!Next]_(Pool!poolVars)
  <2> DEFINE d == pxDesc[u]
             b == pucBuffer[u]
  <2>1. d \in held[u] /\ d \in Descriptors /\ b \in Blocks /\ b # NULL
    BY <1>15, PoolAssumption DEF ResizeSwap, Inv, CallInv
  <2>2. /\ pucEthernetBuffer' = [pucEthernetBuffer EXCEPT ![d] = b]
        /\ held' = held /\ raw' = raw
    BY <1>15 DEF ResizeSwap
  <2>3. \A e \in Descriptors : pucEthernetBuffer[e] # b
    BY <2>1 DEF Inv, EveryBlockOnce, NoBlockTwice
  <2>4. \A e \in Descriptors : Storage[e] # b
    BY <2>1, <2>3, StorageFacts
  <2>5. \A v \in Users : b \notin raw[v]
    BY DEF Inv, EveryBlockOnce, NoBlockTwice
  <2>6. b \in Pool!Unused
    BY <2>1, <2>4, <2>5 DEF Pool!Unused
  <2>7. pucEthernetBuffer \in [Descriptors -> Blocks \cup {NULL}]
    BY DEF Inv, TypeOK
  <2> HIDE DEF d, b
  <2>8. Storage' = [Storage EXCEPT ![d] = b]
    BY <2>1, <2>2, <2>7 DEF Storage
  <2>9. Pool!Resize(u)
    BY <2>1, <2>2, <2>6, <2>8 DEF Pool!Resize
  <2> QED
    BY <2>9 DEF Pool!Next
<1>16. ASSUME NEW u \in Users, Detach(u)
       PROVE  [Pool!Next]_(Pool!poolVars)
  <2>1. PICK d \in held[u] :
          /\ pucEthernetBuffer[d] # NULL
          /\ raw' = [raw EXCEPT ![u] = @ \cup {pucEthernetBuffer[d]}]
          /\ pucEthernetBuffer' = [pucEthernetBuffer EXCEPT ![d] = NULL]
    BY <1>16 DEF Detach
  <2>2. /\ d \in Descriptors /\ held' = held
        /\ pucEthernetBuffer \in [Descriptors -> Blocks \cup {NULL}]
    BY <1>16 DEF Detach, Inv, TypeOK
  <2>3. Storage[d] = pucEthernetBuffer[d]
    BY <2>1, <2>2, StorageFacts
  <2>4. Storage' = [Storage EXCEPT ![d] = NULL]
    BY <2>1, <2>2 DEF Storage
  <2>5. Pool!Detach(u)
    BY <2>1, <2>2, <2>3, <2>4 DEF Pool!Detach
  <2> QED
    BY <2>5 DEF Pool!Next
<1>17. ASSUME NEW u \in Users, Exchange(u)
       PROVE  [Pool!Next]_(Pool!poolVars)
  <2>1. PICK d \in held[u], b \in raw[u] :
          /\ pucEthernetBuffer[d] # NULL
          /\ raw' = [raw EXCEPT ![u] = (@ \ {b}) \cup {pucEthernetBuffer[d]}]
          /\ pucEthernetBuffer' = [pucEthernetBuffer EXCEPT ![d] = b]
    BY <1>17 DEF Exchange
  <2>2. /\ d \in Descriptors /\ held' = held
        /\ pucEthernetBuffer \in [Descriptors -> Blocks \cup {NULL}]
    BY <1>17 DEF Exchange, Inv, TypeOK
  <2>3. Storage[d] = pucEthernetBuffer[d]
    BY <2>1, <2>2, StorageFacts
  <2>4. Storage' = [Storage EXCEPT ![d] = b]
    BY <2>1, <2>2 DEF Storage
  <2>5. Pool!Exchange(u)
    BY <2>1, <2>2, <2>3, <2>4 DEF Pool!Exchange
  <2> QED
    BY <2>5 DEF Pool!Next
<1>18. ASSUME NEW u \in Users, NEW v \in Users, Pass(u, v)
       PROVE  [Pool!Next]_(Pool!poolVars)
  <2>1. PICK d \in held[u] : held' = [held EXCEPT ![u] = @ \ {d}, ![v] = @ \cup {d}]
    BY <1>18 DEF Pass
  <2>2. u # v /\ raw' = raw /\ pucEthernetBuffer' = pucEthernetBuffer
    BY <1>18 DEF Pass
  <2>3. held \in [Users -> SUBSET Descriptors]
    BY DEF Inv, TypeOK
  <2>4. \A e \in Descriptors :
          (\E w \in Users : e \in held'[w]) <=> (\E w \in Users : e \in held[w])
    BY <2>1, <2>2, <2>3
  <2>5. Storage' = Storage
    BY <2>2, <2>4 DEF Storage
  <2>6. Pool!Pass(u, v)
    BY <2>1, <2>2, <2>5 DEF Pool!Pass
  <2> QED
    BY <2>2, <2>6 DEF Pool!Next
<1>19. CASE UNCHANGED vars
  BY <1>19 DEF vars, Pool!poolVars, Storage
<1> QED
  BY <1>1, <1>2, <1>3, <1>4, <1>5, <1>6, <1>7, <1>8, <1>9, <1>10, <1>11, <1>12, <1>13, <1>14, <1>15, <1>16, <1>17, <1>18, <1>19 DEF Next, UserStep

\* The two files of buffer management, with their semaphore, their list and
\* their calls that interleave, keep the promise of BufferPool.
THEOREM PoolRefinement == Spec => ImplementsPool
<1>1. Init => Pool!Init
  BY PoolInit
<1>2. Inv /\ [Next]_vars => [Pool!Next]_(Pool!poolVars)
  BY PoolStep
<1> QED
  BY <1>1, <1>2, Invariance, PTL DEF Spec, ImplementsPool, Pool!Spec
=============================================================================
