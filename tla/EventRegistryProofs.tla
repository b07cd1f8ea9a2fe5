------------------------- MODULE EventRegistryProofs -------------------------
(***************************************************************************)
(* Theorems about EventRegistry, for any number of events, workers and     *)
(* channel replacements.                                                   *)
(***************************************************************************)
EXTENDS EventRegistry, TLAPS

-----------------------------------------------------------------------------
(* What a send and a receive do to the buffered events.                    *)

LEMMA SendLemma ==
    ASSUME NEW b \in [Gens -> Seq(Events)], SlotsDistinct(b),
           NEW t \in Gens, NEW x \in Events, x \notin Buffered(b)
    PROVE  LET c == [b EXCEPT ![t] = Append(@, x)]
           IN  /\ c \in [Gens -> Seq(Events)]
               /\ SlotsDistinct(c)
               /\ Buffered(c) = Buffered(b) \cup {x}
<1> DEFINE c == [b EXCEPT ![t] = Append(@, x)]
<1>1. c \in [Gens -> Seq(Events)]
  OBVIOUS
<1>2. /\ \A g \in Gens : g # t => c[g] = b[g]
      /\ c[t] = Append(b[t], x)
      /\ DOMAIN c[t] = 1..(Len(b[t]) + 1)
      /\ DOMAIN b[t] = 1..Len(b[t])
      /\ Len(b[t]) \in Nat
      /\ c[t][Len(b[t]) + 1] = x
      /\ \A i \in 1..Len(b[t]) : c[t][i] = b[t][i]
  OBVIOUS
<1> HIDE DEF c
<1>3. \A g \in Gens : \A i \in DOMAIN c[g] :
         \/ i \in DOMAIN b[g] /\ c[g][i] = b[g][i]
         \/ g = t /\ i = Len(b[t]) + 1 /\ c[g][i] = x
  BY <1>2
<1>4. \A g \in Gens : \A i \in DOMAIN b[g] : i \in DOMAIN c[g] /\ c[g][i] = b[g][i]
  BY <1>2
<1>5. \A g \in Gens : \A i \in DOMAIN b[g] : b[g][i] # x
  BY DEF Buffered
<1>6. SlotsDistinct(c)
  BY <1>3, <1>5 DEF SlotsDistinct
<1>7. Buffered(c) \subseteq Buffered(b) \cup {x}
  BY <1>3 DEF Buffered
<1>8. Buffered(b) \cup {x} \subseteq Buffered(c)
  BY <1>2, <1>4 DEF Buffered
<1> QED
  BY <1>1, <1>6, <1>7, <1>8 DEF c

LEMMA ReceiveLemma ==
    ASSUME NEW b \in [Gens -> Seq(Events)], SlotsDistinct(b),
           NEW t \in Gens, b[t] # << >>
    PROVE  LET c == [b EXCEPT ![t] = Tail(@)]
           IN  /\ c \in [Gens -> Seq(Events)]
               /\ SlotsDistinct(c)
               /\ Head(b[t]) \in Buffered(b)
               /\ Buffered(c) = Buffered(b) \ {Head(b[t])}
<1> DEFINE c == [b EXCEPT ![t] = Tail(@)]
           x == Head(b[t])
<1>1. c \in [Gens -> Seq(Events)]
  OBVIOUS
<1>2. /\ \A g \in Gens : g # t => c[g] = b[g]
      /\ Len(b[t]) \in Nat \ {0}
      /\ DOMAIN b[t] = 1..Len(b[t])
      /\ DOMAIN c[t] = 1..(Len(b[t]) - 1)
      /\ x = b[t][1]
      /\ x \in Events
      /\ \A i \in 1..(Len(b[t]) - 1) : c[t][i] = b[t][i + 1]
  OBVIOUS
<1> HIDE DEF c, x
<1>3. \A g \in Gens : \A i \in DOMAIN c[g] :
         \/ g # t /\ i \in DOMAIN b[g] /\ c[g][i] = b[g][i]
         \/ g = t /\ i + 1 \in DOMAIN b[g] /\ i \in Int /\ i # 0 /\ c[g][i] = b[g][i + 1]
  <2> SUFFICES ASSUME NEW g \in Gens, NEW i \in DOMAIN c[g]
               PROVE  \/ g # t /\ i \in DOMAIN b[g] /\ c[g][i] = b[g][i]
                      \/ /\ g = t /\ i + 1 \in DOMAIN b[g]
                         /\ i \in Int /\ i # 0 /\ c[g][i] = b[g][i + 1]
    OBVIOUS
  <2>1. CASE g # t
    BY <1>2, <2>1
  <2>2. CASE g = t
    <3>1. i \in 1..(Len(b[t]) - 1)
      BY <1>2, <2>2
    <3>2. i + 1 \in 1..Len(b[t]) /\ i \in Int /\ i # 0
      BY <1>2, <3>1
    <3>3. c[t][i] = b[t][i + 1]
      BY <1>2, <3>1
    <3> QED
      BY <1>2, <2>2, <3>2, <3>3
  <2> QED
    BY <2>1, <2>2
<1>4. SlotsDistinct(c)
  <2> SUFFICES ASSUME NEW g \in Gens, NEW h \in Gens,
                      NEW i \in DOMAIN c[g], NEW j \in DOMAIN c[h],
                      c[g][i] = c[h][j]
               PROVE  g = h /\ i = j
    BY DEF SlotsDistinct
  <2>1. CASE g # t /\ h # t
    BY <1>3, <2>1 DEF SlotsDistinct
  <2>2. CASE g = t /\ h = t
    <3>1. /\ i + 1 \in DOMAIN b[t] /\ j + 1 \in DOMAIN b[t]
          /\ i \in Int /\ j \in Int
          /\ b[t][i + 1] = b[t][j + 1]
      BY <1>3, <2>2
    <3>2. i + 1 = j + 1
      BY <3>1 DEF SlotsDistinct
    <3> QED
      BY <3>1, <3>2, <2>2
  <2>3. CASE g # t /\ h = t
    BY <1>3, <2>3 DEF SlotsDistinct
  <2>4. CASE g = t /\ h # t
    BY <1>3, <2>4 DEF SlotsDistinct
  <2> QED
    BY <2>1, <2>2, <2>3, <2>4
<1>5. \A g \in Gens : \A i \in DOMAIN b[g] : b[g][i] = x => g = t /\ i = 1
  BY <1>2 DEF SlotsDistinct
<1>6. x \in Buffered(b)
  <2>1. 1 \in DOMAIN b[t]
    BY <1>2
  <2> QED
    BY <2>1, <1>2 DEF Buffered
<1>7. ASSUME NEW e \in Buffered(c)
      PROVE  e \in Buffered(b) /\ e # x
  <2>1. PICK g \in Gens : \E i \in DOMAIN c[g] : c[g][i] = e
    BY <1>7 DEF Buffered
  <2>2. PICK i \in DOMAIN c[g] : c[g][i] = e
    BY <2>1
  <2>3. e \in Events
    BY <1>7 DEF Buffered
  <2>4. CASE g # t
    BY <1>3, <1>5, <2>2, <2>3, <2>4 DEF Buffered
  <2>5. CASE g = t
    <3>1. i + 1 \in DOMAIN b[t] /\ b[t][i + 1] = e /\ i \in Int /\ i # 0
      BY <1>3, <2>2, <2>5
    <3> QED
      BY <3>1, <1>5, <2>3 DEF Buffered
  <2> QED
    BY <2>4, <2>5
<1>8. ASSUME NEW e \in Buffered(b), e # x
      PROVE  e \in Buffered(c)
  <2>1. PICK g \in Gens : \E i \in DOMAIN b[g] : b[g][i] = e
    BY DEF Buffered
  <2>2. PICK i \in DOMAIN b[g] : b[g][i] = e
    BY <2>1
  <2>3. e \in Events
    BY DEF Buffered
  <2>4. CASE g # t
    BY <1>2, <2>2, <2>3, <2>4 DEF Buffered
  <2>5. CASE g = t
    <3>1. i \in 1..Len(b[t]) /\ i # 1
      BY <1>2, <1>8, <2>2, <2>5
    <3>2. i - 1 \in DOMAIN c[t] /\ c[t][i - 1] = e
      BY <1>2, <3>1, <2>2, <2>5
    <3> QED
      BY <3>2, <2>3 DEF Buffered
  <2> QED
    BY <2>4, <2>5
<1>9. Buffered(c) = Buffered(b) \ {x}
  BY <1>7, <1>8
<1> QED
  BY <1>1, <1>4, <1>6, <1>9 DEF c, x

-----------------------------------------------------------------------------
(* The inductive invariant: besides the properties themselves, a goroutine *)
(* holds an event exactly in the control states in which it must deal with *)
(* it.                                                                     *)

HandsAgree ==
    /\ \A w \in Workers : workEv[w] # NoEvent <=> work[w] \in {"lookup", "run"}
    /\ \A g \in Gens : fwdEv[g] # NoEvent <=> fwd[g] \in {"hold", "send"}

IInv == TypeOK /\ NoDuplicate /\ EveryOldChannelDrained /\ HandsAgree
LEMMA ElementLemma ==
    ASSUME NEW S, NEW q \in Seq(S), NEW i \in 1..Len(q)
    PROVE  q[i] \in S
  OBVIOUS

LEMMA TypeStep ==
    ASSUME IInv, Next
    PROVE  TypeOK'
<1> USE DEF bootVars, pushVars, workVars, fwdVars, ctlVars
<1> USE DEF TypeOK, PushStates, WorkStates, FwdStates
<1>1. ASSUME RegisterEventHandler
      PROVE  TypeOK'
  <2> DEFINE s == Subscriptions[booted + 1]
  <2>1. s.name \in Names /\ s.handler \in HandlerIds /\ booted + 1 \in 0..Len(Subscriptions)
    <3>1. Subscriptions \in Seq([name : Names, handler : HandlerIds])
      BY SubscriptionsAssumption
    <3>2. Len(Subscriptions) \in Nat /\ booted \in 0..Len(Subscriptions)
      BY <3>1 DEF IInv
    <3>3. booted + 1 \in 1..Len(Subscriptions)
      BY <1>1, <3>2 DEF RegisterEventHandler
    <3>4. s \in [name : Names, handler : HandlerIds]
      BY <3>1, <3>3, ElementLemma
    <3> QED
      BY <3>2, <3>3, <3>4
  <2>2. handlers' \in [Names -> Seq(HandlerIds)]
    BY <1>1, <2>1 DEF IInv, RegisterEventHandler
  <2> QED
    BY <1>1, <2>1, <2>2 DEF IInv, RegisterEventHandler
<1>2. ASSUME NEW e \in Events, PushBegin(e)
      PROVE  TypeOK'
  BY <1>2 DEF IInv, PushBegin
<1>3. ASSUME NEW e \in Events, PushFast(e)
      PROVE  TypeOK'
  BY <1>3 DEF IInv, PushFast
<1>4. ASSUME NEW e \in Events, PushSlow(e)
      PROVE  TypeOK'
  BY <1>4 DEF IInv, PushSlow
<1>5. ASSUME NEW e \in Events, PushPanic(e)
      PROVE  TypeOK'
  BY <1>5 DEF IInv, PushPanic
<1>6. ASSUME NEW e \in Events, PushLock(e)
      PROVE  TypeOK'
  BY <1>6 DEF IInv, PushLock
<1>7. ASSUME NEW e \in Events, PushRetry(e)
      PROVE  TypeOK'
  BY <1>7 DEF IInv, PushRetry
<1>8. ASSUME NEW e \in Events, PushGrow(e)
      PROVE  TypeOK'
  <2>1. cur + 1 \in Gens
    BY <1>8, MaxGenAssumption DEF IInv, PushGrow, Gens
  <2>2. <<e>> \in Seq(Events)
    OBVIOUS
  <2> QED
    BY <1>8, <2>1, <2>2 DEF IInv, PushGrow
<1>9. ASSUME NEW e \in Events, PushRetryPanic(e)
      PROVE  TypeOK'
  BY <1>9 DEF IInv, PushRetryPanic
<1>10. ASSUME NEW g \in Gens, FwdReceive(g)
      PROVE  TypeOK'
  BY <1>10 DEF IInv, FwdReceive
<1>11. ASSUME NEW g \in Gens, FwdEval(g)
      PROVE  TypeOK'
  BY <1>11 DEF IInv, FwdEval
<1>12. ASSUME NEW g \in Gens, FwdSend(g)
      PROVE  TypeOK'
  <2>1. fwdEv[g] \in Events
    BY <1>12 DEF IInv, FwdSend, HandsAgree
  <2>2. buf' \in [Gens -> Seq(Events)]
    BY <1>12, <2>1 DEF IInv, FwdSend
  <2> QED
    BY <1>12, <2>2 DEF IInv, FwdSend
<1>13. ASSUME NEW g \in Gens, FwdPanic(g)
      PROVE  TypeOK'
  BY <1>13 DEF IInv, FwdPanic
<1>14. ASSUME NEW w \in Workers, WorkerEval(w)
      PROVE  TypeOK'
  BY <1>14 DEF IInv, WorkerEval
<1>15. ASSUME NEW w \in Workers, WorkerReceive(w)
      PROVE  TypeOK'
  BY <1>15 DEF IInv, WorkerReceive
<1>16. ASSUME NEW w \in Workers, WorkerExit(w)
      PROVE  TypeOK'
  BY <1>16 DEF IInv, WorkerExit
<1>17. ASSUME NEW w \in Workers, ProcessLookup(w)
      PROVE  TypeOK'
  BY <1>17, SubscriptionsAssumption DEF IInv, ProcessLookup, HandsAgree
<1>18. ASSUME NEW w \in Workers, ProcessHandle(w)
      PROVE  TypeOK'
  <2>1. workEv[w] \in Events
    BY <1>18 DEF IInv, ProcessHandle, HandsAgree
  <2>2. Head(todo[w]) \in HandlerIds /\ Tail(todo[w]) \in Seq(HandlerIds)
    BY <1>18 DEF IInv, ProcessHandle
  <2>3. ran' \in [Events -> Seq(HandlerIds)]
    BY <1>18, <2>1, <2>2 DEF IInv, ProcessHandle
  <2>4. todo' \in [Workers -> Seq(HandlerIds)]
    BY <1>18, <2>2 DEF IInv, ProcessHandle
  <2> QED
    BY <1>18, <2>3, <2>4 DEF IInv, ProcessHandle
<1>19. ASSUME NEW w \in Workers, ProcessReturn(w)
      PROVE  TypeOK'
  BY <1>19 DEF IInv, ProcessReturn
<1>20. ASSUME Cancel
      PROVE  TypeOK'
  BY <1>20 DEF IInv, Cancel
<1>21. ASSUME CloseChannel
      PROVE  TypeOK'
  BY <1>21 DEF IInv, CloseChannel
<1>22. ASSUME WaitWorkers
      PROVE  TypeOK'
  BY <1>22 DEF IInv, WaitWorkers
<1> QED
  BY <1>1, <1>2, <1>3, <1>4, <1>5, <1>6, <1>7, <1>8, <1>9, <1>10, <1>11, <1>12, <1>13, <1>14, <1>15, <1>16, <1>17, <1>18, <1>19, <1>20, <1>21, <1>22 DEF Next, PushEvent, Forward, Worker, Shutdown

LEMMA DrainedStep ==
    ASSUME IInv, Next
    PROVE  EveryOldChannelDrained'
<1> USE DEF bootVars, pushVars, workVars, fwdVars, ctlVars
<1> USE DEF IInv, EveryOldChannelDrained, TypeOK
<1>1. ASSUME RegisterEventHandler
      PROVE  EveryOldChannelDrained'
  BY <1>1 DEF RegisterEventHandler, OneHolder, OldDrained, SendsReach
<1>2. ASSUME NEW e \in Events, PushBegin(e)
      PROVE  EveryOldChannelDrained'
  <2>1. OneHolder'
    BY <1>2 DEF PushBegin, OneHolder
  <2>2. OldDrained'
    BY <1>2 DEF PushBegin, OldDrained, Gens, FwdStates
  <2>3. SendsReach'
    BY <1>2, MaxGenAssumption DEF PushBegin, OneHolder, SendsReach, Gens
  <2> QED
    BY <2>1, <2>2, <2>3
<1>3. ASSUME NEW e \in Events, PushFast(e)
      PROVE  EveryOldChannelDrained'
  <2>1. OneHolder'
    BY <1>3 DEF PushFast, OneHolder
  <2>2. OldDrained'
    BY <1>3 DEF PushFast, OldDrained, Gens, FwdStates
  <2>3. SendsReach'
    <3>1. pushCh[e] \in Gens /\ pushCh[e] <= cur
      BY <1>3 DEF PushFast, SendsReach
    <3>2. \A h \in Gens : h # pushCh[e] => buf'[h] = buf[h]
      BY <1>3, <3>1 DEF PushFast
    <3>3. \A h \in Gens : h > cur => h # pushCh[e]
      BY <3>1 DEF Gens
    <3> QED
      BY <1>3, <3>2, <3>3 DEF PushFast, SendsReach
  <2> QED
    BY <2>1, <2>2, <2>3
<1>4. ASSUME NEW e \in Events, PushSlow(e)
      PROVE  EveryOldChannelDrained'
  <2>1. OneHolder'
    BY <1>4 DEF PushSlow, OneHolder
  <2>2. OldDrained'
    BY <1>4 DEF PushSlow, OldDrained, Gens, FwdStates
  <2>3. SendsReach'
    BY <1>4, MaxGenAssumption DEF PushSlow, OneHolder, SendsReach, Gens
  <2> QED
    BY <2>1, <2>2, <2>3
<1>5. ASSUME NEW e \in Events, PushPanic(e)
      PROVE  EveryOldChannelDrained'
  <2>1. OneHolder'
    BY <1>5 DEF PushPanic, OneHolder
  <2>2. OldDrained'
    BY <1>5 DEF PushPanic, OldDrained, Gens, FwdStates
  <2>3. SendsReach'
    BY <1>5, MaxGenAssumption DEF PushPanic, OneHolder, SendsReach, Gens
  <2> QED
    BY <2>1, <2>2, <2>3
<1>6. ASSUME NEW e \in Events, PushLock(e)
      PROVE  EveryOldChannelDrained'
  <2>1. OneHolder'
    BY <1>6 DEF PushLock, OneHolder
  <2>2. OldDrained'
    BY <1>6 DEF PushLock, OldDrained, Gens, FwdStates
  <2>3. SendsReach'
    BY <1>6, MaxGenAssumption DEF PushLock, OneHolder, SendsReach, Gens
  <2> QED
    BY <2>1, <2>2, <2>3
<1>7. ASSUME NEW e \in Events, PushRetry(e)
      PROVE  EveryOldChannelDrained'
  <2>1. OneHolder'
    BY <1>7 DEF PushRetry, OneHolder
  <2>2. OldDrained'
    BY <1>7 DEF PushRetry, OldDrained, Gens, FwdStates
  <2>3. SendsReach'
    <3>1. pushCh[e] \in Gens /\ pushCh[e] <= cur
      BY <1>7 DEF PushRetry, SendsReach
    <3>2. \A h \in Gens : h # pushCh[e] => buf'[h] = buf[h]
      BY <1>7, <3>1 DEF PushRetry
    <3>3. \A h \in Gens : h > cur => h # pushCh[e]
      BY <3>1 DEF Gens
    <3> QED
      BY <1>7, <3>2, <3>3 DEF PushRetry, SendsReach
  <2> QED
    BY <2>1, <2>2, <2>3
<1>8. ASSUME NEW e \in Events, PushGrow(e)
      PROVE  EveryOldChannelDrained'
  <2>1. OneHolder'
    BY <1>8 DEF PushGrow, OneHolder
  <2>2. OldDrained'
    BY <1>8 DEF PushGrow, OldDrained, Gens, FwdStates
  <2>3. SendsReach'
    <3>1. /\ cur \in Nat /\ cur + 1 \in Gens /\ cur' = cur + 1
          /\ \A h \in Gens : h \in Nat
      BY <1>8, MaxGenAssumption DEF PushGrow, Gens
    <3>2. /\ \A h \in Gens : fwdCh[h] \in Nat /\ fwdCh[h] <= cur
          /\ \A d \in Events : pushCh[d] \in Nat /\ pushCh[d] <= cur
          /\ \A h \in Gens : h > cur => buf[h] = << >>
      BY <3>1 DEF SendsReach
    <3>3. fwdCh' = fwdCh /\ pushCh' = pushCh
      BY <1>8 DEF PushGrow
    <3>4. \A h \in Gens : h # cur + 1 => buf'[h] = buf[h]
      BY <1>8, <3>1 DEF PushGrow
    <3> HIDE DEF TypeOK, IInv, EveryOldChannelDrained
    <3>5. \A h \in Gens : h > cur + 1 => h > cur /\ h # cur + 1
      BY <3>1
    <3> QED
      BY <3>1, <3>2, <3>3, <3>4, <3>5 DEF SendsReach
  <2> QED
    BY <2>1, <2>2, <2>3
<1>9. ASSUME NEW e \in Events, PushRetryPanic(e)
      PROVE  EveryOldChannelDrained'
  <2>1. OneHolder'
    BY <1>9 DEF PushRetryPanic, OneHolder
  <2>2. OldDrained'
    BY <1>9 DEF PushRetryPanic, OldDrained, Gens, FwdStates
  <2>3. SendsReach'
    BY <1>9, MaxGenAssumption DEF PushRetryPanic, OneHolder, SendsReach, Gens
  <2> QED
    BY <2>1, <2>2, <2>3
<1>10. ASSUME NEW g \in Gens, FwdReceive(g)
      PROVE  EveryOldChannelDrained'
  <2>1. OneHolder'
    BY <1>10 DEF FwdReceive, OneHolder
  <2>2. OldDrained'
    BY <1>10 DEF FwdReceive, OldDrained, Gens, FwdStates
  <2>3. SendsReach'
    <3>1. \A h \in Gens : buf[h] = << >> => buf'[h] = << >>
      BY <1>10 DEF FwdReceive
    <3> QED
      BY <1>10, <3>1 DEF FwdReceive, SendsReach
  <2> QED
    BY <2>1, <2>2, <2>3
<1>11. ASSUME NEW g \in Gens, FwdEval(g)
      PROVE  EveryOldChannelDrained'
  <2>1. OneHolder'
    BY <1>11 DEF FwdEval, OneHolder
  <2>2. OldDrained'
    BY <1>11 DEF FwdEval, OldDrained, Gens, FwdStates
  <2>3. SendsReach'
    <3>1. cur <= cur /\ cur' = cur
      BY <1>11 DEF FwdEval, Gens
    <3>2. \A h \in Gens : fwdCh'[h] = cur \/ fwdCh'[h] = fwdCh[h]
      BY <1>11 DEF FwdEval
    <3> QED
      BY <1>11, <3>1, <3>2 DEF FwdEval, SendsReach
  <2> QED
    BY <2>1, <2>2, <2>3
<1>12. ASSUME NEW g \in Gens, FwdSend(g)
      PROVE  EveryOldChannelDrained'
  <2>1. OneHolder'
    BY <1>12 DEF FwdSend, OneHolder
  <2>2. OldDrained'
    BY <1>12 DEF FwdSend, OldDrained, Gens, FwdStates
  <2>3. SendsReach'
    <3>1. fwdCh[g] \in Gens /\ fwdCh[g] <= cur
      BY <1>12 DEF FwdSend, SendsReach
    <3>2. \A h \in Gens : h # fwdCh[g] => buf'[h] = buf[h]
      BY <1>12, <3>1 DEF FwdSend
    <3>3. \A h \in Gens : h > cur => h # fwdCh[g]
      BY <3>1 DEF Gens
    <3> QED
      BY <1>12, <3>2, <3>3 DEF FwdSend, SendsReach
  <2> QED
    BY <2>1, <2>2, <2>3
<1>13. ASSUME NEW g \in Gens, FwdPanic(g)
      PROVE  EveryOldChannelDrained'
  BY <1>13 DEF FwdPanic, OneHolder, OldDrained, SendsReach
<1>14. ASSUME NEW w \in Workers, WorkerEval(w)
      PROVE  EveryOldChannelDrained'
  BY <1>14 DEF WorkerEval, OneHolder, OldDrained, SendsReach
<1>15. ASSUME NEW w \in Workers, WorkerReceive(w)
      PROVE  EveryOldChannelDrained'
  <2>1. OneHolder'
    BY <1>15 DEF WorkerReceive, OneHolder
  <2>2. OldDrained'
    BY <1>15 DEF WorkerReceive, OldDrained, Gens, FwdStates
  <2>3. SendsReach'
    <3>1. \A h \in Gens : buf[h] = << >> => buf'[h] = << >>
      BY <1>15 DEF WorkerReceive
    <3> QED
      BY <1>15, <3>1 DEF WorkerReceive, SendsReach
  <2> QED
    BY <2>1, <2>2, <2>3
<1>16. ASSUME NEW w \in Workers, WorkerExit(w)
      PROVE  EveryOldChannelDrained'
  BY <1>16 DEF WorkerExit, OneHolder, OldDrained, SendsReach
<1>17. ASSUME NEW w \in Workers, ProcessLookup(w)
      PROVE  EveryOldChannelDrained'
  BY <1>17 DEF ProcessLookup, OneHolder, OldDrained, SendsReach
<1>18. ASSUME NEW w \in Workers, ProcessHandle(w)
      PROVE  EveryOldChannelDrained'
  BY <1>18 DEF ProcessHandle, OneHolder, OldDrained, SendsReach
<1>19. ASSUME NEW w \in Workers, ProcessReturn(w)
      PROVE  EveryOldChannelDrained'
  BY <1>19 DEF ProcessReturn, OneHolder, OldDrained, SendsReach
<1>20. ASSUME Cancel
      PROVE  EveryOldChannelDrained'
  BY <1>20 DEF Cancel, OneHolder, OldDrained, SendsReach
<1>21. ASSUME CloseChannel
      PROVE  EveryOldChannelDrained'
  BY <1>21 DEF CloseChannel, OneHolder, OldDrained, SendsReach
<1>22. ASSUME WaitWorkers
      PROVE  EveryOldChannelDrained'
  BY <1>22 DEF WaitWorkers, OneHolder, OldDrained, SendsReach
<1> QED
  BY <1>1, <1>2, <1>3, <1>4, <1>5, <1>6, <1>7, <1>8, <1>9, <1>10, <1>11, <1>12, <1>13, <1>14, <1>15, <1>16, <1>17, <1>18, <1>19, <1>20, <1>21, <1>22 DEF Next, PushEvent, Forward, Worker, Shutdown

LEMMA HandsStep ==
    ASSUME IInv, Next
    PROVE  HandsAgree'
<1> USE DEF bootVars, pushVars, workVars, fwdVars, ctlVars
<1> USE DEF IInv, HandsAgree, TypeOK
<1>1. ASSUME RegisterEventHandler
      PROVE  HandsAgree'
  BY <1>1, EventsAssumption DEF RegisterEventHandler
<1>2. ASSUME NEW e \in Events, PushBegin(e)
      PROVE  HandsAgree'
  BY <1>2, EventsAssumption DEF PushBegin
<1>3. ASSUME NEW e \in Events, PushFast(e)
      PROVE  HandsAgree'
  BY <1>3, EventsAssumption DEF PushFast
<1>4. ASSUME NEW e \in Events, PushSlow(e)
      PROVE  HandsAgree'
  BY <1>4, EventsAssumption DEF PushSlow
<1>5. ASSUME NEW e \in Events, PushPanic(e)
      PROVE  HandsAgree'
  BY <1>5, EventsAssumption DEF PushPanic
<1>6. ASSUME NEW e \in Events, PushLock(e)
      PROVE  HandsAgree'
  BY <1>6, EventsAssumption DEF PushLock
<1>7. ASSUME NEW e \in Events, PushRetry(e)
      PROVE  HandsAgree'
  BY <1>7, EventsAssumption DEF PushRetry
<1>8. ASSUME NEW e \in Events, PushGrow(e)
      PROVE  HandsAgree'
  <2>1. fwd[cur] = "none" /\ fwdEv[cur] = NoEvent
    <3>1. cur \in Gens /\ ~(cur < cur)
      BY DEF Gens
    <3> QED
      BY <3>1 DEF EveryOldChannelDrained, OldDrained
  <2> QED
    BY <1>8, <2>1 DEF PushGrow
<1>9. ASSUME NEW e \in Events, PushRetryPanic(e)
      PROVE  HandsAgree'
  BY <1>9, EventsAssumption DEF PushRetryPanic
<1>10. ASSUME NEW g \in Gens, FwdReceive(g)
      PROVE  HandsAgree'
  BY <1>10, EventsAssumption DEF FwdReceive
<1>11. ASSUME NEW g \in Gens, FwdEval(g)
      PROVE  HandsAgree'
  BY <1>11, EventsAssumption DEF FwdEval
<1>12. ASSUME NEW g \in Gens, FwdSend(g)
      PROVE  HandsAgree'
  BY <1>12, EventsAssumption DEF FwdSend
<1>13. ASSUME NEW g \in Gens, FwdPanic(g)
      PROVE  HandsAgree'
  BY <1>13, EventsAssumption DEF FwdPanic
<1>14. ASSUME NEW w \in Workers, WorkerEval(w)
      PROVE  HandsAgree'
  BY <1>14, EventsAssumption DEF WorkerEval
<1>15. ASSUME NEW w \in Workers, WorkerReceive(w)
      PROVE  HandsAgree'
  BY <1>15, EventsAssumption DEF WorkerReceive
<1>16. ASSUME NEW w \in Workers, WorkerExit(w)
      PROVE  HandsAgree'
  BY <1>16, EventsAssumption DEF WorkerExit
<1>17. ASSUME NEW w \in Workers, ProcessLookup(w)
      PROVE  HandsAgree'
  BY <1>17, EventsAssumption DEF ProcessLookup
<1>18. ASSUME NEW w \in Workers, ProcessHandle(w)
      PROVE  HandsAgree'
  BY <1>18, EventsAssumption DEF ProcessHandle
<1>19. ASSUME NEW w \in Workers, ProcessReturn(w)
      PROVE  HandsAgree'
  BY <1>19, EventsAssumption DEF ProcessReturn
<1>20. ASSUME Cancel
      PROVE  HandsAgree'
  BY <1>20, EventsAssumption DEF Cancel
<1>21. ASSUME CloseChannel
      PROVE  HandsAgree'
  BY <1>21, EventsAssumption DEF CloseChannel
<1>22. ASSUME WaitWorkers
      PROVE  HandsAgree'
  BY <1>22, EventsAssumption DEF WaitWorkers
<1> QED
  BY <1>1, <1>2, <1>3, <1>4, <1>5, <1>6, <1>7, <1>8, <1>9, <1>10, <1>11, <1>12, <1>13, <1>14, <1>15, <1>16, <1>17, <1>18, <1>19, <1>20, <1>21, <1>22 DEF Next, PushEvent, Forward, Worker, Shutdown

LEMMA NoDuplicateStep ==
    ASSUME IInv, Next
    PROVE  NoDuplicate'
<1> USE DEF bootVars, pushVars, workVars, fwdVars, ctlVars
<1> USE DEF IInv
<1>1. ASSUME RegisterEventHandler
      PROVE  NoDuplicate'
  BY <1>1 DEF RegisterEventHandler, NoDuplicate, Queued, Forwarded, Running
<1>2. ASSUME NEW e \in Events, PushBegin(e)
      PROVE  NoDuplicate'
  <2>1. /\ fwdEv' = fwdEv /\ workEv' = workEv /\ buf' = buf
        /\ \A d \in Events : push'[d] # "ok" => push[d] # "ok"
    BY <1>2 DEF PushBegin, TypeOK
  <2> QED
    BY <2>1 DEF NoDuplicate, Queued, Forwarded, Running
<1>3. ASSUME NEW e \in Events, PushFast(e)
      PROVE  NoDuplicate'
  <2>0. pushCh[e] \in Gens /\ buf' = [buf EXCEPT ![pushCh[e]] = Append(@, e)]
    BY <1>3 DEF PushFast, TypeOK
  <2>1. e \notin Buffered(buf) /\ ~Forwarded(e) /\ ~Running(e)
    BY <1>3 DEF PushFast, NoDuplicate, Queued
  <2>2. SlotsDistinct(buf') /\ Buffered(buf') = Buffered(buf) \cup {e}
    BY <2>0, <2>1, SendLemma DEF TypeOK, NoDuplicate
  <2>3. fwdEv' = fwdEv /\ workEv' = workEv /\ push' = [push EXCEPT ![e] = "ok"]
    BY <1>3 DEF PushFast
  <2> QED
    BY <2>1, <2>2, <2>3 DEF NoDuplicate, Queued, Forwarded, Running, TypeOK
<1>4. ASSUME NEW e \in Events, PushSlow(e)
      PROVE  NoDuplicate'
  <2>1. /\ fwdEv' = fwdEv /\ workEv' = workEv /\ buf' = buf
        /\ \A d \in Events : push'[d] # "ok" => push[d] # "ok"
    BY <1>4 DEF PushSlow, TypeOK
  <2> QED
    BY <2>1 DEF NoDuplicate, Queued, Forwarded, Running
<1>5. ASSUME NEW e \in Events, PushPanic(e)
      PROVE  NoDuplicate'
  <2>1. /\ fwdEv' = fwdEv /\ workEv' = workEv /\ buf' = buf
        /\ \A d \in Events : push'[d] # "ok" => push[d] # "ok"
    BY <1>5 DEF PushPanic, TypeOK
  <2> QED
    BY <2>1 DEF NoDuplicate, Queued, Forwarded, Running
<1>6. ASSUME NEW e \in Events, PushLock(e)
      PROVE  NoDuplicate'
  <2>1. /\ fwdEv' = fwdEv /\ workEv' = workEv /\ buf' = buf
        /\ \A d \in Events : push'[d] # "ok" => push[d] # "ok"
    BY <1>6 DEF PushLock, TypeOK
  <2> QED
    BY <2>1 DEF NoDuplicate, Queued, Forwarded, Running
<1>7. ASSUME NEW e \in Events, PushRetry(e)
      PROVE  NoDuplicate'
  <2>0. pushCh[e] \in Gens /\ buf' = [buf EXCEPT ![pushCh[e]] = Append(@, e)]
    BY <1>7 DEF PushRetry, TypeOK
  <2>1. e \notin Buffered(buf) /\ ~Forwarded(e) /\ ~Running(e)
    BY <1>7 DEF PushRetry, NoDuplicate, Queued
  <2>2. SlotsDistinct(buf') /\ Buffered(buf') = Buffered(buf) \cup {e}
    BY <2>0, <2>1, SendLemma DEF TypeOK, NoDuplicate
  <2>3. fwdEv' = fwdEv /\ workEv' = workEv /\ push' = [push EXCEPT ![e] = "ok"]
    BY <1>7 DEF PushRetry
  <2> QED
    BY <2>1, <2>2, <2>3 DEF NoDuplicate, Queued, Forwarded, Running, TypeOK
<1>8. ASSUME NEW e \in Events, PushGrow(e)
      PROVE  NoDuplicate'
  <2>0. /\ cur + 1 \in Gens
        /\ buf[cur + 1] = << >>
        /\ buf' = [buf EXCEPT ![cur + 1] = Append(@, e)]
    <3>1. cur + 1 \in Gens /\ cur + 1 > cur
      BY <1>8, MaxGenAssumption DEF PushGrow, TypeOK, Gens
    <3>2. buf[cur + 1] = << >>
      BY <3>1 DEF EveryOldChannelDrained, SendsReach
    <3>3. Append(<< >>, e) = <<e>>
      OBVIOUS
    <3> QED
      BY <1>8, <3>1, <3>2, <3>3 DEF PushGrow, TypeOK
  <2>1. e \notin Buffered(buf) /\ ~Forwarded(e) /\ ~Running(e)
    BY <1>8 DEF PushGrow, NoDuplicate, Queued
  <2>2. SlotsDistinct(buf') /\ Buffered(buf') = Buffered(buf) \cup {e}
    BY <2>0, <2>1, SendLemma DEF TypeOK, NoDuplicate
  <2>3. fwdEv' = fwdEv /\ workEv' = workEv /\ push' = [push EXCEPT ![e] = "ok"]
    BY <1>8 DEF PushGrow
  <2> QED
    BY <2>1, <2>2, <2>3 DEF NoDuplicate, Queued, Forwarded, Running, TypeOK
<1>9. ASSUME NEW e \in Events, PushRetryPanic(e)
      PROVE  NoDuplicate'
  <2>1. /\ fwdEv' = fwdEv /\ workEv' = workEv /\ buf' = buf
        /\ \A d \in Events : push'[d] # "ok" => push[d] # "ok"
    BY <1>9 DEF PushRetryPanic, TypeOK
  <2> QED
    BY <2>1 DEF NoDuplicate, Queued, Forwarded, Running
<1>10. ASSUME NEW g \in Gens, FwdReceive(g)
      PROVE  NoDuplicate'
  <2> DEFINE x == Head(buf[g])
  <2>1. /\ SlotsDistinct(buf')
        /\ x \in Buffered(buf) /\ Buffered(buf') = Buffered(buf) \ {x}
    BY <1>10, ReceiveLemma DEF FwdReceive, TypeOK, NoDuplicate
  <2>2. x \in Events /\ push[x] = "ok" /\ ~Forwarded(x) /\ ~Running(x)
    BY <2>1 DEF NoDuplicate, Buffered, Queued
  <2>3. /\ fwdEv' = [fwdEv EXCEPT ![g] = x]
        /\ workEv' = workEv /\ push' = push
    BY <1>10 DEF FwdReceive
  <2> HIDE DEF x
  <2> QED
    BY <2>1, <2>2, <2>3, EventsAssumption DEF NoDuplicate, Queued, Forwarded, Running, TypeOK
<1>11. ASSUME NEW g \in Gens, FwdEval(g)
      PROVE  NoDuplicate'
  BY <1>11 DEF FwdEval, NoDuplicate, Queued, Forwarded, Running
<1>12. ASSUME NEW g \in Gens, FwdSend(g)
      PROVE  NoDuplicate'
  <2> DEFINE x == fwdEv[g]
  <2>1. x \in Events /\ fwdCh[g] \in Gens
    BY <1>12 DEF FwdSend, HandsAgree, TypeOK
  <2>2. Forwarded(x) /\ x \notin Buffered(buf) /\ ~Running(x) /\ push[x] = "ok"
    BY <2>1 DEF NoDuplicate, Forwarded, Queued
  <2>3. SlotsDistinct(buf') /\ Buffered(buf') = Buffered(buf) \cup {x}
    <3>1. /\ buf' = [buf EXCEPT ![fwdCh[g]] = Append(@, x)]
          /\ buf \in [Gens -> Seq(Events)] /\ SlotsDistinct(buf)
      BY <1>12 DEF FwdSend, TypeOK, NoDuplicate
    <3> HIDE DEF x, IInv
    <3> QED
      BY <2>1, <2>2, <3>1, SendLemma
  <2>4. /\ fwdEv' = [fwdEv EXCEPT ![g] = NoEvent]
        /\ workEv' = workEv /\ push' = push
    BY <1>12 DEF FwdSend
  <2>5. \A h \in Gens : h # g => fwdEv[h] # x
    BY <2>1, EventsAssumption DEF NoDuplicate
  <2> HIDE DEF x
  <2> QED
    <3> HIDE DEF IInv
    <3>0. NoDuplicate /\ fwdEv \in [Gens -> Events \cup {NoEvent}]
      BY DEF IInv, TypeOK
    <3>1. \A h \in Gens : fwdEv'[h] = IF h = g THEN NoEvent ELSE fwdEv[h]
      BY <2>4, <3>0
    <3>2. \A d \in Events : Forwarded(d)' <=> Forwarded(d) /\ d # x
      BY <2>1, <2>2, <2>5, <3>1, EventsAssumption DEF Forwarded, x
    <3>3. \A d \in Events : Running(d)' <=> Running(d)
      BY <2>4 DEF Running
    <3>4. \A h, k \in Gens : fwdEv'[h] = fwdEv'[k] => h = k \/ fwdEv'[h] = NoEvent
      BY <3>0, <3>1 DEF NoDuplicate
    <3>5. \A d \in Buffered(buf') : d \in Events /\ ~Forwarded(d)' /\ ~Running(d)'
      BY <2>1, <2>2, <2>3, <3>0, <3>2, <3>3 DEF NoDuplicate, Buffered
    <3>6. \A d \in Events : push'[d] # "ok" => ~Queued(d)' /\ ~Running(d)'
      BY <2>2, <2>3, <2>4, <3>0, <3>2, <3>3 DEF NoDuplicate, Queued
    <3>7. \A d \in Events : ~(Forwarded(d)' /\ Running(d)')
      BY <3>0, <3>2, <3>3 DEF NoDuplicate
    <3>8. \A v, w \in Workers : workEv'[v] = workEv'[w] => v = w \/ workEv'[v] = NoEvent
      BY <2>4, <3>0 DEF NoDuplicate
    <3> QED
      BY <2>3, <3>4, <3>5, <3>6, <3>7, <3>8 DEF NoDuplicate
<1>13. ASSUME NEW g \in Gens, FwdPanic(g)
      PROVE  NoDuplicate'
  BY <1>13 DEF FwdPanic, NoDuplicate, Queued, Forwarded, Running
<1>14. ASSUME NEW w \in Workers, WorkerEval(w)
      PROVE  NoDuplicate'
  BY <1>14 DEF WorkerEval, NoDuplicate, Queued, Forwarded, Running
<1>15. ASSUME NEW w \in Workers, WorkerReceive(w)
      PROVE  NoDuplicate'
  <2> DEFINE x == Head(buf[workCh[w]])
  <2>1. /\ SlotsDistinct(buf')
        /\ x \in Buffered(buf) /\ Buffered(buf') = Buffered(buf) \ {x}
    BY <1>15, ReceiveLemma DEF WorkerReceive, TypeOK, NoDuplicate
  <2>2. x \in Events /\ push[x] = "ok" /\ ~Forwarded(x) /\ ~Running(x)
    BY <2>1 DEF NoDuplicate, Buffered, Queued
  <2>3. /\ workEv' = [workEv EXCEPT ![w] = x]
        /\ fwdEv' = fwdEv /\ push' = push
    BY <1>15 DEF WorkerReceive
  <2> HIDE DEF x
  <2> QED
    BY <2>1, <2>2, <2>3, EventsAssumption DEF NoDuplicate, Queued, Forwarded, Running, TypeOK
<1>16. ASSUME NEW w \in Workers, WorkerExit(w)
      PROVE  NoDuplicate'
  BY <1>16 DEF WorkerExit, NoDuplicate, Queued, Forwarded, Running
<1>17. ASSUME NEW w \in Workers, ProcessLookup(w)
      PROVE  NoDuplicate'
  BY <1>17 DEF ProcessLookup, NoDuplicate, Queued, Forwarded, Running
<1>18. ASSUME NEW w \in Workers, ProcessHandle(w)
      PROVE  NoDuplicate'
  BY <1>18 DEF ProcessHandle, NoDuplicate, Queued, Forwarded, Running
<1>19. ASSUME NEW w \in Workers, ProcessReturn(w)
      PROVE  NoDuplicate'
  <2>1. /\ workEv' = [workEv EXCEPT ![w] = NoEvent]
        /\ fwdEv' = fwdEv /\ push' = push /\ buf' = buf
    BY <1>19 DEF ProcessReturn
  <2> QED
    <3>1. \A v \in Workers : workEv'[v] = IF v = w THEN NoEvent ELSE workEv[v]
      BY <2>1 DEF TypeOK
    <3>2. \A d \in Events : Running(d)' => Running(d)
      BY <3>1, EventsAssumption DEF Running
    <3>3. \A d : Forwarded(d)' <=> Forwarded(d)
      BY <2>1 DEF Forwarded
    <3>4. \A d \in Buffered(buf) : d \in Events
      BY DEF Buffered
    <3>5. \A v, u \in Workers : workEv'[v] = workEv'[u] => v = u \/ workEv'[v] = NoEvent
      BY <3>1 DEF NoDuplicate
    <3> QED
      BY <2>1, <3>2, <3>3, <3>4, <3>5 DEF NoDuplicate, Queued
<1>20. ASSUME Cancel
      PROVE  NoDuplicate'
  BY <1>20 DEF Cancel, NoDuplicate, Queued, Forwarded, Running
<1>21. ASSUME CloseChannel
      PROVE  NoDuplicate'
  BY <1>21 DEF CloseChannel, NoDuplicate, Queued, Forwarded, Running
<1>22. ASSUME WaitWorkers
      PROVE  NoDuplicate'
  BY <1>22 DEF WaitWorkers, NoDuplicate, Queued, Forwarded, Running
<1> QED
  BY <1>1, <1>2, <1>3, <1>4, <1>5, <1>6, <1>7, <1>8, <1>9, <1>10, <1>11, <1>12, <1>13, <1>14, <1>15, <1>16, <1>17, <1>18, <1>19, <1>20, <1>21, <1>22 DEF Next, PushEvent, Forward, Worker, Shutdown

-----------------------------------------------------------------------------
\* The inductive invariant holds in every reachable state of the registry.
THEOREM Invariance == Spec => []IInv
<1>1. Init => IInv
  <2> SUFFICES ASSUME Init PROVE IInv
    OBVIOUS
  <2> USE DEF Init
  <2>1. 0 \in Gens /\ \A g \in Gens : g >= 0 /\ g \in Nat
    BY MaxGenAssumption DEF Gens
  <2>2. 0 \in 0..Len(Subscriptions)
    BY SubscriptionsAssumption
  <2>3. TypeOK
    <3>1. /\ << >> \in Seq(Events)
          /\ << >> \in Seq(HandlerIds)
      OBVIOUS
    <3>2. /\ handlers \in [Names -> Seq(HandlerIds)]
          /\ buf \in [Gens -> Seq(Events)]
          /\ todo \in [Workers -> Seq(HandlerIds)]
          /\ ran \in [Events -> Seq(HandlerIds)]
      BY <3>1
    <3>3. /\ booted \in 0..Len(Subscriptions) /\ cur \in Gens
          /\ pushCh \in [Events -> Gens] /\ workCh \in [Workers -> Gens]
          /\ fwdCh \in [Gens -> Gens]
      BY <2>1, <2>2
    <3> QED
      BY <3>2, <3>3 DEF TypeOK, PushStates, WorkStates, FwdStates
  <2>4. Buffered(buf) = {}
    BY DEF Buffered
  <2>5. SlotsDistinct(buf)
    BY DEF SlotsDistinct
  <2>6. NoDuplicate
    BY <2>4, <2>5, EventsAssumption DEF NoDuplicate, Queued, Forwarded, Running
  <2>7. EveryOldChannelDrained
    BY <2>1 DEF EveryOldChannelDrained, OneHolder, OldDrained, SendsReach
  <2>8. HandsAgree
    BY DEF HandsAgree
  <2> QED
    BY <2>3, <2>6, <2>7, <2>8 DEF IInv
<1>2. IInv /\ [Next]_vars => IInv'
  <2> SUFFICES ASSUME IInv, [Next]_vars PROVE IInv'
    OBVIOUS
  <2>1. CASE Next
    BY <2>1, TypeStep, DrainedStep, HandsStep, NoDuplicateStep DEF IInv
  <2>2. CASE UNCHANGED vars
    BY <2>2 DEF vars, bootVars, pushVars, workVars, fwdVars, ctlVars, IInv,
       TypeOK, NoDuplicate, Queued, Forwarded, Running, EveryOldChannelDrained,
       OneHolder, OldDrained, SendsReach, HandsAgree
  <2> QED
    BY <2>1, <2>2
<1> QED
  BY <1>1, <1>2, PTL DEF Spec

\* No event is ever in two places, or anywhere before it was pushed: the
\* registry hands no event to two workers, whatever the number of workers,
\* requests and channel replacements.
THEOREM NeverDuplicated == Spec => []NoDuplicate
<1>1. IInv => NoDuplicate
  BY DEF IInv
<1> QED
  BY <1>1, Invariance, PTL

\* Replacing the channel never abandons one: PushEvent's locking suffices.
THEOREM NoChannelAbandoned == Spec => []EveryOldChannelDrained
<1>1. IInv => EveryOldChannelDrained
  BY DEF IInv
<1> QED
  BY <1>1, Invariance, PTL

\* The registry's fields and the goroutines' locals keep their types.
THEOREM TypeCorrect == Spec => []TypeOK
<1>1. IInv => TypeOK
  BY DEF IInv
<1> QED
  BY <1>1, Invariance, PTL

-----------------------------------------------------------------------------
(* The registry implements EventDelivery.                                  *)

\* What a step may do to the abstract statuses: move at most one event.
DeliveryStep ==
    \/ \A d \in Events : StatusOf(d)' = StatusOf(d)
    \/ \E e \in Events :
          /\ <<StatusOf(e), StatusOf(e)'>> \in
                {<<"new", "accepted">>, <<"new", "rejected">>,
                 <<"accepted", "running">>, <<"running", "done">>}
          /\ \A d \in Events : d # e => StatusOf(d)' = StatusOf(d)

LEMMA DeliveryStepLemma ==
    ASSUME IInv, Next
    PROVE  DeliveryStep
<1> USE DEF bootVars, pushVars, workVars, fwdVars, ctlVars
<1> USE DEF IInv
<1>1. ASSUME RegisterEventHandler
      PROVE  DeliveryStep
  BY <1>1 DEF RegisterEventHandler, StatusOf, Queued, Forwarded, Running, DeliveryStep
<1>2. ASSUME NEW e \in Events, PushBegin(e)
      PROVE  DeliveryStep
  <2>1. /\ fwdEv' = fwdEv /\ workEv' = workEv /\ buf' = buf
        /\ push[e] \notin {"ok", "panic"} /\ push'[e] \notin {"ok", "panic"}
        /\ \A d \in Events : d # e => push'[d] = push[d]
    BY <1>2 DEF PushBegin, TypeOK
  <2>2. \A d \in Events : StatusOf(d)' = StatusOf(d)
    BY <2>1 DEF StatusOf, Queued, Forwarded, Running
  <2> QED
    BY <2>2 DEF DeliveryStep
<1>3. ASSUME NEW e \in Events, PushFast(e)
      PROVE  DeliveryStep
  <2>0. pushCh[e] \in Gens /\ buf' = [buf EXCEPT ![pushCh[e]] = Append(@, e)]
    BY <1>3 DEF PushFast, TypeOK
  <2>1. e \notin Buffered(buf) /\ ~Running(e) /\ ~Queued(e)
    BY <1>3 DEF PushFast, NoDuplicate, Queued
  <2>2. Buffered(buf') = Buffered(buf) \cup {e}
    BY <2>0, <2>1, SendLemma DEF TypeOK, NoDuplicate
  <2>3. /\ fwdEv' = fwdEv /\ workEv' = workEv
        /\ push[e] \in {"try", "held"} /\ push' = [push EXCEPT ![e] = "ok"]
    BY <1>3 DEF PushFast
  <2>4. StatusOf(e) = "new" /\ StatusOf(e)' = "accepted"
    BY <2>1, <2>2, <2>3 DEF StatusOf, Queued, Forwarded, Running, TypeOK
  <2>5. \A d \in Events : d # e => StatusOf(d)' = StatusOf(d)
    BY <2>2, <2>3 DEF StatusOf, Queued, Forwarded, Running, TypeOK
  <2> QED
    BY <2>4, <2>5 DEF DeliveryStep
<1>4. ASSUME NEW e \in Events, PushSlow(e)
      PROVE  DeliveryStep
  <2>1. /\ fwdEv' = fwdEv /\ workEv' = workEv /\ buf' = buf
        /\ push[e] \notin {"ok", "panic"} /\ push'[e] \notin {"ok", "panic"}
        /\ \A d \in Events : d # e => push'[d] = push[d]
    BY <1>4 DEF PushSlow, TypeOK
  <2>2. \A d \in Events : StatusOf(d)' = StatusOf(d)
    BY <2>1 DEF StatusOf, Queued, Forwarded, Running
  <2> QED
    BY <2>2 DEF DeliveryStep
<1>5. ASSUME NEW e \in Events, PushPanic(e)
      PROVE  DeliveryStep
  <2>1. /\ fwdEv' = fwdEv /\ workEv' = workEv /\ buf' = buf
        /\ push[e] \in {"try", "held"} /\ push' = [push EXCEPT ![e] = "panic"]
    BY <1>5 DEF PushPanic
  <2>2. StatusOf(e) = "new" /\ StatusOf(e)' = "rejected"
    BY <2>1 DEF StatusOf, TypeOK
  <2>3. \A d \in Events : d # e => StatusOf(d)' = StatusOf(d)
    BY <2>1 DEF StatusOf, Queued, Forwarded, Running, TypeOK
  <2> QED
    BY <2>2, <2>3 DEF DeliveryStep
<1>6. ASSUME NEW e \in Events, PushLock(e)
      PROVE  DeliveryStep
  <2>1. /\ fwdEv' = fwdEv /\ workEv' = workEv /\ buf' = buf
        /\ push[e] \notin {"ok", "panic"} /\ push'[e] \notin {"ok", "panic"}
        /\ \A d \in Events : d # e => push'[d] = push[d]
    BY <1>6 DEF PushLock, TypeOK
  <2>2. \A d \in Events : StatusOf(d)' = StatusOf(d)
    BY <2>1 DEF StatusOf, Queued, Forwarded, Running
  <2> QED
    BY <2>2 DEF DeliveryStep
<1>7. ASSUME NEW e \in Events, PushRetry(e)
      PROVE  DeliveryStep
  <2>0. pushCh[e] \in Gens /\ buf' = [buf EXCEPT ![pushCh[e]] = Append(@, e)]
    BY <1>7 DEF PushRetry, TypeOK
  <2>1. e \notin Buffered(buf) /\ ~Running(e) /\ ~Queued(e)
    BY <1>7 DEF PushRetry, NoDuplicate, Queued
  <2>2. Buffered(buf') = Buffered(buf) \cup {e}
    BY <2>0, <2>1, SendLemma DEF TypeOK, NoDuplicate
  <2>3. /\ fwdEv' = fwdEv /\ workEv' = workEv
        /\ push[e] \in {"try", "held"} /\ push' = [push EXCEPT ![e] = "ok"]
    BY <1>7 DEF PushRetry
  <2>4. StatusOf(e) = "new" /\ StatusOf(e)' = "accepted"
    BY <2>1, <2>2, <2>3 DEF StatusOf, Queued, Forwarded, Running, TypeOK
  <2>5. \A d \in Events : d # e => StatusOf(d)' = StatusOf(d)
    BY <2>2, <2>3 DEF StatusOf, Queued, Forwarded, Running, TypeOK
  <2> QED
    BY <2>4, <2>5 DEF DeliveryStep
<1>8. ASSUME NEW e \in Events, PushGrow(e)
      PROVE  DeliveryStep
  <2>0. /\ cur + 1 \in Gens
        /\ buf' = [buf EXCEPT ![cur + 1] = Append(@, e)]
    <3>1. cur + 1 \in Gens /\ cur + 1 > cur
      BY <1>8, MaxGenAssumption DEF PushGrow, TypeOK, Gens
    <3>2. buf[cur + 1] = << >>
      BY <3>1 DEF EveryOldChannelDrained, SendsReach
    <3>3. Append(<< >>, e) = <<e>>
      OBVIOUS
    <3> QED
      BY <1>8, <3>1, <3>2, <3>3 DEF PushGrow, TypeOK
  <2>1. e \notin Buffered(buf) /\ ~Running(e) /\ ~Queued(e)
    BY <1>8 DEF PushGrow, NoDuplicate, Queued
  <2>2. Buffered(buf') = Buffered(buf) \cup {e}
    BY <2>0, <2>1, SendLemma DEF TypeOK, NoDuplicate
  <2>3. /\ fwdEv' = fwdEv /\ workEv' = workEv
        /\ push[e] \in {"try", "held"} /\ push' = [push EXCEPT ![e] = "ok"]
    BY <1>8 DEF PushGrow
  <2>4. StatusOf(e) = "new" /\ StatusOf(e)' = "accepted"
    BY <2>1, <2>2, <2>3 DEF StatusOf, Queued, Forwarded, Running, TypeOK
  <2>5. \A d \in Events : d # e => StatusOf(d)' = StatusOf(d)
    BY <2>2, <2>3 DEF StatusOf, Queued, Forwarded, Running, TypeOK
  <2> QED
    BY <2>4, <2>5 DEF DeliveryStep
<1>9. ASSUME NEW e \in Events, PushRetryPanic(e)
      PROVE  DeliveryStep
  <2>1. /\ fwdEv' = fwdEv /\ workEv' = workEv /\ buf' = buf
        /\ push[e] \in {"try", "held"} /\ push' = [push EXCEPT ![e] = "panic"]
    BY <1>9 DEF PushRetryPanic
  <2>2. StatusOf(e) = "new" /\ StatusOf(e)' = "rejected"
    BY <2>1 DEF StatusOf, TypeOK
  <2>3. \A d \in Events : d # e => StatusOf(d)' = StatusOf(d)
    BY <2>1 DEF StatusOf, Queued, Forwarded, Running, TypeOK
  <2> QED
    BY <2>2, <2>3 DEF DeliveryStep
<1>10. ASSUME NEW g \in Gens, FwdReceive(g)
      PROVE  DeliveryStep
  <2> DEFINE x == Head(buf[g])
  <2>1. x \in Buffered(buf) /\ Buffered(buf') = Buffered(buf) \ {x}
    BY <1>10, ReceiveLemma DEF FwdReceive, TypeOK, NoDuplicate
  <2>2. /\ fwdEv' = [fwdEv EXCEPT ![g] = x] /\ fwdEv[g] = NoEvent
        /\ workEv' = workEv /\ push' = push
    BY <1>10 DEF FwdReceive, HandsAgree, TypeOK
  <2> HIDE DEF x
  <2>3. \A d \in Events : Queued(d)' <=> Queued(d)
    BY <2>1, <2>2, EventsAssumption DEF Queued, Forwarded, TypeOK
  <2> QED
    BY <2>2, <2>3 DEF StatusOf, Running, DeliveryStep
<1>11. ASSUME NEW g \in Gens, FwdEval(g)
      PROVE  DeliveryStep
  BY <1>11 DEF FwdEval, StatusOf, Queued, Forwarded, Running, DeliveryStep
<1>12. ASSUME NEW g \in Gens, FwdSend(g)
      PROVE  DeliveryStep
  <2> DEFINE x == fwdEv[g]
  <2>1. x \in Events /\ fwdCh[g] \in Gens
    BY <1>12 DEF FwdSend, HandsAgree, TypeOK
  <2>2. Forwarded(x) /\ x \notin Buffered(buf)
    BY <2>1 DEF NoDuplicate, Forwarded, Queued
  <2>3. Buffered(buf') = Buffered(buf) \cup {x}
    <3>1. /\ buf' = [buf EXCEPT ![fwdCh[g]] = Append(@, x)]
          /\ buf \in [Gens -> Seq(Events)] /\ SlotsDistinct(buf)
      BY <1>12 DEF FwdSend, TypeOK, NoDuplicate
    <3> HIDE DEF x, IInv
    <3> QED
      BY <2>1, <2>2, <3>1, SendLemma
  <2>4. /\ fwdEv' = [fwdEv EXCEPT ![g] = NoEvent]
        /\ workEv' = workEv /\ push' = push
    BY <1>12 DEF FwdSend
  <2>5. \A d \in Events : Queued(d)' <=> Queued(d)
    BY <2>2, <2>3, <2>4, EventsAssumption DEF Queued, Forwarded, TypeOK
  <2> QED
    BY <2>4, <2>5 DEF StatusOf, Running, DeliveryStep
<1>13. ASSUME NEW g \in Gens, FwdPanic(g)
      PROVE  DeliveryStep
  BY <1>13 DEF FwdPanic, StatusOf, Queued, Forwarded, Running, DeliveryStep
<1>14. ASSUME NEW w \in Workers, WorkerEval(w)
      PROVE  DeliveryStep
  BY <1>14 DEF WorkerEval, StatusOf, Queued, Forwarded, Running, DeliveryStep
<1>15. ASSUME NEW w \in Workers, WorkerReceive(w)
      PROVE  DeliveryStep
  <2>0. PICK x \in Events : x = Head(buf[workCh[w]])
    BY <1>15, ReceiveLemma DEF WorkerReceive, TypeOK, NoDuplicate, Buffered
  <2>1. x \in Buffered(buf) /\ Buffered(buf') = Buffered(buf) \ {x}
    BY <1>15, <2>0, ReceiveLemma DEF WorkerReceive, TypeOK, NoDuplicate
  <2>2. x \in Events /\ push[x] = "ok" /\ ~Forwarded(x) /\ ~Running(x)
    BY <2>1 DEF NoDuplicate, Buffered, Queued
  <2>3. /\ workEv' = [workEv EXCEPT ![w] = x] /\ workEv[w] = NoEvent
        /\ fwdEv' = fwdEv /\ push' = push
    BY <1>15, <2>0 DEF WorkerReceive, HandsAgree, TypeOK
  <2>4. \A d \in Events : d # x => (Queued(d)' <=> Queued(d)) /\ (Running(d)' <=> Running(d))
    BY <2>1, <2>3, EventsAssumption DEF Queued, Forwarded, Running, TypeOK
  <2>5. StatusOf(x) = "accepted" /\ StatusOf(x)' = "running"
    BY <2>1, <2>2, <2>3 DEF StatusOf, Queued, Running, TypeOK
  <2>6. \A d \in Events : d # x => StatusOf(d)' = StatusOf(d)
    BY <2>3, <2>4 DEF StatusOf
  <2> QED
    BY <2>2, <2>5, <2>6 DEF DeliveryStep
<1>16. ASSUME NEW w \in Workers, WorkerExit(w)
      PROVE  DeliveryStep
  BY <1>16 DEF WorkerExit, StatusOf, Queued, Forwarded, Running, DeliveryStep
<1>17. ASSUME NEW w \in Workers, ProcessLookup(w)
      PROVE  DeliveryStep
  BY <1>17 DEF ProcessLookup, StatusOf, Queued, Forwarded, Running, DeliveryStep
<1>18. ASSUME NEW w \in Workers, ProcessHandle(w)
      PROVE  DeliveryStep
  BY <1>18 DEF ProcessHandle, StatusOf, Queued, Forwarded, Running, DeliveryStep
<1>19. ASSUME NEW w \in Workers, ProcessReturn(w)
      PROVE  DeliveryStep
  <2>0. PICK x \in Events : x = workEv[w]
    BY <1>19 DEF ProcessReturn, HandsAgree, TypeOK
  <2>1. /\ workEv' = [workEv EXCEPT ![w] = NoEvent]
        /\ fwdEv' = fwdEv /\ push' = push /\ buf' = buf
    BY <1>19 DEF ProcessReturn
  <2>2. x \in Events /\ Running(x) /\ push[x] = "ok" /\ ~Queued(x)
    BY <2>0 DEF NoDuplicate, Queued, Running
  <2>3. ~Running(x)'
    <3>1. \A v \in Workers : v # w => workEv[v] # x
      BY <2>0, EventsAssumption DEF NoDuplicate
    <3> QED
      BY <2>1, <3>1, EventsAssumption DEF Running, TypeOK
  <2>4. \A d \in Events : d # x => (Running(d)' <=> Running(d))
    BY <2>0, <2>1, EventsAssumption DEF Running, TypeOK
  <2>5. \A d \in Events : Queued(d)' <=> Queued(d)
    BY <2>1 DEF Queued, Forwarded
  <2>6. StatusOf(x) = "running" /\ StatusOf(x)' = "done"
    BY <2>1, <2>2, <2>3, <2>5 DEF StatusOf
  <2>7. \A d \in Events : d # x => StatusOf(d)' = StatusOf(d)
    BY <2>1, <2>4, <2>5 DEF StatusOf
  <2> QED
    BY <2>2, <2>6, <2>7 DEF DeliveryStep
<1>20. ASSUME Cancel
      PROVE  DeliveryStep
  BY <1>20 DEF Cancel, StatusOf, Queued, Forwarded, Running, DeliveryStep
<1>21. ASSUME CloseChannel
      PROVE  DeliveryStep
  BY <1>21 DEF CloseChannel, StatusOf, Queued, Forwarded, Running, DeliveryStep
<1>22. ASSUME WaitWorkers
      PROVE  DeliveryStep
  BY <1>22 DEF WaitWorkers, StatusOf, Queued, Forwarded, Running, DeliveryStep
<1> QED
  BY <1>1, <1>2, <1>3, <1>4, <1>5, <1>6, <1>7, <1>8, <1>9, <1>10, <1>11, <1>12, <1>13, <1>14, <1>15, <1>16, <1>17, <1>18, <1>19, <1>20, <1>21, <1>22 DEF Next, PushEvent, Forward, Worker, Shutdown

\* Every behaviour of channels, locks, forwarding goroutines, workers and
\* shutdown is one in which each event is taken up and finished at most once.
THEOREM Refinement == Spec => Delivers
<1> DEFINE st == [e \in Events |-> StatusOf(e)]
<1>1. Init => Delivery!Init
  <2> SUFFICES ASSUME Init PROVE Delivery!Init
    OBVIOUS
  <2>1. \A e \in Events : StatusOf(e) = "new"
    BY DEF Init, StatusOf
  <2> QED
    BY <2>1 DEF Delivery!Init
<1>2. IInv /\ [Next]_vars => [Delivery!Next]_st
  <2> SUFFICES ASSUME IInv, [Next]_vars PROVE [Delivery!Next]_st
    OBVIOUS
  <2>1. CASE Next
    <3>1. DeliveryStep
      BY <2>1, DeliveryStepLemma
    <3>2. CASE \A d \in Events : StatusOf(d)' = StatusOf(d)
      BY <3>2
    <3>3. ASSUME NEW e \in Events,
                 <<StatusOf(e), StatusOf(e)'>> \in
                   {<<"new", "accepted">>, <<"new", "rejected">>,
                    <<"accepted", "running">>, <<"running", "done">>},
                 \A d \in Events : d # e => StatusOf(d)' = StatusOf(d)
          PROVE  Delivery!Next
      <4>1. st' = [st EXCEPT ![e] = StatusOf(e)']
        BY <3>3
      <4>2. st[e] = StatusOf(e)
        OBVIOUS
      <4> QED
        BY <3>3, <4>1, <4>2
        DEF Delivery!Next, Delivery!Accept, Delivery!Reject, Delivery!Take,
            Delivery!Finish, Delivery!Move
    <3> QED
      BY <3>1, <3>2, <3>3 DEF DeliveryStep
  <2>2. CASE UNCHANGED vars
    BY <2>2 DEF vars, bootVars, pushVars, workVars, fwdVars, ctlVars,
       StatusOf, Queued, Forwarded, Running
  <2> QED
    BY <2>1, <2>2
<1> QED
  BY <1>1, <1>2, Invariance, PTL DEF Spec, Delivers, Delivery!Spec

-----------------------------------------------------------------------------
(* What an accepted event has been given to.  handlers holds exactly what  *)
(* was registered so far, nobody pushes before the registrations are done, *)
(* and what a worker has run for its event, with what it has still to run, *)
(* is the list that it copied.                                             *)

HandlersListed ==
    \A n \in Names : Lists(handlers[n], SubscribedTo(n, booted))

PushedAfterBoot ==
    \A e \in Events : push[e] # "idle" => booted = Len(Subscriptions)

RanSoFar ==
    /\ \A e \in Events :
          StatusOf(e) \in {"new", "rejected", "accepted"} => ran[e] = << >>
    /\ \A w \in Workers : work[w] = "lookup" => ran[workEv[w]] = << >>
    /\ \A w \in Workers :
          work[w] = "run" => ran[workEv[w]] \o todo[w] = handlers[NameOf[workEv[w]]]
    /\ \A e \in Events : StatusOf(e) = "done" => ran[e] = handlers[NameOf[e]]

Handling == HandlersListed /\ PushedAfterBoot /\ RanSoFar

LEMMA ListsAppend ==
    ASSUME NEW k \in 1..Len(Subscriptions), NEW q \in Seq(HandlerIds),
           Lists(q, SubscribedTo(Subscriptions[k].name, k - 1))
    PROVE  Lists(Append(q, Subscriptions[k].handler),
                 SubscribedTo(Subscriptions[k].name, k))
<1> DEFINE n == Subscriptions[k].name
           S == SubscribedTo(n, k - 1)
           T == SubscribedTo(n, k)
           r == Append(q, Subscriptions[k].handler)
           m == Len(q)
<1>1. /\ k \in Nat \ {0} /\ m \in Nat
      /\ DOMAIN q = 1..m /\ DOMAIN r = 1..(m + 1)
      /\ r[m + 1] = Subscriptions[k].handler
      /\ \A i \in 1..m : r[i] = q[i]
  BY SubscriptionsAssumption
<1>2. T = S \cup {k} /\ \A i \in S : i \in Int /\ i < k
  <2>1. 1..k = (1..(k - 1)) \cup {k}
    BY <1>1
  <2> QED
    BY <1>1, <2>1 DEF SubscribedTo
<1>3. PICK f \in [DOMAIN q -> S] :
         /\ \A i, j \in DOMAIN q : i < j => f[i] < f[j]
         /\ \A i \in S : \E j \in DOMAIN q : f[j] = i
         /\ \A j \in DOMAIN q : q[j] = Subscriptions[f[j]].handler
  BY DEF Lists
<1> HIDE DEF S, T, r, m
<1> DEFINE g == [j \in 1..(m + 1) |-> IF j = m + 1 THEN k ELSE f[j]]
<1>4. /\ g[m + 1] = k
      /\ \A j \in 1..m : g[j] = f[j] /\ f[j] \in S
      /\ \A j \in 1..(m + 1) : j \in 1..m \/ j = m + 1
      /\ \A j \in 1..m : j \in 1..(m + 1) /\ j < m + 1
      /\ m + 1 \in 1..(m + 1)
  BY <1>1, <1>3
<1>5. g \in [1..(m + 1) -> T]
  BY <1>2, <1>4
<1> HIDE DEF g
<1>6. ASSUME NEW i \in 1..(m + 1), NEW j \in 1..(m + 1), i < j
      PROVE  g[i] < g[j]
  <2>1. i \in 1..m
    BY <1>1, <1>4, <1>6
  <2>2. CASE j \in 1..m
    BY <1>1, <1>3, <1>4, <1>6, <2>1, <2>2
  <2>3. CASE j = m + 1
    BY <1>2, <1>4, <2>1, <2>3
  <2> QED
    BY <1>4, <2>2, <2>3
<1>7. ASSUME NEW i \in T
      PROVE  \E j \in 1..(m + 1) : g[j] = i
  <2>1. CASE i = k
    BY <1>4, <2>1
  <2>2. CASE i \in S
    BY <1>1, <1>3, <1>4, <2>2
  <2> QED
    BY <1>2, <2>1, <2>2
<1>8. \A j \in 1..(m + 1) : r[j] = Subscriptions[g[j]].handler
  BY <1>1, <1>3, <1>4
<1>9. Lists(r, T)
  <2>1. g \in [DOMAIN r -> T] /\ DOMAIN r = 1..(m + 1)
    BY <1>1, <1>5
  <2>2. \A i, j \in DOMAIN r : i < j => g[i] < g[j]
    BY <1>6, <2>1
  <2>3. \A i \in T : \E j \in DOMAIN r : g[j] = i
    BY <1>7, <2>1
  <2>4. \A j \in DOMAIN r : r[j] = Subscriptions[g[j]].handler
    BY <1>8, <2>1
  <2>5. \E h \in [DOMAIN r -> T] :
           /\ \A i, j \in DOMAIN r : i < j => h[i] < h[j]
           /\ \A i \in T : \E j \in DOMAIN r : h[j] = i
           /\ \A j \in DOMAIN r : r[j] = Subscriptions[h[j]].handler
    BY <2>1, <2>2, <2>3, <2>4
  <2> QED
    BY <2>5 DEF Lists
<1> QED
  BY <1>9 DEF r, T

LEMMA RegisterListed ==
    ASSUME IInv, Handling, RegisterEventHandler
    PROVE  HandlersListed'
<1> DEFINE s == Subscriptions[booted + 1]
<1>1. /\ booted + 1 \in 1..Len(Subscriptions) /\ booted \in Nat
      /\ booted' = booted + 1 /\ (booted + 1) - 1 = booted
      /\ handlers' = [handlers EXCEPT ![s.name] = Append(@, s.handler)]
      /\ handlers \in [Names -> Seq(HandlerIds)]
  BY SubscriptionsAssumption DEF RegisterEventHandler, IInv, TypeOK
<1>2. s.name \in Names
  <2>1. s \in [name : Names, handler : HandlerIds]
    BY <1>1, SubscriptionsAssumption, ElementLemma
  <2> QED
    BY <2>1
<1> SUFFICES ASSUME NEW n \in Names
             PROVE  Lists(handlers'[n], SubscribedTo(n, booted + 1))
  BY <1>1 DEF HandlersListed
<1>3. Lists(handlers[n], SubscribedTo(n, booted))
  BY DEF Handling, HandlersListed
<1>4. CASE n = s.name
  <2>1. handlers'[n] = Append(handlers[n], s.handler) /\ handlers[n] \in Seq(HandlerIds)
    BY <1>1, <1>4
  <2> HIDE DEF s
  <2>2. Lists(handlers[n], SubscribedTo(Subscriptions[booted + 1].name, (booted + 1) - 1))
    BY <1>1, <1>3, <1>4 DEF s
  <2>3. Lists(Append(handlers[n], Subscriptions[booted + 1].handler),
              SubscribedTo(Subscriptions[booted + 1].name, booted + 1))
    BY <1>1, <2>1, <2>2, ListsAppend
  <2> QED
    BY <1>4, <2>1, <2>3 DEF s
<1>5. CASE n # s.name
  <2>1. handlers'[n] = handlers[n]
    BY <1>1, <1>5
  <2>2. SubscribedTo(n, booted + 1) = SubscribedTo(n, booted)
    <3>1. 1..(booted + 1) = (1..booted) \cup {booted + 1}
      BY <1>1
    <3> QED
      BY <1>5, <3>1 DEF SubscribedTo
  <2> QED
    BY <1>3, <2>1, <2>2
<1> QED
  BY <1>4, <1>5

\* What every step but a registration, a receive and the processing of an
\* event does: nothing to the handlers and nothing for a running event.
Quiet ==
    /\ handlers' = handlers /\ booted' = booted
    /\ ran' = ran /\ todo' = todo /\ workEv' = workEv
    /\ \A w \in Workers : work'[w] \in {"lookup", "run"} => work'[w] = work[w]

LEMMA QuietKeepsRan ==
    ASSUME IInv, RanSoFar, Next, Quiet
    PROVE  RanSoFar'
<1>1. \A e \in Events : Running(e)' <=> Running(e)
  BY DEF Quiet, Running
<1>2. \A e \in Events :
         \/ StatusOf(e)' = StatusOf(e)
         \/ /\ StatusOf(e) \in {"new", "accepted", "running"}
            /\ StatusOf(e)' \in {"accepted", "rejected", "running", "done"}
            /\ StatusOf(e)' = "done" => StatusOf(e) = "running"
            /\ StatusOf(e) = "running" => StatusOf(e)' = "done"
  BY DeliveryStepLemma DEF DeliveryStep
<1>3. \A e \in Events : StatusOf(e) = "running" => Running(e) /\ push[e] = "ok"
  BY DEF StatusOf
<1>4. \A e \in Events : StatusOf(e)' = "done" => ~Running(e)' \/ push'[e] # "ok"
  BY DEF StatusOf
<1>5. \A e \in Events : StatusOf(e)' = "done" => push'[e] = "ok"
  BY DEF StatusOf
<1>6. \A e \in Events :
         /\ StatusOf(e)' = "done" => StatusOf(e) = "done"
         /\ StatusOf(e)' \in {"new", "rejected", "accepted"}
               => StatusOf(e) \in {"new", "rejected", "accepted"}
  BY <1>1, <1>2, <1>3, <1>4, <1>5
<1> QED
  BY <1>6 DEF Quiet, RanSoFar

LEMMA QuietStep ==
    ASSUME IInv, Next
    PROVE  \/ Quiet
           \/ RegisterEventHandler
           \/ \E w \in Workers : \/ WorkerReceive(w) \/ ProcessLookup(w)
                                 \/ ProcessHandle(w) \/ ProcessReturn(w)
<1> USE DEF bootVars, pushVars, workVars, fwdVars, ctlVars
<1> USE DEF IInv, TypeOK, Quiet
<1>1. ASSUME NEW e \in Events, PushBegin(e)
      PROVE  Quiet
  BY <1>1, EventsAssumption DEF PushBegin
<1>2. ASSUME NEW e \in Events, PushFast(e)
      PROVE  Quiet
  BY <1>2, EventsAssumption DEF PushFast
<1>3. ASSUME NEW e \in Events, PushSlow(e)
      PROVE  Quiet
  BY <1>3, EventsAssumption DEF PushSlow
<1>4. ASSUME NEW e \in Events, PushPanic(e)
      PROVE  Quiet
  BY <1>4, EventsAssumption DEF PushPanic
<1>5. ASSUME NEW e \in Events, PushLock(e)
      PROVE  Quiet
  BY <1>5, EventsAssumption DEF PushLock
<1>6. ASSUME NEW e \in Events, PushRetry(e)
      PROVE  Quiet
  BY <1>6, EventsAssumption DEF PushRetry
<1>7. ASSUME NEW e \in Events, PushGrow(e)
      PROVE  Quiet
  BY <1>7, EventsAssumption DEF PushGrow
<1>8. ASSUME NEW e \in Events, PushRetryPanic(e)
      PROVE  Quiet
  BY <1>8, EventsAssumption DEF PushRetryPanic
<1>9. ASSUME NEW g \in Gens, FwdReceive(g)
      PROVE  Quiet
  BY <1>9, EventsAssumption DEF FwdReceive
<1>10. ASSUME NEW g \in Gens, FwdEval(g)
      PROVE  Quiet
  BY <1>10, EventsAssumption DEF FwdEval
<1>11. ASSUME NEW g \in Gens, FwdSend(g)
      PROVE  Quiet
  BY <1>11, EventsAssumption DEF FwdSend
<1>12. ASSUME NEW g \in Gens, FwdPanic(g)
      PROVE  Quiet
  BY <1>12, EventsAssumption DEF FwdPanic
<1>13. ASSUME NEW w \in Workers, WorkerEval(w)
      PROVE  Quiet
  BY <1>13, EventsAssumption DEF WorkerEval
<1>14. ASSUME NEW w \in Workers, WorkerExit(w)
      PROVE  Quiet
  BY <1>14, EventsAssumption DEF WorkerExit
<1>15. ASSUME Cancel
      PROVE  Quiet
  BY <1>15, EventsAssumption DEF Cancel
<1>16. ASSUME CloseChannel
      PROVE  Quiet
  BY <1>16, EventsAssumption DEF CloseChannel
<1>17. ASSUME WaitWorkers
      PROVE  Quiet
  BY <1>17, EventsAssumption DEF WaitWorkers
<1> QED
  BY <1>1, <1>2, <1>3, <1>4, <1>5, <1>6, <1>7, <1>8, <1>9, <1>10, <1>11, <1>12, <1>13, <1>14, <1>15, <1>16, <1>17 DEF Next, PushEvent, Forward, Worker, Shutdown

LEMMA BootStep ==
    ASSUME IInv, Handling, Next
    PROVE  PushedAfterBoot'
<1>1. CASE RegisterEventHandler
  BY <1>1, SubscriptionsAssumption
  DEF RegisterEventHandler, pushVars, Handling, PushedAfterBoot, IInv, TypeOK
<1>2. ASSUME NEW e \in Events, PushBegin(e)
      PROVE  PushedAfterBoot'
  BY <1>2 DEF PushBegin, bootVars, PushedAfterBoot
<1>3. ASSUME booted' = booted,
             \A e \in Events : push'[e] # "idle" => push[e] # "idle"
      PROVE  PushedAfterBoot'
  BY <1>3 DEF Handling, PushedAfterBoot
<1>4. ASSUME NEW e \in Events, PushEvent(e)
      PROVE  PushedAfterBoot'
  BY <1>2, <1>3, <1>4
  DEF PushEvent, PushFast, PushSlow, PushPanic, PushLock, PushRetry, PushGrow,
      PushRetryPanic, bootVars, IInv, TypeOK
<1>5. ASSUME booted' = booted, push' = push
      PROVE  PushedAfterBoot'
  BY <1>3, <1>5
<1>6. ASSUME NEW g \in Gens, Forward(g)
      PROVE  PushedAfterBoot'
  BY <1>5, <1>6
  DEF Forward, FwdReceive, FwdEval, FwdSend, FwdPanic, bootVars, pushVars
<1>7. ASSUME NEW w \in Workers, Worker(w)
      PROVE  PushedAfterBoot'
  BY <1>5, <1>7
  DEF Worker, WorkerEval, WorkerReceive, WorkerExit, ProcessLookup,
      ProcessHandle, ProcessReturn, bootVars, pushVars
<1>8. CASE Cancel \/ Shutdown
  BY <1>5, <1>8 DEF Cancel, Shutdown, CloseChannel, WaitWorkers, bootVars, pushVars
<1> QED
  BY <1>1, <1>4, <1>6, <1>7, <1>8 DEF Next

LEMMA AppendHeadTail ==
    ASSUME NEW S, NEW p \in Seq(S), NEW q \in Seq(S), q # << >>
    PROVE  Append(p, Head(q)) \o Tail(q) = p \o q
  OBVIOUS

LEMMA RanStep ==
    ASSUME IInv, Handling, Next
    PROVE  RanSoFar'
<1>0. /\ RanSoFar
      /\ \A w \in Workers : work[w] \in {"lookup", "run"} => workEv[w] \in Events
  BY DEF Handling, IInv, TypeOK, HandsAgree
<1>1. CASE RegisterEventHandler
  <2>1. \A e \in Events : push[e] = "idle"
    BY <1>1, SubscriptionsAssumption
    DEF RegisterEventHandler, Handling, PushedAfterBoot, IInv, TypeOK
  <2>2. \A w \in Workers : work[w] \notin {"lookup", "run"}
    BY <1>0, <2>1 DEF IInv, NoDuplicate, Running
  <2>3. /\ push' = push /\ ran' = ran /\ work' = work
    BY <1>1 DEF RegisterEventHandler, pushVars, workVars
  <2>4. \A e \in Events : StatusOf(e) = "new" /\ StatusOf(e)' = "new"
    BY <2>1, <2>3 DEF StatusOf
  <2> QED
    BY <1>0, <2>2, <2>3, <2>4 DEF RanSoFar
<1>2. ASSUME NEW w \in Workers, WorkerReceive(w)
      PROVE  RanSoFar'
  <2>0. PICK x \in Events : x = Head(buf[workCh[w]])
    BY <1>2, ReceiveLemma DEF IInv, WorkerReceive, TypeOK, NoDuplicate, Buffered
  <2>1. x \in Buffered(buf) /\ Buffered(buf') = Buffered(buf) \ {x}
    BY <1>2, <2>0, ReceiveLemma DEF IInv, WorkerReceive, TypeOK, NoDuplicate
  <2>2. push[x] = "ok" /\ ~Running(x)
    BY <2>1 DEF IInv, NoDuplicate, Buffered, Queued
  <2>3. /\ workEv' = [workEv EXCEPT ![w] = x]
        /\ work' = [work EXCEPT ![w] = "lookup"]
        /\ fwdEv' = fwdEv /\ push' = push /\ ran' = ran /\ todo' = todo
        /\ handlers' = handlers
        /\ workEv \in [Workers -> Events \cup {NoEvent}]
        /\ work \in [Workers -> WorkStates]
    BY <1>2, <2>0 DEF IInv, WorkerReceive, TypeOK, pushVars, fwdVars, bootVars
  <2>4. StatusOf(x) = "accepted" /\ StatusOf(x)' = "running"
    BY <2>1, <2>2, <2>3 DEF StatusOf, Queued, Running
  <2>5. workEv[w] = NoEvent
    BY <1>2 DEF IInv, HandsAgree, WorkerReceive
  <2>6. \A d \in Events : d # x => StatusOf(d)' = StatusOf(d)
    <3>1. \A d \in Events : d # x => (Queued(d)' <=> Queued(d)) /\ (Running(d)' <=> Running(d))
      BY <2>1, <2>3, <2>5, EventsAssumption DEF Queued, Forwarded, Running
    <3> QED
      BY <2>3, <3>1 DEF StatusOf
  <2>7. ran[x] = << >>
    BY <1>0, <2>4 DEF RanSoFar
  <2>8. \A v \in Workers : v # w => workEv'[v] = workEv[v] /\ work'[v] = work[v]
    BY <2>3
  <2>9. workEv'[w] = x /\ work'[w] = "lookup"
    BY <2>3
  <2> QED
    BY <1>0, <2>3, <2>4, <2>6, <2>7, <2>8, <2>9 DEF RanSoFar
<1>3. ASSUME NEW w \in Workers, ProcessLookup(w)
      PROVE  RanSoFar'
  <2>1. /\ workEv' = workEv /\ ran' = ran /\ handlers' = handlers
        /\ push' = push /\ buf' = buf /\ fwdEv' = fwdEv
        /\ work[w] = "lookup" /\ work'[w] = "run"
        /\ todo'[w] = handlers[NameOf[workEv[w]]]
        /\ \A v \in Workers : v # w => work'[v] = work[v] /\ todo'[v] = todo[v]
    BY <1>3 DEF ProcessLookup, IInv, TypeOK, bootVars, pushVars, fwdVars
  <2>2. \A e \in Events : StatusOf(e)' = StatusOf(e)
    BY <2>1 DEF StatusOf, Queued, Forwarded, Running
  <2>3. todo'[w] \in Seq(HandlerIds)
    BY <1>0, <2>1, SubscriptionsAssumption DEF IInv, TypeOK
  <2>4. ran[workEv[w]] \o todo'[w] = handlers[NameOf[workEv[w]]]
    <3>1. ran[workEv[w]] = << >>
      BY <1>0, <2>1 DEF RanSoFar
    <3>2. << >> \o todo'[w] = todo'[w]
      BY <2>3
    <3> QED
      BY <2>1, <3>1, <3>2
  <2> QED
    BY <1>0, <2>1, <2>2, <2>4 DEF RanSoFar
<1>4. ASSUME NEW w \in Workers, ProcessHandle(w)
      PROVE  RanSoFar'
  <2>1. PICK x \in Events : x = workEv[w] /\ work[w] = "run"
    BY <1>0, <1>4 DEF ProcessHandle
  <2>2. /\ workEv' = workEv /\ work' = work /\ handlers' = handlers
        /\ push' = push /\ buf' = buf /\ fwdEv' = fwdEv
        /\ todo[w] # << >> /\ todo[w] \in Seq(HandlerIds) /\ ran[x] \in Seq(HandlerIds)
        /\ ran'[x] = Append(ran[x], Head(todo[w])) /\ todo'[w] = Tail(todo[w])
        /\ \A v \in Workers : v # w => todo'[v] = todo[v]
        /\ \A e \in Events : e # x => ran'[e] = ran[e]
    BY <1>4, <2>1 DEF ProcessHandle, IInv, TypeOK, bootVars, pushVars, fwdVars
  <2>3. \A e \in Events : StatusOf(e)' = StatusOf(e)
    BY <2>2 DEF StatusOf, Queued, Forwarded, Running
  <2>4. StatusOf(x) = "running"
    BY <2>1 DEF StatusOf, Running, IInv, NoDuplicate
  <2>5. \A v \in Workers : workEv[v] = x => v = w
    BY <2>1, EventsAssumption DEF IInv, NoDuplicate
  <2>6. ran'[x] \o todo'[w] = handlers[NameOf[x]]
    <3>1. ran'[x] \o todo'[w] = ran[x] \o todo[w]
      BY <2>2, AppendHeadTail
    <3> QED
      BY <1>0, <2>1, <3>1 DEF RanSoFar
  <2>7. \A v \in Workers : v # w /\ work[v] \in {"lookup", "run"} =>
           ran'[workEv[v]] = ran[workEv[v]] /\ todo'[v] = todo[v]
    BY <1>0, <2>2, <2>5
  <2>8. \A e \in Events :
           /\ StatusOf(e)' \in {"new", "rejected", "accepted"} => ran'[e] = << >>
           /\ StatusOf(e)' = "done" => ran'[e] = handlers'[NameOf[e]]
    BY <1>0, <2>2, <2>3, <2>4 DEF RanSoFar
  <2>9. \A v \in Workers :
           /\ work'[v] = "lookup" => ran'[workEv'[v]] = << >>
           /\ work'[v] = "run" =>
                 ran'[workEv'[v]] \o todo'[v] = handlers'[NameOf[workEv'[v]]]
    <3> SUFFICES ASSUME NEW v \in Workers, work[v] \in {"lookup", "run"}
                 PROVE  /\ work[v] = "lookup" => ran'[workEv[v]] = << >>
                        /\ work[v] = "run" =>
                              ran'[workEv[v]] \o todo'[v] = handlers[NameOf[workEv[v]]]
      BY <2>2
    <3>1. CASE v = w
      BY <2>1, <2>6, <3>1
    <3>2. CASE v # w
      BY <1>0, <2>7, <3>2 DEF RanSoFar
    <3> QED
      BY <3>1, <3>2
  <2> QED
    BY <2>8, <2>9 DEF RanSoFar
<1>5. ASSUME NEW w \in Workers, ProcessReturn(w)
      PROVE  RanSoFar'
  <2>1. PICK x \in Events : x = workEv[w] /\ work[w] = "run"
    BY <1>0, <1>5 DEF ProcessReturn
  <2>2. /\ todo' = todo /\ ran' = ran /\ handlers' = handlers
        /\ push' = push /\ buf' = buf /\ fwdEv' = fwdEv
        /\ todo[w] = << >> /\ ran[x] \in Seq(HandlerIds)
        /\ workEv'[w] = NoEvent /\ work'[w] = "loop"
        /\ \A v \in Workers : v # w => work'[v] = work[v] /\ workEv'[v] = workEv[v]
    BY <1>5, <2>1 DEF ProcessReturn, IInv, TypeOK, bootVars, pushVars, fwdVars
  <2>3. ran[x] = handlers[NameOf[x]]
    <3>1. ran[x] \o << >> = ran[x]
      BY <2>2
    <3> QED
      BY <1>0, <2>1, <2>2, <3>1 DEF RanSoFar
  <2>4. \A e \in Events : e # x => StatusOf(e)' = StatusOf(e)
    <3>1. \A e \in Events : e # x => (Running(e)' <=> Running(e))
      BY <2>1, <2>2, EventsAssumption DEF Running
    <3> QED
      BY <2>2, <3>1 DEF StatusOf, Queued, Forwarded
  <2>5. StatusOf(x)' \notin {"new", "rejected", "accepted"}
    BY <2>1, <2>2 DEF StatusOf, Running, Queued, Forwarded, IInv, NoDuplicate
  <2> QED
    BY <1>0, <2>2, <2>3, <2>4, <2>5 DEF RanSoFar
<1>6. CASE Quiet
  BY <1>0, <1>6, QuietKeepsRan
<1> QED
  BY <1>1, <1>2, <1>3, <1>4, <1>5, <1>6, QuietStep

LEMMA ListedStep ==
    ASSUME IInv, Handling, Next
    PROVE  HandlersListed'
<1>1. CASE RegisterEventHandler
  BY <1>1, RegisterListed
<1>2. CASE handlers' = handlers /\ booted' = booted
  BY <1>2 DEF Handling, HandlersListed
<1> QED
  BY <1>1, <1>2, QuietStep
  DEF Quiet, WorkerReceive, ProcessLookup, ProcessHandle, ProcessReturn, bootVars

\* Whatever the subscriptions, the events and the interleaving of pushes,
\* channel replacements, forwarding and workers: an event that PushEvent
\* accepted and that is no longer waiting or being processed has been given
\* to every handler registered for its name, once and in order.
THEOREM CompletelyHandled == Spec => []HandledCompletely
<1>1. Init => Handling
  <2> SUFFICES ASSUME Init PROVE Handling
    OBVIOUS
  <2>1. /\ booted = 0
        /\ handlers = [n \in Names |-> << >>]
        /\ push = [e \in Events |-> "idle"]
        /\ ran = [e \in Events |-> << >>]
        /\ work = [w \in Workers |-> "loop"]
    BY DEF Init
  <2>2. HandlersListed
    <3> SUFFICES ASSUME NEW n \in Names
                 PROVE  Lists(handlers[n], SubscribedTo(n, booted))
      BY DEF HandlersListed
    <3>1. handlers[n] = << >> /\ SubscribedTo(n, booted) = {}
      BY <2>1 DEF SubscribedTo
    <3>2. << >> \in [DOMAIN << >> -> {}] /\ DOMAIN << >> = {}
      OBVIOUS
    <3> QED
      BY <3>1, <3>2 DEF Lists
  <2>3. \A e \in Events : StatusOf(e) = "new"
    BY <2>1 DEF StatusOf
  <2> QED
    BY <2>1, <2>2, <2>3 DEF Handling, PushedAfterBoot, RanSoFar
<1>2. IInv /\ Handling /\ [Next]_vars => Handling'
  <2> SUFFICES ASSUME IInv, Handling, [Next]_vars PROVE Handling'
    OBVIOUS
  <2>1. CASE Next
    BY <2>1, ListedStep, BootStep, RanStep DEF Handling
  <2>2. CASE UNCHANGED vars
    BY <2>2 DEF vars, bootVars, pushVars, workVars, fwdVars, Handling,
       HandlersListed, PushedAfterBoot, RanSoFar, StatusOf, Queued, Forwarded,
       Running
  <2> QED
    BY <2>1, <2>2
<1>3. IInv /\ Handling => HandledCompletely
  <2> SUFFICES ASSUME IInv, Handling, NEW e \in Events,
                      push[e] = "ok", ~Queued(e), ~Running(e)
               PROVE  Lists(ran[e], SubscribedTo(NameOf[e], Len(Subscriptions)))
    BY DEF HandledCompletely
  <2>1. StatusOf(e) = "done"
    BY DEF StatusOf
  <2>2. ran[e] = handlers[NameOf[e]] /\ booted = Len(Subscriptions)
    BY <2>1 DEF Handling, RanSoFar, PushedAfterBoot
  <2> QED
    BY <2>2, SubscriptionsAssumption DEF Handling, HandlersListed
<1> QED
  BY <1>1, <1>2, <1>3, Invariance, PTL DEF Spec

=============================================================================
