---------------------------- MODULE ConfigProofs ----------------------------
(***************************************************************************)
(* Proofs about Config, for every set of threads, names, types and files,  *)
(* and any number of listeners.                                            *)
(***************************************************************************)
EXTENDS Config, TLAPS

Adding == {"store", "put", "return"}

\* A thread that works on a variable works on a registered one.
OnRegistered ==
    \A t \in Threads : th[t].at \in {"read", "notify", "write"} \cup Adding =>
        th[t].n \in Names /\ datas[th[t].n] # Null

\* The counters stay within the calls of addListener().
Counters ==
    /\ \A T \in Types : s_fun_id[T] <= adds
    /\ \A t \in Threads :
         /\ At(t, "store") => th[t].id < adds
         /\ th[t].at \in {"put", "return"} => s_fun_id[TypeOf(t)] >= 1
         /\ th[t].at \in Adding => th[t].l \in 1..adds

\* Whoever has the write lock of a variable is alone.
Exclusive ==
    \A t, u \in Threads : th[t].at \in Adding /\ th[t].n = th[u].n =>
        ~At(u, "notify") /\ (th[u].at \in Adding => u = t)

\* A listener is registered once, and not before it is put into the map.
OncePlaced ==
    /\ \A n, m \in Names : \A i, j \in Ids :
         m_cbs[n][i] # Null /\ m_cbs[n][i] = m_cbs[m][j] => n = m /\ i = j
    /\ \A n \in Names : \A i \in Ids : m_cbs[n][i] # Null => m_cbs[n][i] <= adds
    /\ \A t \in Threads : th[t].at \in {"store", "put"} =>
         /\ \A n \in Names : \A i \in Ids : m_cbs[n][i] # th[t].l
         /\ \A u \in Threads : th[u].at \in Adding /\ u # t => th[u].l # th[t].l

IndInv == /\ TypeOK /\ OnRegistered /\ HeldIsRegistered /\ Counters
          /\ Exclusive /\ OncePlaced /\ IterationStable

\* A thread that is in no operation, and no load, have their types.
LEMMA Idles == Idle \in Locals /\ NoLoad \in [file: Seq(Nodes), early: SUBSET Names]
BY ConfigAssumption DEF Idle, NoLoad, Locals, Labels, Listeners

\* Only the thread that moves changes its locals, and they keep their types.
LEMMA LocalSteps ==
  ASSUME TypeOK, OnRegistered, Counters, HeldIsRegistered, NEW t \in Threads, Step(t)
  PROVE  th' = [th EXCEPT ![t] = th'[t]] /\ th'[t] \in Locals
<1> DEFINE Moves(r) == th' = [th EXCEPT ![t] = r]
           Goal == th' = [th EXCEPT ![t] = th'[t]] /\ th'[t] \in Locals
<1>0. th \in [Threads -> Locals] /\ th[t] \in Locals /\ Idle \in Locals
  BY Idles DEF TypeOK
<1>z. 0 \in 0..MaxAdds /\ \A n, j : After(n, j) \subseteq 0..MaxAdds
  BY ConfigAssumption DEF After, Ids
<1>1. CASE Visit(t)
  <2>1. [Idle EXCEPT !.at = "visit", !.n = Null] \in Locals
    BY <1>0 DEF Locals, Labels
  <2> QED
    BY <1>1, <2>1, <1>0 DEF Visit, Begin
<1>2. ASSUME Moves(Idle) PROVE Goal
  BY <1>0, <1>2
<1>3. ASSUME NEW f \in Files, Load(t, f) PROVE Goal
  <2>1. f \in Seq(Nodes)
    BY ConfigAssumption DEF Nodes
  <2> DEFINE E == {n \in Names : datas[n] # Null}
  <2>2. [Idle EXCEPT !.at = "load", !.loading = TRUE, !.file = f, !.rest = f,
      !.early = E] \in Locals
    BY <2>1, <1>0 DEF Locals, Labels
  <2> QED
    BY <1>3, <2>2, <1>0 DEF Load
<1>4. CASE LoadNext(t)
  <2> DEFINE e == Head(th[t].rest)
  <2>1. th[t].rest \in Seq(Nodes) /\ th[t].rest # <<>>
    BY <1>4, <1>0 DEF LoadNext, Locals
  <2>2. e \in Nodes /\ Tail(th[t].rest) \in Seq(Nodes)
    BY <2>1
  <2>3. Converted(e) \in Vals \cup {Null} /\ e.name \in Names
    BY <2>2, ConfigAssumption DEF Converted, Nodes, TypeOK
  <2>4. [th[t] EXCEPT !.rest = Tail(th[t].rest)] \in Locals
    BY <2>2, <1>0 DEF Locals
  <2>5. [th[t] EXCEPT !.rest = Tail(th[t].rest), !.at = "read", !.n = e.name,
      !.v = Converted(e)] \in Locals
    BY <2>2, <2>3, <1>0 DEF Locals, Labels
  <2>6. CASE Converted(e) = Null
    BY <1>4, <2>4, <2>6, <1>0 DEF LoadNext, Continue
  <2>7. CASE Converted(e) # Null
    BY <1>4, <2>5, <2>7, <1>0 DEF LoadNext, Continue
  <2> QED
    BY <2>6, <2>7
<1>5. ASSUME NEW n \in Names, NEW v \in Vals, SetValue(t, n, v) PROVE Goal
  <2>1. [Idle EXCEPT !.at = "read", !.n = n, !.v = v] \in Locals
    BY <1>0 DEF Locals, Labels
  <2> QED
    BY <1>5, <2>1, <1>0 DEF SetValue
<1>6. ASSUME Return(t) PROVE Goal
  <2>1. [th[t] EXCEPT !.at = "load", !.n = Null, !.v = Null, !.old = Null,
      !.id = 0] \in Locals
    BY <1>0, <1>z DEF Locals, Labels
  <2> QED
    BY <1>6, <2>1, <1>0 DEF Return
<1>7. CASE SetBegin(t)
  <2> DEFINE n == th[t].n
  <2>1. m_val[n] \in Vals \cup {Null} /\ Registered(n) \subseteq Listeners
    BY <1>7 DEF SetBegin, At, TypeOK, OnRegistered, Registered
  <2>2. [th[t] EXCEPT !.at = "notify", !.old = m_val[n], !.id = 0,
      !.due = Registered(n)] \in Locals
    BY <2>1, <1>0, <1>z DEF Locals, Labels
  <2> QED
    BY <1>7, <2>2, <1>0 DEF SetBegin
<1>8. CASE Notify(t)
  <2> DEFINE n == th[t].n
  <2>1. PICK i \in After(n, th[t].id) :
            th' = [th EXCEPT ![t] = [@ EXCEPT !.id = i, !.due = th[t].due \ {m_cbs[n][i]}]]
    BY <1>8 DEF Notify
  <2>2. [th[t] EXCEPT !.id = i, !.due = th[t].due \ {m_cbs[n][i]}] \in Locals
    BY <2>1, <1>0, <1>z DEF Locals
  <2> QED
    BY <2>1, <2>2, <1>0
<1>9. CASE NotifyEnd(t)
  <2>1. [th[t] EXCEPT !.at = "write"] \in Locals
    BY <1>0 DEF Locals, Labels
  <2> QED
    BY <1>9, <2>1, <1>0 DEF NotifyEnd
<1>10. ASSUME NEW n \in Names, AddListener(t, n) PROVE Goal
  <2>1. s_fun_id[datas[n]] \in 0..MaxAdds /\ adds + 1 \in 0..MaxAdds
    BY <1>10, ConfigAssumption DEF AddListener, Pointer, TypeOK, HeldIsRegistered
  <2>2. [Idle EXCEPT !.at = "store", !.n = n, !.l = adds + 1,
      !.id = s_fun_id[datas[n]]] \in Locals
    BY <2>1, <1>0 DEF Locals, Labels
  <2> QED
    BY <1>10, <2>2, <1>0 DEF AddListener
<1>11. CASE AddStore(t) \/ AddPut(t)
  <2>1. [th[t] EXCEPT !.at = "put"] \in Locals /\ [th[t] EXCEPT !.at = "return"] \in Locals
    BY <1>0 DEF Locals, Labels
  <2> QED
    BY <1>11, <2>1, <1>0 DEF AddStore, AddPut
<1>12. ASSUME UNCHANGED th PROVE Goal
  BY <1>0, <1>12
<1> QED
  BY <1>1, <1>2, <1>3, <1>4, <1>5, <1>6, <1>7, <1>8, <1>9, <1>10, <1>11, <1>12
  DEF Step, LookupExists, LookupCreate, VisitEnd, LoadEnd, SetSame, Assign, AddReturn,
      delListerer, clearListener

\* Every step keeps the types.
LEMMA NextTypes ==
  ASSUME IndInv, NEW t \in Threads, Step(t)
  PROVE  TypeOK'
<1>0. TypeOK /\ OnRegistered /\ Counters /\ HeldIsRegistered
  BY DEF IndInv
<1>a. th' \in [Threads -> Locals] /\ NoLoad \in [file: Seq(Nodes), early: SUBSET Names]
  BY <1>0, LocalSteps, Idles DEF TypeOK
<1>b. /\ th[t].v \in Vals \cup {Null} /\ th[t].id \in 0..MaxAdds
      /\ th[t].file \in Seq(Nodes) /\ th[t].early \in SUBSET Names
  BY <1>0 DEF TypeOK, Locals
<1>c. th[t].at \in {"read", "notify", "write"} \cup Adding
         => th[t].n \in Names /\ datas[th[t].n] \in Types
  BY <1>0 DEF TypeOK, OnRegistered
<1>d. th[t].at \in Adding => th[t].l \in Listeners
  BY <1>0, ConfigAssumption DEF Counters, TypeOK, Listeners
<1>e. th[t].at \in {"put", "return"} => s_fun_id[TypeOf(t)] \in Ids
  BY <1>0, <1>c, ConfigAssumption DEF Counters, TypeOK, Ids, TypeOf, Adding
<1> USE <1>0, <1>a DEF TypeOK, regVars, cbVars
<1>1. ASSUME NEW n \in Names, NEW T \in Types, LookupExists(t, n, T) PROVE TypeOK'
  BY <1>1 DEF LookupExists
<1>2. ASSUME NEW n \in Names, NEW T \in Types, NEW v \in Vals, LookupCreate(t, n, T, v)
      PROVE  TypeOK'
  BY <1>2 DEF LookupCreate
<1>3. CASE Visit(t)
  BY <1>3 DEF Visit
<1>4. CASE VisitEnd(t)
  BY <1>4 DEF VisitEnd
<1>5. ASSUME NEW f \in Files, Load(t, f) PROVE TypeOK'
  BY <1>5 DEF Load
<1>6. CASE LoadNext(t)
  BY <1>6 DEF LoadNext, Continue
<1>7. CASE LoadEnd(t)
  BY <1>7, <1>b DEF LoadEnd
<1>8. ASSUME NEW n \in Names, NEW v \in Vals, SetValue(t, n, v) PROVE TypeOK'
  BY <1>8 DEF SetValue
<1>9. CASE SetSame(t)
  BY <1>9 DEF SetSame
<1>10. CASE SetBegin(t)
  BY <1>10 DEF SetBegin
<1>11. CASE Notify(t)
  <2>1. PICK i \in After(th[t].n, th[t].id) :
            seen' = [seen EXCEPT ![m_cbs[th[t].n][i]] = th[t].v]
    BY <1>11 DEF Notify
  <2>2. seen' \in [Listeners -> Vals \cup {Null}]
    BY <2>1, <1>b
  <2> QED
    BY <1>11, <2>2 DEF Notify
<1>12. CASE NotifyEnd(t)
  BY <1>12 DEF NotifyEnd
<1>13. CASE Assign(t)
  BY <1>13, <1>b DEF Assign
<1>14. ASSUME NEW n \in Names, AddListener(t, n) PROVE TypeOK'
  <2>1. adds' \in 0..MaxAdds
    BY <1>14, ConfigAssumption DEF AddListener
  <2> QED
    BY <1>14, <2>1 DEF AddListener
<1>15. CASE AddStore(t)
  <2>1. th[t].id + 1 \in 0..MaxAdds
    BY <1>15, <1>b, ConfigAssumption DEF AddStore, Counters, At
  <2>2. s_fun_id' \in [Types -> 0..MaxAdds]
    BY <1>15, <2>1 DEF AddStore
  <2> QED
    BY <1>15, <2>2 DEF AddStore
<1>16. CASE AddPut(t)
  <2>1. m_cbs' \in [Names -> [Ids -> Listeners \cup {Null}]]
    BY <1>16, <1>d DEF AddPut, At, Adding
  <2> QED
    BY <1>16, <2>1 DEF AddPut
<1>17. CASE AddReturn(t)
  <2>1. [n |-> th[t].n, id |-> s_fun_id[TypeOf(t)], l |-> th[t].l]
            \in [n: Names, id: Ids, l: Listeners]
    BY <1>17, <1>c, <1>d, <1>e DEF AddReturn, At, Adding
  <2> QED
    BY <1>17, <2>1 DEF AddReturn
<1>18. ASSUME NEW h \in handles, delListerer(t, h) PROVE TypeOK'
  BY <1>18 DEF delListerer
<1>19. ASSUME NEW n \in Names, clearListener(t, n) PROVE TypeOK'
  BY <1>19 DEF clearListener, NoCbs
<1> QED
  BY <1>1, <1>2, <1>3, <1>4, <1>5, <1>6, <1>7, <1>8, <1>9, <1>10, <1>11, <1>12, <1>13,
      <1>14, <1>15, <1>16, <1>17, <1>18, <1>19 DEF Step

\* Nothing that a thread works on leaves the registry.
LEMMA NextRegistered ==
  ASSUME IndInv, NEW t \in Threads, Step(t)
  PROVE  OnRegistered'
<1>0. TypeOK /\ OnRegistered /\ Counters /\ HeldIsRegistered
  BY DEF IndInv
<1>a. \A u \in Threads \ {t} : th'[u] = th[u]
  BY <1>0, LocalSteps DEF TypeOK
<1>b. th \in [Threads -> Locals] /\ datas \in [Names -> Types \cup {Null}]
  BY <1>0 DEF TypeOK
<1>c. \A n \in Names : Pointer(n) => datas[n] # Null
  BY <1>0, ConfigAssumption DEF HeldIsRegistered, Pointer, TypeOK
<1>d. \A e \in Nodes : Converted(e) # Null => e.name \in Names /\ datas[e.name] # Null
  BY DEF Converted, Nodes
<1> USE <1>0, <1>a, <1>b, ConfigAssumption DEF OnRegistered, regVars, Adding, At, Idle,
    Begin, Locals, Return
<1>1. ASSUME NEW n \in Names, NEW T \in Types, LookupExists(t, n, T) PROVE OnRegistered'
  BY <1>1 DEF LookupExists
<1>2. ASSUME NEW n \in Names, NEW T \in Types, NEW v \in Vals, LookupCreate(t, n, T, v)
      PROVE  OnRegistered'
  BY <1>2 DEF LookupCreate
<1>3. CASE Visit(t)
  BY <1>3 DEF Visit
<1>4. CASE VisitEnd(t)
  BY <1>4 DEF VisitEnd
<1>5. ASSUME NEW f \in Files, Load(t, f) PROVE OnRegistered'
  BY <1>5 DEF Load
<1>6. CASE LoadNext(t)
  <2>1. th[t].rest \in Seq(Nodes) /\ th[t].rest # <<>>
    BY <1>6 DEF LoadNext
  <2>2. Head(th[t].rest) \in Nodes
    BY <2>1
  <2> QED
    BY <1>6, <1>d, <2>2 DEF LoadNext, Continue
<1>7. CASE LoadEnd(t)
  BY <1>7 DEF LoadEnd
<1>8. ASSUME NEW n \in Names, NEW v \in Vals, SetValue(t, n, v) PROVE OnRegistered'
  BY <1>8, <1>c DEF SetValue
<1>9. CASE SetSame(t)
  BY <1>9 DEF SetSame
<1>10. CASE SetBegin(t)
  BY <1>10 DEF SetBegin
<1>11. CASE Notify(t)
  BY <1>11 DEF Notify
<1>12. CASE NotifyEnd(t)
  BY <1>12 DEF NotifyEnd
<1>13. CASE Assign(t)
  BY <1>13 DEF Assign
<1>14. ASSUME NEW n \in Names, AddListener(t, n) PROVE OnRegistered'
  BY <1>14, <1>c DEF AddListener
<1>15. CASE AddStore(t)
  BY <1>15 DEF AddStore
<1>16. CASE AddPut(t)
  BY <1>16 DEF AddPut
<1>17. CASE AddReturn(t)
  BY <1>17 DEF AddReturn
<1>18. ASSUME NEW h \in handles, delListerer(t, h) PROVE OnRegistered'
  BY <1>18 DEF delListerer
<1>19. ASSUME NEW n \in Names, clearListener(t, n) PROVE OnRegistered'
  BY <1>19 DEF clearListener
<1> QED
  BY <1>1, <1>2, <1>3, <1>4, <1>5, <1>6, <1>7, <1>8, <1>9, <1>10, <1>11, <1>12, <1>13,
      <1>14, <1>15, <1>16, <1>17, <1>18, <1>19 DEF Step

\* A pointer that was given out stays the registered one.
LEMMA NextHeld ==
  ASSUME IndInv, NEW t \in Threads, Step(t)
  PROVE  HeldIsRegistered'
<1>0. TypeOK /\ HeldIsRegistered
  BY DEF IndInv
<1>1. ASSUME NEW n \in Names, NEW T \in Types, LookupExists(t, n, T) PROVE HeldIsRegistered'
  BY <1>0, <1>1 DEF LookupExists, HeldIsRegistered
<1>2. ASSUME NEW n \in Names, NEW T \in Types, NEW v \in Vals, LookupCreate(t, n, T, v)
      PROVE  HeldIsRegistered'
  BY <1>0, <1>2, ConfigAssumption DEF LookupCreate, HeldIsRegistered, TypeOK
<1>3. ASSUME UNCHANGED <<datas, held>> PROVE HeldIsRegistered'
  BY <1>0, <1>3 DEF HeldIsRegistered
<1> QED
  BY <1>1, <1>2, <1>3
  DEF Step, regVars, Visit, VisitEnd, Load, LoadNext, LoadEnd, SetValue, SetSame, SetBegin,
      Notify, NotifyEnd, Assign, AddListener, AddStore, AddPut, AddReturn, delListerer,
      clearListener

\* The counters of listeners stay within the calls made.
LEMMA NextCounters ==
  ASSUME IndInv, NEW t \in Threads, Step(t)
  PROVE  Counters'
<1>0. TypeOK /\ OnRegistered /\ Counters /\ Exclusive /\ OncePlaced /\ HeldIsRegistered
  BY DEF IndInv
<1>a. \A u \in Threads \ {t} : th'[u] = th[u]
  BY <1>0, LocalSteps DEF TypeOK
<1>b. /\ th \in [Threads -> Locals] /\ datas \in [Names -> Types \cup {Null}]
      /\ s_fun_id \in [Types -> Nat] /\ adds \in Nat
  BY <1>0, ConfigAssumption DEF TypeOK
<1>c. \A n \in Names : Pointer(n) => datas[n] \in Types
  BY <1>0 DEF HeldIsRegistered, Pointer
<1> USE <1>0, <1>a, <1>b, ConfigAssumption DEF Counters, TypeOf, OnRegistered, regVars,
    cbVars, Adding, At, Idle, Begin, Locals, Return, Continue
<1>1. ASSUME NEW n \in Names, NEW T \in Types, LookupExists(t, n, T) PROVE Counters'
  BY <1>1 DEF LookupExists
<1>2. ASSUME NEW n \in Names, NEW T \in Types, NEW v \in Vals, LookupCreate(t, n, T, v)
      PROVE  Counters'
  BY <1>2 DEF LookupCreate
<1>3. CASE Visit(t)
  BY <1>3 DEF Visit
<1>4. CASE VisitEnd(t)
  BY <1>4 DEF VisitEnd
<1>5. ASSUME NEW f \in Files, Load(t, f) PROVE Counters'
  BY <1>5 DEF Load
<1>6. CASE LoadNext(t)
  BY <1>6 DEF LoadNext
<1>7. CASE LoadEnd(t)
  BY <1>7 DEF LoadEnd
<1>8. ASSUME NEW n \in Names, NEW v \in Vals, SetValue(t, n, v) PROVE Counters'
  BY <1>8 DEF SetValue
<1>9. CASE SetSame(t)
  BY <1>9 DEF SetSame
<1>10. CASE SetBegin(t)
  BY <1>10 DEF SetBegin
<1>11. CASE Notify(t)
  BY <1>11 DEF Notify
<1>12. CASE NotifyEnd(t)
  BY <1>12 DEF NotifyEnd
<1>13. CASE Assign(t)
  BY <1>13 DEF Assign
<1>14. ASSUME NEW n \in Names, AddListener(t, n) PROVE Counters'
  BY <1>14, <1>c DEF AddListener
<1>15. CASE AddStore(t)
  BY <1>15 DEF AddStore
<1>16. CASE AddPut(t)
  BY <1>16 DEF AddPut
<1>17. CASE AddReturn(t)
  BY <1>17 DEF AddReturn
<1>18. ASSUME NEW h \in handles, delListerer(t, h) PROVE Counters'
  BY <1>18 DEF delListerer
<1>19. ASSUME NEW n \in Names, clearListener(t, n) PROVE Counters'
  BY <1>19 DEF clearListener
<1> QED
  BY <1>1, <1>2, <1>3, <1>4, <1>5, <1>6, <1>7, <1>8, <1>9, <1>10, <1>11, <1>12, <1>13,
      <1>14, <1>15, <1>16, <1>17, <1>18, <1>19 DEF Step

\* The write lock of a variable excludes readers and writers.
LEMMA NextExclusive ==
  ASSUME IndInv, NEW t \in Threads, Step(t)
  PROVE  Exclusive'
<1>0. TypeOK /\ OnRegistered /\ Counters /\ Exclusive /\ OncePlaced /\ HeldIsRegistered
  BY DEF IndInv
<1>a. \A u \in Threads \ {t} : th'[u] = th[u]
  BY <1>0, LocalSteps DEF TypeOK
<1>b. /\ th \in [Threads -> Locals] /\ datas \in [Names -> Types \cup {Null}]
      /\ s_fun_id \in [Types -> Nat] /\ adds \in Nat
  BY <1>0, ConfigAssumption DEF TypeOK
<1> USE <1>0, <1>a, <1>b DEF Exclusive, Adding, At, Idle, Begin, Locals, Return,
    Continue, CanWrite, CanRead, Readers, Writers
<1>1. ASSUME NEW n \in Names, NEW T \in Types, LookupExists(t, n, T) PROVE Exclusive'
  BY <1>1 DEF LookupExists
<1>2. ASSUME NEW n \in Names, NEW T \in Types, NEW v \in Vals, LookupCreate(t, n, T, v)
      PROVE  Exclusive'
  BY <1>2 DEF LookupCreate
<1>3. CASE Visit(t)
  BY <1>3 DEF Visit
<1>4. CASE VisitEnd(t)
  BY <1>4 DEF VisitEnd
<1>5. ASSUME NEW f \in Files, Load(t, f) PROVE Exclusive'
  BY <1>5 DEF Load
<1>6. CASE LoadNext(t)
  BY <1>6 DEF LoadNext
<1>7. CASE LoadEnd(t)
  BY <1>7 DEF LoadEnd
<1>8. ASSUME NEW n \in Names, NEW v \in Vals, SetValue(t, n, v) PROVE Exclusive'
  BY <1>8 DEF SetValue
<1>9. CASE SetSame(t)
  BY <1>9 DEF SetSame
<1>10. CASE SetBegin(t)
  BY <1>10 DEF SetBegin
<1>11. CASE Notify(t)
  BY <1>11 DEF Notify
<1>12. CASE NotifyEnd(t)
  BY <1>12 DEF NotifyEnd
<1>13. CASE Assign(t)
  BY <1>13 DEF Assign
<1>14. ASSUME NEW n \in Names, AddListener(t, n) PROVE Exclusive'
  BY <1>14 DEF AddListener
<1>15. CASE AddStore(t)
  BY <1>15 DEF AddStore
<1>16. CASE AddPut(t)
  BY <1>16 DEF AddPut
<1>17. CASE AddReturn(t)
  BY <1>17 DEF AddReturn
<1>18. ASSUME NEW h \in handles, delListerer(t, h) PROVE Exclusive'
  BY <1>18 DEF delListerer
<1>19. ASSUME NEW n \in Names, clearListener(t, n) PROVE Exclusive'
  BY <1>19 DEF clearListener
<1> QED
  BY <1>1, <1>2, <1>3, <1>4, <1>5, <1>6, <1>7, <1>8, <1>9, <1>10, <1>11, <1>12, <1>13,
      <1>14, <1>15, <1>16, <1>17, <1>18, <1>19 DEF Step

\* A listener is put into one map, once.
LEMMA NextPlaced ==
  ASSUME IndInv, NEW t \in Threads, Step(t)
  PROVE  OncePlaced'
<1>0. TypeOK /\ OnRegistered /\ Counters /\ Exclusive /\ OncePlaced /\ HeldIsRegistered
  BY DEF IndInv
<1>a. \A u \in Threads \ {t} : th'[u] = th[u]
  BY <1>0, LocalSteps DEF TypeOK
<1>b. /\ th \in [Threads -> Locals] /\ datas \in [Names -> Types \cup {Null}]
      /\ m_cbs \in [Names -> [Ids -> Listeners \cup {Null}]]
      /\ s_fun_id \in [Types -> Nat] /\ adds \in Nat
  BY <1>0, ConfigAssumption DEF TypeOK
<1>c. Null \notin Nat
  BY ConfigAssumption
<1>d. \A u \in Threads : th[u].at \in Adding => th[u].l \in 1..adds
  BY <1>0 DEF Counters
<1> USE <1>0, <1>a, <1>b, <1>c, <1>d DEF OncePlaced, Adding, At, Idle, Begin, Locals,
    Return, Continue, regVars, cbVars, NoCbs, Listeners
<1>1. ASSUME NEW n \in Names, NEW T \in Types, LookupExists(t, n, T) PROVE OncePlaced'
  BY <1>1 DEF LookupExists
<1>2. ASSUME NEW n \in Names, NEW T \in Types, NEW v \in Vals, LookupCreate(t, n, T, v)
      PROVE  OncePlaced'
  BY <1>2 DEF LookupCreate
<1>3. CASE Visit(t)
  BY <1>3 DEF Visit
<1>4. CASE VisitEnd(t)
  BY <1>4 DEF VisitEnd
<1>5. ASSUME NEW f \in Files, Load(t, f) PROVE OncePlaced'
  BY <1>5 DEF Load
<1>6. CASE LoadNext(t)
  BY <1>6 DEF LoadNext
<1>7. CASE LoadEnd(t)
  BY <1>7 DEF LoadEnd
<1>8. ASSUME NEW n \in Names, NEW v \in Vals, SetValue(t, n, v) PROVE OncePlaced'
  BY <1>8 DEF SetValue
<1>9. CASE SetSame(t)
  BY <1>9 DEF SetSame
<1>10. CASE SetBegin(t)
  BY <1>10 DEF SetBegin
<1>11. CASE Notify(t)
  BY <1>11 DEF Notify
<1>12. CASE NotifyEnd(t)
  BY <1>12 DEF NotifyEnd
<1>13. CASE Assign(t)
  BY <1>13 DEF Assign
<1>14. ASSUME NEW n \in Names, AddListener(t, n) PROVE OncePlaced'
  BY <1>14 DEF AddListener
<1>15. CASE AddStore(t)
  BY <1>15 DEF AddStore
<1>16. CASE AddPut(t)
  BY <1>16 DEF AddPut
<1>17. CASE AddReturn(t)
  BY <1>17 DEF AddReturn
<1>18. ASSUME NEW h \in handles, delListerer(t, h) PROVE OncePlaced'
  BY <1>18 DEF delListerer
<1>19. ASSUME NEW n \in Names, clearListener(t, n) PROVE OncePlaced'
  BY <1>19 DEF clearListener
<1> QED
  BY <1>1, <1>2, <1>3, <1>4, <1>5, <1>6, <1>7, <1>8, <1>9, <1>10, <1>11, <1>12, <1>13,
      <1>14, <1>15, <1>16, <1>17, <1>18, <1>19 DEF Step

\* Nobody disturbs an iteration over the listeners.
LEMMA NextStable ==
  ASSUME IndInv, NEW t \in Threads, Step(t)
  PROVE  IterationStable'
<1>0. TypeOK /\ OnRegistered /\ Counters /\ Exclusive /\ OncePlaced /\ HeldIsRegistered
      /\ IterationStable
  BY DEF IndInv
<1>a. \A u \in Threads \ {t} : th'[u] = th[u]
  BY <1>0, LocalSteps DEF TypeOK
<1>b. /\ th \in [Threads -> Locals] /\ datas \in [Names -> Types \cup {Null}]
      /\ m_cbs \in [Names -> [Ids -> Listeners \cup {Null}]]
      /\ m_val \in [Names -> Vals \cup {Null}]
  BY <1>0 DEF TypeOK
<1>c. \A u \in Threads : At(u, "notify") => th[u].n \in Names /\ datas[th[u].n] # Null
  BY <1>0 DEF OnRegistered, At
<1> USE <1>0, <1>a, <1>b, <1>c DEF IterationStable, After, At, Idle, Begin, Locals,
    Return, Continue, regVars, cbVars
<1>1. ASSUME NEW n \in Names, NEW T \in Types, LookupExists(t, n, T) PROVE IterationStable'
  BY <1>1 DEF LookupExists
<1>2. ASSUME NEW n \in Names, NEW T \in Types, NEW v \in Vals, LookupCreate(t, n, T, v)
      PROVE  IterationStable'
  BY <1>2 DEF LookupCreate
<1>3. CASE Visit(t)
  BY <1>3 DEF Visit
<1>4. CASE VisitEnd(t)
  BY <1>4 DEF VisitEnd
<1>5. ASSUME NEW f \in Files, Load(t, f) PROVE IterationStable'
  BY <1>5 DEF Load
<1>6. CASE LoadNext(t)
  BY <1>6 DEF LoadNext
<1>7. CASE LoadEnd(t)
  BY <1>7 DEF LoadEnd
<1>8. ASSUME NEW n \in Names, NEW v \in Vals, SetValue(t, n, v) PROVE IterationStable'
  BY <1>8 DEF SetValue
<1>9. CASE SetSame(t)
  BY <1>9 DEF SetSame
<1>10. CASE SetBegin(t)
  <2>1. After(th[t].n, 0) = {j \in Ids : m_cbs[th[t].n][j] # Null}
    BY ConfigAssumption DEF After, Ids
  <2> QED
    BY <1>10, <2>1 DEF SetBegin, Registered
<1>11. CASE Notify(t)
  <2> DEFINE n == th[t].n
  <2>1. PICK i \in After(n, th[t].id) :
          /\ \A j \in After(n, th[t].id) : i <= j
          /\ th' = [th EXCEPT ![t] = [@ EXCEPT !.id = i, !.due = th[t].due \ {m_cbs[n][i]}]]
    BY <1>11 DEF Notify
  <2>2. At(t, "notify") /\ n \in Names
    BY <1>11, <1>c DEF Notify
  <2>3. After(n, i) = After(n, th[t].id) \ {i}
    BY <2>1, ConfigAssumption DEF After, Ids, Locals
  <2>4. \A j \in After(n, th[t].id) : m_cbs[n][j] = m_cbs[n][i] => j = i
    BY <2>1, <2>2, <1>0 DEF OncePlaced, After
  <2>5. {m_cbs[n][j] : j \in After(n, i)} = th[t].due \ {m_cbs[n][i]}
    BY <2>1, <2>2, <2>3, <2>4, <1>0 DEF IterationStable
  <2>6. /\ th'[t].at = th[t].at /\ th'[t].n = n /\ th'[t].old = th[t].old
        /\ th'[t].id = i /\ th'[t].due = th[t].due \ {m_cbs[n][i]}
    BY <2>1
  <2>7. UNCHANGED <<m_cbs, m_val>>
    BY <1>11 DEF Notify
  <2> SUFFICES ASSUME NEW u \in Threads, At(u, "notify")'
               PROVE  /\ {m_cbs[th[u].n][j] : j \in After(th[u].n, th[u].id)}' = th'[u].due
                      /\ m_val'[th'[u].n] = th'[u].old
    BY DEF IterationStable
  <2>8. CASE u = t
    <3>1. /\ th'[u].n = n /\ th'[u].id = i /\ th'[u].old = th[t].old
          /\ th'[u].due = th[t].due \ {m_cbs[n][i]}
      BY <2>6, <2>8
    <3>2. m_val[n] = th[t].old
      BY <2>2 DEF IterationStable
    <3> QED
      BY <2>5, <2>7, <3>1, <3>2 DEF After
  <2>9. CASE u # t
    <3>1. th'[u] = th[u] /\ At(u, "notify")
      BY <2>9
    <3> QED
      BY <3>1, <2>7 DEF After, IterationStable
  <2> QED
    BY <2>8, <2>9
<1>12. CASE NotifyEnd(t)
  BY <1>12 DEF NotifyEnd
<1>13. CASE Assign(t)
  BY <1>13 DEF Assign, CanWrite, Readers
<1>14. ASSUME NEW n \in Names, AddListener(t, n) PROVE IterationStable'
  BY <1>14 DEF AddListener
<1>15. CASE AddStore(t)
  BY <1>15 DEF AddStore
<1>16. CASE AddPut(t)
  BY <1>16 DEF AddPut, Exclusive, Adding
<1>17. CASE AddReturn(t)
  BY <1>17 DEF AddReturn
<1>18. ASSUME NEW h \in handles, delListerer(t, h) PROVE IterationStable'
  BY <1>18 DEF delListerer, CanWrite, Readers
<1>19. ASSUME NEW n \in Names, clearListener(t, n) PROVE IterationStable'
  BY <1>19 DEF clearListener, CanWrite, Readers
<1> QED
  BY <1>1, <1>2, <1>3, <1>4, <1>5, <1>6, <1>7, <1>8, <1>9, <1>10, <1>11, <1>12, <1>13,
      <1>14, <1>15, <1>16, <1>17, <1>18, <1>19 DEF Step

\* The inductive invariant holds at first and is kept by every step.
LEMMA InitInv == Init => IndInv
<1> SUFFICES ASSUME Init PROVE IndInv
  OBVIOUS
<1>1. TypeOK
  BY Idles, ConfigAssumption DEF Init, TypeOK, NoCbs
<1>2. OnRegistered /\ HeldIsRegistered /\ Exclusive /\ OncePlaced /\ IterationStable
  BY DEF Init, OnRegistered, HeldIsRegistered, Exclusive, OncePlaced, IterationStable, Idle,
         Adding, At, NoCbs
<1>3. Counters
  BY ConfigAssumption DEF Init, Counters, Idle, Adding, At
<1> QED
  BY <1>1, <1>2, <1>3 DEF IndInv

\* Every step keeps the invariant.
LEMMA NextInv == IndInv /\ [Next]_vars => IndInv'
<1> SUFFICES ASSUME IndInv, [Next]_vars PROVE IndInv'
  OBVIOUS
<1>1. ASSUME NEW t \in Threads, Step(t) PROVE IndInv'
  BY <1>1, NextTypes, NextRegistered, NextHeld, NextCounters, NextExclusive, NextPlaced,
     NextStable DEF IndInv
<1>2. CASE UNCHANGED vars
  BY <1>2 DEF vars, regVars, cbVars, IndInv, TypeOK, OnRegistered, HeldIsRegistered,
      Counters,
     Exclusive, OncePlaced, IterationStable, After, At, TypeOf
<1> QED
  BY <1>1, <1>2 DEF Next

\* It holds in every state that is reached.
LEMMA Invariance == Spec => []IndInv
BY InitInv, NextInv, PTL DEF Spec

\* The registry, the variables, their listeners and the locals of the threads
\* keep their types (config.h:347-402).
THEOREM ConfigTypes == Spec => []TypeOK
<1>1. IndInv => TypeOK
  BY DEF IndInv
<1> QED
  BY <1>1, Invariance, PTL

\* A pointer that Lookup() gave out is the registered variable for ever, so
\* that LoadFromYaml() and the program speak of the same one
\* (config.h:355-391).
THEOREM PointersStay == Spec => []HeldIsRegistered
<1>1. IndInv => HeldIsRegistered
  BY DEF IndInv
<1> QED
  BY <1>1, Invariance, PTL

\* setValue() calls exactly the listeners that were registered when it began,
\* each once, with the value the variable has, whatever other threads add,
\* delete or set (config.h:305-317).
THEOREM IterationsStable == Spec => []IterationStable
<1>1. IndInv => IterationStable
  BY DEF IndInv
<1> QED
  BY <1>1, Invariance, PTL
----------------------------------------------------------------------------
(* Handles, listeners and loads.                                           *)

\* The counter of a variable that is alone of its type moves under the lock of
\* the variable: it is not below any id in use, and the one that a thread is
\* adding is its own.
HandleInv ==
    /\ \A h \in handles : datas[h.n] # Null
    /\ \A h \in handles : OnlyOfItsType(h.n) =>
          h.id <= s_fun_id[datas[h.n]] /\ m_cbs[h.n][h.id] = h.l
    /\ \A t \in Threads : th[t].at \in Adding /\ OnlyOfItsType(th[t].n) =>
          /\ At(t, "store") => th[t].id = s_fun_id[TypeOf(t)]
          /\ At(t, "put") =>
                \A h \in handles : h.n = th[t].n => h.id < s_fun_id[TypeOf(t)]
          /\ At(t, "return") => m_cbs[th[t].n][s_fun_id[TypeOf(t)]] = th[t].l

Setting == {"read", "notify", "write"}
OneSetter == \A t, u \in Setters : t = u

\* Only setters set.
SettersOnly == \A t \in Threads : th[t].at \in Setting \cup {"load"} => t \in Setters

\* What a listener of n may have been told: nothing, or the value that n has,
\* but the new one if it was called already.
Told(n, v) == \A l \in Registered(n) : seen[l] \in {Null, v}
AgreeInv ==
    /\ \A n \in Names : datas[n] = Null => Registered(n) = {}
    /\ \A l \in Listeners : l > adds => seen[l] = Null
    /\ \A t \in Threads : th[t].at \in {"store", "put"} => seen[th[t].l] = Null
    /\ \A n \in Names : (\A t \in Threads : th[t].n = n => th[t].at \notin {"notify", "write"})
          => Told(n, m_val[n])
    /\ \A t \in Threads :
          /\ At(t, "notify") => \A i \in Ids : m_cbs[th[t].n][i] # Null =>
                seen[m_cbs[th[t].n][i]] \in {Null, IF i > th[t].id THEN m_val[th[t].n] ELSE th[t].v}
          /\ At(t, "write") => Told(th[t].n, th[t].v)

\* The first k nodes of f are applied, as far as the variables ns go.
Applied(f, k, ns) ==
    \A n \in ns : \A i \in SetBy(f, n) :
       i <= k /\ (\A j \in SetBy(f, n) : j <= k => j <= i) => m_val[n] = Converted(f[i])

\* How far a load is, and what it is setting now.
Place(t) == Len(th[t].file) - Len(th[t].rest)
Loading(t) ==
    /\ \A n \in th[t].early : datas[n] # Null
    /\ At(t, "load") => th[t].loading
    /\ th[t].at \in Setting \cup {"load"} => lastLoad = NoLoad
    /\ th[t].loading =>
          /\ Place(t) >= 0
          /\ \A i \in 1..Len(th[t].rest) : th[t].rest[i] = th[t].file[Place(t) + i]
    /\ th[t].loading /\ At(t, "load") => Applied(th[t].file, Place(t), th[t].early)
    /\ th[t].loading /\ th[t].at \in Setting =>
          LET e == th[t].file[Place(t)] IN
          /\ Place(t) >= 1 /\ e.name = th[t].n /\ Converted(e) = th[t].v
          /\ th[t].v # Null
          /\ Applied(th[t].file, Place(t) - 1, th[t].early)

LastApplied ==
    /\ \A n \in lastLoad.early : datas[n] # Null
    /\ Applied(lastLoad.file, Len(lastLoad.file), lastLoad.early)

LoadInv == LastApplied /\ \A t \in Threads : Loading(t)

\* What is common to the proofs about one step: the types, who moves, and that
\* a variable that is registered stays so, with its type.
LEMMA StepFacts ==
  ASSUME IndInv, NEW t \in Threads, Step(t)
  PROVE  /\ \A u \in Threads \ {t} : th'[u] = th[u]
         /\ th \in [Threads -> Locals] /\ th' \in [Threads -> Locals]
         /\ datas \in [Names -> Types \cup {Null}] /\ datas' \in [Names -> Types \cup {Null}]
         /\ m_val \in [Names -> Vals \cup {Null}]
         /\ m_cbs \in [Names -> [Ids -> Listeners \cup {Null}]]
         /\ s_fun_id \in [Types -> Nat] /\ adds \in Nat
         /\ handles \subseteq [n: Names, id: Ids, l: Listeners]
         /\ \A n \in Names : datas[n] # Null => datas'[n] = datas[n]
<1>1. TypeOK /\ TypeOK' /\ OnRegistered /\ Counters /\ HeldIsRegistered
  BY NextTypes DEF IndInv
<1>2. \A n \in Names : datas[n] # Null => datas'[n] = datas[n]
  BY <1>1 DEF Step, LookupExists, LookupCreate, regVars, Visit, VisitEnd, Load, LoadNext,
     LoadEnd, SetValue, SetSame, SetBegin, Notify, NotifyEnd, Assign, AddListener, AddStore,
     AddPut, AddReturn, delListerer, clearListener, TypeOK
<1> QED
  BY <1>1, <1>2, LocalSteps, ConfigAssumption DEF TypeOK

\* A variable that is alone of its type was so before.
LEMMA AloneBefore ==
  ASSUME IndInv, NEW t \in Threads, Step(t), NEW n \in Names, datas[n] # Null,
         OnlyOfItsType(n)'
  PROVE  OnlyOfItsType(n)
<1>1. \A m \in Names : datas[m] # Null => datas'[m] = datas[m]
  BY StepFacts
<1> QED
  BY <1>1 DEF OnlyOfItsType

\* Ids stay those of their listeners.
LEMMA NextHandles ==
  ASSUME IndInv, HandleInv, NEW t \in Threads, Step(t)
  PROVE  HandleInv'
<1>a. TypeOK /\ OnRegistered /\ Exclusive /\ HeldIsRegistered
  BY DEF IndInv
<1>b. /\ \A u \in Threads \ {t} : th'[u] = th[u]
      /\ th \in [Threads -> Locals] /\ th' \in [Threads -> Locals]
      /\ datas \in [Names -> Types \cup {Null}] /\ datas' \in [Names -> Types \cup {Null}]
      /\ m_cbs \in [Names -> [Ids -> Listeners \cup {Null}]]
      /\ s_fun_id \in [Types -> Nat]
      /\ handles \subseteq [n: Names, id: Ids, l: Listeners]
      /\ \A n \in Names : datas[n] # Null => datas'[n] = datas[n]
  BY StepFacts
<1>c. \A n \in Names : datas[n] # Null /\ OnlyOfItsType(n)' => OnlyOfItsType(n)
  BY AloneBefore
<1>d. \A u \in Threads : th[u].at \in Adding => th[u].n \in Names /\ datas[th[u].n] \in Types
  BY <1>a, <1>b DEF OnRegistered
<1>e. \A n \in Names : Pointer(n) => datas[n] \in Types
  BY <1>a DEF HeldIsRegistered, Pointer
<1>f. Ids \subseteq Nat
  BY ConfigAssumption DEF Ids
<1>1. ASSUME UNCHANGED <<m_cbs, s_fun_id, handles>>,
             th'[t] = th[t] \/ th'[t].at \notin Adding
      PROVE  HandleInv'
  <2>1. \A h \in handles : datas'[h.n] # Null /\ datas'[h.n] = datas[h.n]
    BY <1>b DEF HandleInv
  <2>2. \A h \in handles : OnlyOfItsType(h.n)' =>
           h.id <= s_fun_id'[datas'[h.n]] /\ m_cbs'[h.n][h.id] = h.l
    BY <1>1, <1>b, <1>c, <2>1 DEF HandleInv
  <2>3. ASSUME NEW u \in Threads, th'[u].at \in Adding, OnlyOfItsType(th[u].n)'
        PROVE  /\ th'[u].at = "store" => th'[u].id = s_fun_id'[datas'[th'[u].n]]
               /\ th'[u].at = "put" => \A h \in handles' : h.n = th'[u].n =>
                                           h.id < s_fun_id'[datas'[th'[u].n]]
               /\ th'[u].at = "return" =>
                     m_cbs'[th'[u].n][s_fun_id'[datas'[th'[u].n]]] = th'[u].l
    <3>1. th'[u] = th[u]
      BY <1>1, <1>b, <2>3
    <3>2. datas'[th[u].n] = datas[th[u].n] /\ OnlyOfItsType(th[u].n)
      BY <1>b, <1>c, <1>d, <2>3, <3>1, ConfigAssumption DEF OnlyOfItsType
    <3> QED
      BY <1>1, <2>3, <3>1, <3>2 DEF HandleInv, At, TypeOf
  <2> QED
    BY <1>1, <2>1, <2>2, <2>3 DEF HandleInv, At, TypeOf
<1>2. ASSUME UNCHANGED datas,
             \A h \in handles' : datas[h.n] # Null /\ (OnlyOfItsType(h.n) =>
                h.id <= s_fun_id'[datas[h.n]] /\ m_cbs'[h.n][h.id] = h.l),
             \A u \in Threads : th'[u].at \in Adding /\ OnlyOfItsType(th'[u].n) =>
                /\ th'[u].at = "store" => th'[u].id = s_fun_id'[datas[th'[u].n]]
                /\ th'[u].at = "put" => \A h \in handles' : h.n = th'[u].n =>
                                            h.id < s_fun_id'[datas[th'[u].n]]
                /\ th'[u].at = "return" =>
                      m_cbs'[th'[u].n][s_fun_id'[datas[th'[u].n]]] = th'[u].l
      PROVE  HandleInv'
  BY <1>2 DEF HandleInv, OnlyOfItsType, At, TypeOf
<1>3. ASSUME NEW n \in Names, AddListener(t, n)
      PROVE  HandleInv'
  <2>1. /\ th' = [th EXCEPT ![t] = [Idle EXCEPT !.at = "store", !.n = n, !.l = adds + 1,
                                            !.id = s_fun_id[datas[n]]]]
        /\ UNCHANGED <<datas, m_cbs, s_fun_id, handles>>
    BY <1>3 DEF AddListener, regVars
  <2>2. th'[t].at = "store" /\ th'[t].n = n /\ th'[t].id = s_fun_id[datas[n]]
    BY <1>b, <2>1 DEF Idle
  <2> QED
    BY <1>2, <1>b, <2>1, <2>2 DEF HandleInv, At, TypeOf
<1>4. CASE AddStore(t)
  <2> DEFINE n == th[t].n
             T == datas[n]
  <2>1. /\ th[t].at = "store"
        /\ s_fun_id' = [s_fun_id EXCEPT ![T] = th[t].id + 1]
        /\ th' = [th EXCEPT ![t].at = "put"]
        /\ UNCHANGED <<datas, m_cbs, handles>>
    BY <1>4 DEF AddStore, At, TypeOf, regVars
  <2>2. n \in Names /\ T \in Types
    BY <1>d, <2>1 DEF Adding
  <2>3. th'[t].at = "put" /\ th'[t].n = n
    BY <1>b, <2>1 DEF Locals
  <2>4. s_fun_id'[T] = th[t].id + 1 /\ \A S \in Types : S # T => s_fun_id'[S] = s_fun_id[S]
    BY <1>b, <2>1, <2>2
  <2>5. OnlyOfItsType(n) => th[t].id = s_fun_id[T]
    BY <2>1 DEF HandleInv, Adding, At, TypeOf
  <2>6. ASSUME NEW m \in Names, datas[m] # Null, OnlyOfItsType(m), m # n
        PROVE  s_fun_id'[datas[m]] = s_fun_id[datas[m]]
    BY <1>b, <2>2, <2>4, <2>6 DEF OnlyOfItsType
  <2>7. ASSUME NEW h \in handles, OnlyOfItsType(h.n)
        PROVE  h.id <= s_fun_id'[datas[h.n]] /\ (h.n = n => h.id < s_fun_id'[T])
    <3>1. h.n \in Names /\ h.id \in Nat /\ datas[h.n] # Null /\ h.id <= s_fun_id[datas[h.n]]
      BY <1>b, <1>f, <2>7 DEF HandleInv
    <3>2. CASE h.n = n
      BY <1>b, <2>2, <2>4, <2>5, <2>7, <3>1, <3>2
    <3>3. CASE h.n # n
      BY <2>6, <2>7, <3>1, <3>3
    <3> QED
      BY <3>2, <3>3
  <2>8. ASSUME NEW u \in Threads \ {t}, th[u].at \in Adding, OnlyOfItsType(th[u].n)
        PROVE  s_fun_id'[datas[th[u].n]] = s_fun_id[datas[th[u].n]]
    <3>1. th[u].n # n
      BY <1>a, <2>1, <2>8 DEF Exclusive, Adding
    <3> QED
      BY <1>a, <1>d, <2>6, <2>8, <3>1 DEF OnRegistered
  <2>10. \A h \in handles : datas[h.n] # Null
    BY DEF HandleInv
  <2>11. ASSUME NEW u \in Threads \ {t}, th[u].at \in Adding, OnlyOfItsType(th[u].n)
         PROVE  /\ th[u].at = "store" => th[u].id = s_fun_id'[datas[th[u].n]]
                /\ th[u].at = "put" => \A h \in handles : h.n = th[u].n =>
                                           h.id < s_fun_id'[datas[th[u].n]]
                /\ th[u].at = "return" =>
                      m_cbs[th[u].n][s_fun_id'[datas[th[u].n]]] = th[u].l
    BY <2>8, <2>11 DEF HandleInv, At, TypeOf
  <2>12. \A h \in handles : OnlyOfItsType(h.n) => m_cbs[h.n][h.id] = h.l
    BY DEF HandleInv
  <2>13. ASSUME NEW u \in Threads, th'[u].at \in Adding, OnlyOfItsType(th'[u].n)
         PROVE  /\ th'[u].at = "store" => th'[u].id = s_fun_id'[datas[th'[u].n]]
                /\ th'[u].at = "put" => \A h \in handles : h.n = th'[u].n =>
                                            h.id < s_fun_id'[datas[th'[u].n]]
                /\ th'[u].at = "return" =>
                      m_cbs[th'[u].n][s_fun_id'[datas[th'[u].n]]] = th'[u].l
    <3>1. CASE u = t
      BY <2>3, <2>7, <2>13, <3>1
    <3>2. CASE u # t
      <4>1. th'[u] = th[u] /\ u \in Threads \ {t}
        BY <1>b, <3>2
      <4> QED
        BY <2>11, <2>13, <4>1
    <3> QED
      BY <3>1, <3>2
  <2> QED
    BY <1>2, <2>1, <2>7, <2>10, <2>12, <2>13
<1>5. CASE AddPut(t)
  <2> DEFINE n == th[t].n
             i == s_fun_id[datas[n]]
  <2>1. /\ th[t].at = "put"
        /\ m_cbs' = [m_cbs EXCEPT ![n][i] = th[t].l]
        /\ th' = [th EXCEPT ![t].at = "return"]
        /\ UNCHANGED <<datas, s_fun_id, handles>>
    BY <1>5 DEF AddPut, At, TypeOf, regVars
  <2>2. n \in Names /\ datas[n] \in Types /\ i \in Ids
    <3>1. s_fun_id[datas[n]] >= 1 /\ s_fun_id[datas[n]] \in 0..MaxAdds
      BY <1>a, <1>d, <2>1 DEF IndInv, Counters, Adding, TypeOf, TypeOK
    <3> QED
      BY <1>d, <2>1, <3>1, ConfigAssumption DEF Adding, Ids
  <2>3. th'[t].at = "return" /\ th'[t].n = n /\ th'[t].l = th[t].l
    BY <1>b, <2>1 DEF Locals
  <2>4. m_cbs'[n][i] = th[t].l
    BY <1>b, <2>1, <2>2
  <2>5. ASSUME NEW h \in handles, OnlyOfItsType(h.n)
        PROVE  h.id <= s_fun_id[datas[h.n]] /\ m_cbs'[h.n][h.id] = h.l
    <3>1. /\ h.n \in Names /\ h.id \in Ids /\ h.id \in Nat
          /\ h.id <= s_fun_id[datas[h.n]] /\ m_cbs[h.n][h.id] = h.l
          /\ h.n = n => h.id < i
      BY <1>b, <1>f, <2>1, <2>5 DEF HandleInv, At, TypeOf, Adding
    <3>2. h.n = n => h.id # i
      BY <1>f, <2>2, <3>1
    <3> QED
      BY <1>b, <2>1, <2>2, <3>1, <3>2
  <2>6. ASSUME NEW u \in Threads \ {t}, th[u].at \in Adding
        PROVE  m_cbs'[th[u].n] = m_cbs[th[u].n]
    <3>1. th[u].n # n /\ th[u].n \in Names
      BY <1>a, <1>d, <2>1, <2>6 DEF Exclusive, Adding
    <3> QED
      BY <1>b, <2>1, <3>1
  <2>7. \A h \in handles : datas[h.n] # Null
    BY DEF HandleInv
  <2>8. ASSUME NEW u \in Threads \ {t}, th[u].at \in Adding, OnlyOfItsType(th[u].n)
        PROVE  /\ th[u].at = "store" => th[u].id = s_fun_id[datas[th[u].n]]
               /\ th[u].at = "put" => \A h \in handles : h.n = th[u].n =>
                                          h.id < s_fun_id[datas[th[u].n]]
               /\ th[u].at = "return" =>
                     m_cbs'[th[u].n][s_fun_id[datas[th[u].n]]] = th[u].l
    BY <2>6, <2>8 DEF HandleInv, At, TypeOf
  <2> QED
    BY <1>2, <1>b, <2>1, <2>3, <2>4, <2>5, <2>7, <2>8
<1>6. CASE AddReturn(t)
  <2> DEFINE n == th[t].n
             i == s_fun_id[datas[n]]
  <2>1. /\ th[t].at = "return"
        /\ handles' = handles \cup {[n |-> n, id |-> i, l |-> th[t].l]}
        /\ th' = [th EXCEPT ![t] = Idle]
        /\ UNCHANGED <<datas, m_cbs, s_fun_id>>
    BY <1>6 DEF AddReturn, At, TypeOf, regVars
  <2>2. n \in Names /\ datas[n] \in Types /\ datas[n] # Null /\ i \in Nat
    BY <1>b, <1>d, <2>1, ConfigAssumption DEF Adding
  <2>3. OnlyOfItsType(n) => m_cbs[n][i] = th[t].l
    BY <2>1 DEF HandleInv, At, TypeOf, Adding
  <2>4. \A h \in handles' : h \in handles \/ (h.n = n /\ h.id = i /\ h.l = th[t].l)
    BY <2>1
  <2>5. th'[t].at \notin Adding
    BY <1>b, <2>1 DEF Idle, Adding
  <2>6. ASSUME NEW u \in Threads \ {t}, th[u].at \in Adding
        PROVE  th[u].n # n
    BY <1>a, <2>1, <2>6 DEF Exclusive, Adding
  <2>7. ASSUME NEW h \in handles'
        PROVE  datas[h.n] # Null /\ (OnlyOfItsType(h.n) =>
                  h.id <= s_fun_id[datas[h.n]] /\ m_cbs[h.n][h.id] = h.l)
    <3>1. CASE h \in handles
      BY <3>1 DEF HandleInv
    <3>2. CASE h.n = n /\ h.id = i /\ h.l = th[t].l
      BY <2>2, <2>3, <3>2
    <3> QED
      BY <2>4, <3>1, <3>2
  <2>8. ASSUME NEW u \in Threads, th'[u].at \in Adding, OnlyOfItsType(th'[u].n)
        PROVE  /\ th'[u].at = "store" => th'[u].id = s_fun_id[datas[th'[u].n]]
               /\ th'[u].at = "put" => \A h \in handles' : h.n = th'[u].n =>
                                           h.id < s_fun_id[datas[th'[u].n]]
               /\ th'[u].at = "return" =>
                     m_cbs[th'[u].n][s_fun_id[datas[th'[u].n]]] = th'[u].l
    <3>1. u \in Threads \ {t} /\ th'[u] = th[u]
      BY <1>b, <2>5, <2>8
    <3>2. th[u].n # n
      BY <2>6, <2>8, <3>1
    <3> QED
      BY <2>4, <2>8, <3>1, <3>2 DEF HandleInv, At, TypeOf
  <2> QED
    BY <1>2, <2>1, <2>7, <2>8
<1>7. ASSUME NEW g \in handles, delListerer(t, g)
      PROVE  HandleInv'
  <2>1. /\ CanWrite(g.n)
        /\ m_cbs' = [m_cbs EXCEPT ![g.n][g.id] = Null]
        /\ handles' = handles \ {g}
        /\ UNCHANGED <<datas, s_fun_id, th>>
    BY <1>7 DEF delListerer, regVars
  <2>2. g \in [n: Names, id: Ids, l: Listeners]
    BY <1>b
  <2>3. ASSUME NEW h \in handles', OnlyOfItsType(h.n)
        PROVE  m_cbs'[h.n][h.id] = h.l
    <3>1. /\ h \in [n: Names, id: Ids, l: Listeners] /\ h # g
          /\ m_cbs[h.n][h.id] = h.l
          /\ h.n = g.n => m_cbs[g.n][g.id] = g.l
      BY <1>b, <2>1, <2>3 DEF HandleInv
    <3>2. h.n # g.n \/ h.id # g.id
      BY <2>2, <3>1
    <3> QED
      BY <1>b, <2>1, <2>2, <3>1, <3>2
  <2>4. ASSUME NEW u \in Threads, th[u].at \in Adding
        PROVE  m_cbs'[th[u].n] = m_cbs[th[u].n]
    <3>1. th[u].n # g.n
      BY <2>1, <2>4 DEF CanWrite, Writers, Adding
    <3> QED
      BY <1>b, <1>d, <2>1, <2>4, <3>1
  <2>5. \A h \in handles' : h \in handles
    BY <2>1
  <2> QED
    BY <1>2, <2>1, <2>3, <2>4, <2>5 DEF HandleInv, At, TypeOf
<1>8. ASSUME NEW n \in Names, clearListener(t, n)
      PROVE  HandleInv'
  <2>1. /\ CanWrite(n)
        /\ m_cbs' = [m_cbs EXCEPT ![n] = NoCbs]
        /\ handles' = {h \in handles : h.n # n}
        /\ UNCHANGED <<datas, s_fun_id, th>>
    BY <1>8 DEF clearListener, regVars
  <2>2. ASSUME NEW u \in Threads, th[u].at \in Adding
        PROVE  m_cbs'[th[u].n] = m_cbs[th[u].n]
    <3>1. th[u].n # n
      BY <2>1, <2>2 DEF CanWrite, Writers, Adding
    <3> QED
      BY <1>b, <1>d, <2>1, <2>2, <3>1
  <2>3. \A h \in handles' : h \in handles /\ m_cbs'[h.n] = m_cbs[h.n]
    BY <1>b, <2>1
  <2> QED
    BY <1>2, <2>1, <2>2, <2>3 DEF HandleInv, At, TypeOf
<1>9. ASSUME \/ \E n \in Names, T \in Types : LookupExists(t, n, T)
             \/ \E n \in Names, T \in Types, v \in Vals : LookupCreate(t, n, T, v)
             \/ Visit(t) \/ VisitEnd(t)
             \/ \E f \in Files : Load(t, f)
             \/ LoadNext(t) \/ LoadEnd(t)
             \/ \E n \in Names, v \in Vals : SetValue(t, n, v)
             \/ SetSame(t) \/ SetBegin(t) \/ Notify(t) \/ NotifyEnd(t) \/ Assign(t)
      PROVE  HandleInv'
  <2>1. UNCHANGED <<m_cbs, s_fun_id, handles>>
    BY <1>9 DEF LookupExists, LookupCreate, Visit, VisitEnd, Load, LoadNext, LoadEnd,
       SetValue, SetSame, SetBegin, Notify, NotifyEnd, Assign, cbVars
  <2>2. th'[t] = th[t] \/ th'[t].at \notin Adding
    <3> USE <1>b DEF Locals, Idle, Adding, At
    <3>1. CASE Visit(t)
      BY <3>1 DEF Visit, Begin
    <3>9. CASE VisitEnd(t)
      BY <3>9 DEF VisitEnd
    <3>2. ASSUME NEW f \in Files, Load(t, f) PROVE th'[t].at \notin Adding
      BY <3>2 DEF Load
    <3>3. CASE LoadNext(t)
      BY <3>3 DEF LoadNext, Continue
    <3>4. CASE LoadEnd(t)
      BY <3>4 DEF LoadEnd
    <3>5. ASSUME NEW n \in Names, NEW v \in Vals, SetValue(t, n, v)
          PROVE  th'[t].at \notin Adding
      BY <3>5 DEF SetValue
    <3>6. CASE SetSame(t)
      BY <3>6 DEF SetSame, Return
    <3>10. CASE Assign(t)
      BY <3>10 DEF Assign, Return
    <3>7. CASE SetBegin(t)
      BY <3>7 DEF SetBegin
    <3>11. CASE NotifyEnd(t)
      BY <3>11 DEF NotifyEnd
    <3>8. CASE Notify(t)
      BY <3>8 DEF Notify
    <3> QED
      BY <1>9, <3>1, <3>2, <3>3, <3>4, <3>5, <3>6, <3>7, <3>8, <3>9, <3>10, <3>11 DEF LookupExists, LookupCreate
  <2> QED
    BY <1>1, <1>b, <2>1, <2>2
<1> QED
  BY <1>3, <1>4, <1>5, <1>6, <1>7, <1>8, <1>9 DEF Step

\* An id that addListener() returned is that of its listener, for a variable
\* that is the only one of its type, whatever other threads add, delete or
\* clear, and on variables of other types at the same time.
THEOREM HandlesWork == Spec => []HandleWorks
<1>1. Init => HandleInv
  BY DEF Init, HandleInv, Idle, Adding
<1>2. IndInv /\ HandleInv /\ [Next]_vars => HandleInv'
  <2>1. ASSUME HandleInv, UNCHANGED vars
        PROVE  HandleInv'
    BY <2>1 DEF HandleInv, vars, regVars, cbVars, OnlyOfItsType, At, TypeOf
  <2> QED
    BY <2>1, NextHandles DEF Next
<1>3. HandleInv => HandleWorks
  BY DEF HandleInv, HandleWorks
<1> QED
  BY <1>1, <1>2, <1>3, Invariance, PTL DEF Spec

\* Only setters set.
LEMMA NextSetters ==
  ASSUME IndInv, SettersOnly, NEW t \in Threads, Step(t)
  PROVE  SettersOnly'
<1>a. /\ \A u \in Threads \ {t} : th'[u] = th[u]
      /\ th \in [Threads -> Locals] /\ th' \in [Threads -> Locals]
  BY StepFacts
<1>b. SUFFICES th'[t].at \in Setting \cup {"load"} => t \in Setters
  BY <1>a DEF SettersOnly
<1> USE <1>a DEF SettersOnly, Setting, At, Locals, Idle
<1>1. CASE UNCHANGED th
  BY <1>1
<1>2. CASE th' = [th EXCEPT ![t] = Idle]
  BY <1>2
<1>3. CASE Visit(t)
  BY <1>3 DEF Visit, Begin
<1>4. ASSUME t \in Setters PROVE th'[t].at \in Setting \cup {"load"} => t \in Setters
  BY <1>4
<1>5. CASE th[t].at \in Setting \cup {"load"}
  BY <1>5
<1>6. ASSUME NEW n \in Names, AddListener(t, n) PROVE th'[t].at = "store"
  BY <1>6 DEF AddListener
<1>7. CASE AddStore(t)
  BY <1>7 DEF AddStore
<1>8. CASE AddPut(t)
  BY <1>8 DEF AddPut
<1> QED
  BY <1>1, <1>2, <1>3, <1>4, <1>5, <1>6, <1>7, <1>8
  DEF Step, LookupExists, LookupCreate, VisitEnd, Load, LoadNext, LoadEnd, SetValue, SetSame,
      SetBegin, Notify, NotifyEnd, Assign, AddReturn, delListerer, clearListener

\* A variable that only one thread may be setting.
LEMMA SettingAlone ==
  ASSUME OneSetter, SettersOnly, NEW t \in Threads, NEW u \in Threads,
         th[t].at \in Setting \cup {"load"}, th[u].at \in Setting \cup {"load"}
  PROVE  t = u
BY DEF OneSetter, SettersOnly

\* AgreeInv survives a step that tells nobody and assigns nothing, registers
\* only who was never told, and neither begins nor ends an iteration or an
\* assignment.
LEMMA AgreeKept ==
  ASSUME IndInv, AgreeInv, UNCHANGED <<m_val, seen>>, adds \in Nat, adds' \in Nat, adds' >= adds,
         \A n \in Names : datas[n] # Null => datas'[n] # Null,
         \A n \in Names : datas[n] = Null => UNCHANGED m_cbs[n],
         \A n \in Names : \A i \in Ids :
            \/ m_cbs'[n][i] \in {m_cbs[n][i], Null} \/ seen[m_cbs'[n][i]] = Null,
         NEW t \in Threads, \A u \in Threads \ {t} : th'[u] = th[u],
         \/ th'[t] = th[t]
         \/ /\ th[t].at \notin {"notify", "write"}
            /\ th'[t].at \notin {"notify", "write"}
            /\ th'[t].at \in {"store", "put"} => seen[th'[t].l] = Null
  PROVE  AgreeInv'
<1>1. \A u \in Threads : \/ th'[u] = th[u]
                         \/ /\ th[u].at \notin {"notify", "write"}
                            /\ th'[u].at \notin {"notify", "write"}
                            /\ th'[u].at \in {"store", "put"} => seen[th'[u].l] = Null
  OBVIOUS
<1>2. ASSUME NEW n \in Names, NEW l \in Registered(n)'
      PROVE  l \in Registered(n) \/ seen[l] = Null
  <2>1. PICK i \in Ids : m_cbs'[n][i] # Null /\ l = m_cbs'[n][i]
    BY DEF Registered
  <2> QED
    BY <2>1 DEF Registered
<1>3. ASSUME NEW n \in Names, datas'[n] = Null PROVE Registered(n)' = {}
  <2>1. datas[n] = Null /\ m_cbs'[n] = m_cbs[n]
    BY <1>3
  <2>2. Registered(n)' = Registered(n)
    BY <2>1 DEF Registered
  <2> QED
    BY <2>1, <2>2 DEF AgreeInv
<1>4. \A u \in Threads : th'[u].at \in {"store", "put"} => seen'[th'[u].l] = Null
  BY <1>1 DEF AgreeInv
<1>5. ASSUME NEW n \in Names,
             \A u \in Threads : th'[u].n = n => th'[u].at \notin {"notify", "write"}
      PROVE  Told(n, m_val[n])'
  <2>1. \A u \in Threads : th[u].n = n => th[u].at \notin {"notify", "write"}
    BY <1>1, <1>5
  <2>2. Told(n, m_val[n])
    BY <2>1 DEF AgreeInv
  <2> QED
    BY <1>2, <2>2 DEF Told
<1>6. ASSUME NEW u \in Threads, th[u].at \in {"notify", "write"}
      PROVE  th[u].n \in Names
  BY <1>6 DEF IndInv, OnRegistered
<1>7. ASSUME NEW u \in Threads, th'[u].at = "notify", NEW i \in Ids, m_cbs'[th'[u].n][i] # Null
      PROVE  seen[m_cbs'[th'[u].n][i]]
                \in {Null, IF i > th'[u].id THEN m_val[th'[u].n] ELSE th'[u].v}
  <2>1. th'[u] = th[u] /\ th[u].at = "notify" /\ th[u].n \in Names
    BY <1>1, <1>6, <1>7
  <2>2. m_cbs'[th[u].n][i] = m_cbs[th[u].n][i] \/ seen[m_cbs'[th[u].n][i]] = Null
    BY <1>7, <2>1
  <2> QED
    BY <1>7, <2>1, <2>2 DEF AgreeInv, At
<1>8. ASSUME NEW u \in Threads, th'[u].at = "write"
      PROVE  Told(th[u].n, th[u].v)'
  <2>1. th'[u] = th[u] /\ th[u].at = "write" /\ th[u].n \in Names
    BY <1>1, <1>6, <1>8
  <2>2. Told(th[u].n, th[u].v)
    BY <2>1 DEF AgreeInv, At
  <2> QED
    BY <1>2, <2>1, <2>2 DEF Told
<1>9. \A l \in Listeners : l > adds' => seen'[l] = Null
  BY ConfigAssumption DEF AgreeInv, Listeners
<1> QED
  BY <1>3, <1>4, <1>5, <1>7, <1>8, <1>9 DEF AgreeInv, At

\* With one setter, listeners know the value that is assigned.
LEMMA NextAgree ==
  ASSUME OneSetter, IndInv, SettersOnly, AgreeInv, NEW t \in Threads, Step(t)
  PROVE  AgreeInv'
<1>a. TypeOK /\ OnRegistered /\ Exclusive /\ OncePlaced /\ HeldIsRegistered
  BY DEF IndInv
<1>b. /\ \A u \in Threads \ {t} : th'[u] = th[u]
      /\ th \in [Threads -> Locals] /\ th' \in [Threads -> Locals]
      /\ datas \in [Names -> Types \cup {Null}] /\ datas' \in [Names -> Types \cup {Null}]
      /\ m_val \in [Names -> Vals \cup {Null}]
      /\ m_cbs \in [Names -> [Ids -> Listeners \cup {Null}]]
      /\ s_fun_id \in [Types -> Nat] /\ adds \in Nat
      /\ handles \subseteq [n: Names, id: Ids, l: Listeners]
      /\ \A n \in Names : datas[n] # Null => datas'[n] = datas[n]
  BY StepFacts
<1>c. \A u \in Threads : th[u].at \in Setting \cup Adding =>
         th[u].n \in Names /\ datas[th[u].n] # Null
  BY <1>a DEF OnRegistered, Setting
<1>d. \A u \in Threads : th[t].at \in Setting \cup {"load"} /\ th[u].at \in Setting => t = u
  BY SettingAlone DEF Setting
<1>e. seen \in [Listeners -> Vals \cup {Null}]
  BY <1>a DEF TypeOK
<1>f. \A n \in Names : Pointer(n) => datas[n] # Null
  BY <1>a, ConfigAssumption DEF HeldIsRegistered, Pointer, TypeOK
<1>1. ASSUME UNCHANGED <<m_cbs, m_val, seen, adds>>,
             \/ th'[t] = th[t]
             \/ /\ th[t].at \notin {"notify", "write"}
                /\ th'[t].at \notin {"notify", "write", "store", "put"}
      PROVE  AgreeInv'
  BY <1>1, <1>b, AgreeKept
<1>2. ASSUME NEW n \in Names, NEW T \in Types, NEW v \in Vals, LookupCreate(t, n, T, v)
      PROVE  AgreeInv'
  <2>1. /\ datas[n] = Null /\ datas' = [datas EXCEPT ![n] = T]
        /\ m_val' = [m_val EXCEPT ![n] = v]
        /\ UNCHANGED <<m_cbs, adds, seen, th>>
    BY <1>2 DEF LookupCreate, cbVars
  <2>2. Registered(n) = {}
    BY <2>1 DEF AgreeInv
  <2>3. \A m : Registered(m)' = Registered(m)
    BY <2>1 DEF Registered
  <2>4. \A m \in Names : m # n => m_val'[m] = m_val[m]
    BY <1>b, <2>1
  <2>5. \A u \in Threads : th[u].at \in Setting => th[u].n # n /\ m_val'[th[u].n] = m_val[th[u].n]
    BY <1>c, <2>1, <2>4
  <2>6. \A m \in Names : Told(m, m_val[m]) => Told(m, m_val[m])'
    BY <2>1, <2>2, <2>3, <2>4 DEF Told
  <2>7. \A m \in Names : datas'[m] = Null => Registered(m)' = {}
    BY <1>b, <2>1, <2>3 DEF AgreeInv
  <2>8. ASSUME NEW u \in Threads
        PROVE  /\ th[u].at = "notify" => \A i \in Ids : m_cbs[th[u].n][i] # Null =>
                     seen[m_cbs[th[u].n][i]]
                        \in {Null, IF i > th[u].id THEN m_val'[th[u].n] ELSE th[u].v}
               /\ th[u].at = "write" => Told(th[u].n, th[u].v)'
    BY <2>1, <2>3, <2>5 DEF AgreeInv, At, Told, Setting
  <2> QED
    BY <2>1, <2>6, <2>7, <2>8 DEF AgreeInv, At
<1>3. ASSUME NEW n \in Names, AddListener(t, n)
      PROVE  AgreeInv'
  <2>1. /\ th[t].at = "idle" /\ adds' = adds + 1 /\ adds < MaxAdds
        /\ th' = [th EXCEPT ![t] = [Idle EXCEPT !.at = "store", !.n = n, !.l = adds + 1,
                                            !.id = s_fun_id[datas[n]]]]
        /\ UNCHANGED <<datas, m_cbs, m_val, seen>>
    BY <1>3 DEF AddListener, regVars, At
  <2>2. th'[t].at = "store" /\ th'[t].l = adds + 1
    BY <1>b, <2>1 DEF Idle
  <2>3. adds + 1 \in Listeners /\ adds + 1 > adds
    BY <1>b, <2>1, ConfigAssumption DEF Listeners
  <2>4. seen[th'[t].l] = Null
    BY <2>2, <2>3 DEF AgreeInv
  <2>5. adds' \in Nat /\ adds' >= adds
    BY <1>b, <2>1
  <2> QED
    BY <1>b, <2>1, <2>2, <2>4, <2>5, AgreeKept
<1>4. CASE AddStore(t)
  <2>1. /\ th[t].at = "store" /\ th' = [th EXCEPT ![t].at = "put"]
        /\ UNCHANGED <<datas, m_cbs, m_val, seen, adds>>
    BY <1>4 DEF AddStore, regVars, At
  <2>2. th'[t].at = "put" /\ th'[t].l = th[t].l
    BY <1>b, <2>1 DEF Locals
  <2>3. seen[th'[t].l] = Null
    BY <2>1, <2>2 DEF AgreeInv
  <2> QED
    BY <1>b, <2>1, <2>2, <2>3, AgreeKept
<1>5. CASE AddPut(t)
  <2> DEFINE n == th[t].n
             k == s_fun_id[datas[n]]
  <2>1. /\ th[t].at = "put" /\ th' = [th EXCEPT ![t].at = "return"]
        /\ m_cbs' = [m_cbs EXCEPT ![n][k] = th[t].l]
        /\ UNCHANGED <<datas, m_val, seen, adds>>
    BY <1>5 DEF AddPut, regVars, At, TypeOf
  <2>2. th'[t].at = "return"
    BY <1>b, <2>1 DEF Locals
  <2>3. n \in Names /\ datas[n] # Null /\ seen[th[t].l] = Null
    BY <1>c, <2>1 DEF Adding, AgreeInv
  <2>4. \A m \in Names : \A i \in Ids :
           m_cbs'[m][i] = m_cbs[m][i] \/ seen[m_cbs'[m][i]] = Null
    BY <1>b, <2>1, <2>3
  <2>5. \A m \in Names : m # n => m_cbs'[m] = m_cbs[m]
    BY <1>b, <2>1
  <2> QED
    BY <1>b, <2>1, <2>2, <2>3, <2>4, <2>5, AgreeKept
<1>6. ASSUME NEW h \in handles, delListerer(t, h)
      PROVE  AgreeInv'
  <2>1. /\ m_cbs' = [m_cbs EXCEPT ![h.n][h.id] = Null]
        /\ UNCHANGED <<datas, m_val, seen, adds, th>>
    BY <1>6 DEF delListerer, regVars
  <2>2. \A m \in Names : \A i \in Ids : m_cbs'[m][i] \in {m_cbs[m][i], Null}
    BY <1>b, <2>1
  <2>3. \A m \in Names : Registered(m) = {} => m_cbs'[m] = m_cbs[m]
    <3>1. ASSUME NEW m \in Names, Registered(m) = {}
          PROVE  \A i \in Ids : m_cbs'[m][i] = m_cbs[m][i]
      BY <2>2, <3>1 DEF Registered
    <3>2. m_cbs' \in [Names -> [Ids -> Listeners \cup {Null}]]
      BY <1>b, <2>1
    <3> QED
      BY <1>b, <3>1, <3>2
  <2> QED
    BY <1>b, <2>1, <2>2, <2>3, AgreeKept DEF AgreeInv
<1>7. ASSUME NEW n \in Names, clearListener(t, n)
      PROVE  AgreeInv'
  <2>1. /\ Pointer(n) /\ m_cbs' = [m_cbs EXCEPT ![n] = NoCbs]
        /\ UNCHANGED <<datas, m_val, seen, adds, th>>
    BY <1>7 DEF clearListener, regVars
  <2>2. \A m \in Names : \A i \in Ids : m_cbs'[m][i] \in {m_cbs[m][i], Null}
    BY <1>b, <2>1 DEF NoCbs
  <2>3. \A m \in Names : datas[m] = Null => m_cbs'[m] = m_cbs[m]
    BY <1>b, <1>f, <2>1
  <2> QED
    BY <1>b, <2>1, <2>2, <2>3, AgreeKept
<1>8. CASE SetBegin(t)
  <2> DEFINE n == th[t].n
  <2>1. /\ th[t].at = "read"
        /\ th' = [th EXCEPT ![t] = [@ EXCEPT !.at = "notify", !.old = m_val[n], !.id = 0,
                                          !.due = Registered(n)]]
        /\ UNCHANGED <<datas, m_cbs, m_val, seen, adds>>
    BY <1>8 DEF SetBegin, At, regVars, cbVars
  <2>2. th'[t].at = "notify" /\ th'[t].n = n /\ th'[t].id = 0
    BY <1>b, <2>1 DEF Locals
  <2>3. n \in Names /\ \A u \in Threads : th[u].at \notin {"notify", "write"}
    BY <1>c, <1>d, <2>1 DEF Setting
  <2>4. Told(n, m_val[n]) /\ \A m : Registered(m)' = Registered(m)
    BY <2>1, <2>3 DEF AgreeInv, Registered
  <2>5. \A i \in Ids : m_cbs[n][i] # Null => i > 0 /\ seen[m_cbs[n][i]] \in {Null, m_val[n]}
    BY <2>4, ConfigAssumption DEF Told, Registered, Ids
  <2>6. \A u \in Threads : u = t \/ th'[u] = th[u]
    BY <1>b
  <2>7. \A m \in Names : Told(m, m_val[m])'
    BY <2>1, <2>3, <2>4 DEF AgreeInv, Told
  <2> QED
    BY <2>1, <2>2, <2>3, <2>4, <2>5, <2>6, <2>7 DEF AgreeInv, At
<1>9. CASE Notify(t)
  <2> DEFINE n == th[t].n
  <2>1. PICK i \in After(n, th[t].id) :
          /\ \A j \in After(n, th[t].id) : i <= j
          /\ seen' = [seen EXCEPT ![m_cbs[n][i]] = th[t].v]
          /\ th' = [th EXCEPT ![t] = [@ EXCEPT !.id = i, !.due = th[t].due \ {m_cbs[n][i]}]]
    BY <1>9 DEF Notify
  <2>2. th[t].at = "notify" /\ UNCHANGED <<datas, m_cbs, m_val, adds>>
    BY <1>9 DEF Notify, At, regVars, cbVars
  <2>3. /\ th'[t].at = "notify" /\ th'[t].n = n /\ th'[t].id = i /\ th'[t].v = th[t].v
        /\ th'[t].l = th[t].l
    BY <1>b, <2>1, <2>2 DEF Locals
  <2>4. n \in Names /\ \A u \in Threads : u # t => th[u].at \notin Setting
    BY <1>c, <1>d, <2>2 DEF Setting
  <2>5. i \in Ids /\ i > th[t].id /\ m_cbs[n][i] # Null /\ m_cbs[n][i] \in Listeners
    BY <1>b, <2>1, <2>4 DEF After
  <2> DEFINE c == m_cbs[n][i]
  <2>6. seen'[c] = th[t].v /\ \A l \in Listeners : l # c => seen'[l] = seen[l]
    BY <1>e, <2>1, <2>5
  <2>7. \A m \in Names : \A j \in Ids : m_cbs[m][j] = c => m = n /\ j = i
    BY <1>a, <2>4, <2>5 DEF OncePlaced
  <2>8. \A m : Registered(m)' = Registered(m)
    BY <2>2 DEF Registered
  <2>9. ASSUME NEW m \in Names, m # n, Told(m, m_val[m])
        PROVE  Told(m, m_val[m])'
    <3>1. \A l \in Registered(m) : l \in Listeners /\ l # c
      BY <1>b, <2>7, <2>9 DEF Registered
    <3> QED
      BY <2>2, <2>6, <2>8, <2>9, <3>1 DEF Told
  <2>10. ASSUME NEW j \in Ids, m_cbs[n][j] # Null
         PROVE  seen'[m_cbs[n][j]] \in {Null, IF j > i THEN m_val[n] ELSE th[t].v}
    <3>1. m_cbs[n][j] \in Listeners /\ j \in Nat /\ i \in Nat /\ th[t].id \in Nat
      BY <1>b, <2>4, <2>5, <2>10, ConfigAssumption DEF Ids, Locals
    <3>2. seen[m_cbs[n][j]] \in {Null, IF j > th[t].id THEN m_val[n] ELSE th[t].v}
      BY <2>2, <2>10 DEF AgreeInv, At
    <3>3. CASE j = i
      BY <2>6, <3>1, <3>3
    <3>4. CASE j > i
      <4>1. j > th[t].id /\ m_cbs[n][j] # c
        BY <2>4, <2>5, <2>7, <3>1, <3>4
      <4> QED
        BY <2>6, <3>1, <3>2, <3>4, <4>1
    <3>5. CASE j < i
      <4>1. ~(j > th[t].id) /\ m_cbs[n][j] # c
        BY <2>1, <2>4, <2>7, <2>10, <3>1, <3>5 DEF After
      <4> QED
        BY <2>6, <3>1, <3>2, <3>5, <4>1
    <3> QED
      BY <3>1, <3>3, <3>4, <3>5
  <2>11. \A u \in Threads : th'[u].at \in {"store", "put"} => seen'[th'[u].l] = Null
    <3>1. ASSUME NEW u \in Threads, th[u].at \in {"store", "put"}
          PROVE  seen'[th[u].l] = Null
      <4>1. th[u].l # c
        BY <1>a, <2>4, <2>5, <3>1 DEF OncePlaced
      <4>2. th[u].l \in Listeners
        BY <1>a, <3>1, <1>b, ConfigAssumption DEF IndInv, Counters, Adding, Listeners, TypeOK
      <4> QED
        BY <2>6, <3>1, <4>1, <4>2 DEF AgreeInv
    <3> QED
      BY <1>b, <2>3, <3>1
  <2>12. \A l \in Listeners : l > adds' => seen'[l] = Null
    <3>1. c <= adds
      BY <1>a, <2>4, <2>5 DEF OncePlaced
    <3> QED
      BY <1>b, <2>2, <2>5, <2>6, <3>1, ConfigAssumption DEF AgreeInv, Listeners
  <2>13. ASSUME NEW m \in Names,
                \A u \in Threads : th'[u].n = m => th'[u].at \notin {"notify", "write"}
         PROVE  Told(m, m_val[m])'
    <3>1. m # n /\ \A u \in Threads : th[u].n = m => th[u].at \notin {"notify", "write"}
      BY <1>b, <2>2, <2>3, <2>13
    <3> QED
      BY <2>9, <3>1 DEF AgreeInv
  <2>14. \A u \in Threads : u # t => th'[u].at \notin {"notify", "write"}
    BY <1>b, <2>4 DEF Setting
  <2> QED
    BY <2>2, <2>3, <2>8, <2>10, <2>11, <2>12, <2>13, <2>14 DEF AgreeInv, At
<1>10. CASE NotifyEnd(t)
  <2> DEFINE n == th[t].n
  <2>1. /\ th[t].at = "notify" /\ After(n, th[t].id) = {}
        /\ th' = [th EXCEPT ![t].at = "write"]
        /\ UNCHANGED <<datas, m_cbs, m_val, seen, adds>>
    BY <1>10 DEF NotifyEnd, At, regVars, cbVars
  <2>2. th'[t].at = "write" /\ th'[t].n = n /\ th'[t].v = th[t].v
    BY <1>b, <2>1 DEF Locals
  <2>3. \A i \in Ids : m_cbs[n][i] # Null => ~(i > th[t].id)
    BY <2>1 DEF After
  <2>4. Told(n, th[t].v)
    BY <2>1, <2>3 DEF AgreeInv, At, Told, Registered
  <2>5. \A m : Registered(m)' = Registered(m)
    BY <2>1 DEF Registered
  <2>6. \A u \in Threads : u = t \/ th'[u] = th[u]
    BY <1>b
  <2>7. ASSUME NEW m \in Names,
               \A u \in Threads : th'[u].n = m => th'[u].at \notin {"notify", "write"}
        PROVE  Told(m, m_val[m])'
    <3>1. \A u \in Threads : th[u].n = m => th[u].at \notin {"notify", "write"}
      BY <2>1, <2>2, <2>6, <2>7
    <3> QED
      BY <2>1, <2>5, <3>1 DEF AgreeInv, Told
  <2>8. ASSUME NEW u \in Threads
        PROVE  /\ th'[u].at = "notify" => \A i \in Ids : m_cbs[th'[u].n][i] # Null =>
                     seen[m_cbs[th'[u].n][i]]
                        \in {Null, IF i > th'[u].id THEN m_val[th'[u].n] ELSE th'[u].v}
               /\ th'[u].at = "write" => \A l \in Registered(th'[u].n) : seen[l] \in {Null, th'[u].v}
               /\ th'[u].at \in {"store", "put"} => seen[th'[u].l] = Null
    BY <2>2, <2>4, <2>6 DEF AgreeInv, At, Told
  <2> QED
    BY <2>1, <2>5, <2>7, <2>8 DEF AgreeInv, At, Told
<1>11. CASE Assign(t)
  <2> DEFINE n == th[t].n
  <2>1. /\ th[t].at = "write" /\ m_val' = [m_val EXCEPT ![n] = th[t].v]
        /\ Return(t)
        /\ UNCHANGED <<datas, m_cbs, seen, adds>>
    BY <1>11 DEF Assign, At, regVars, cbVars
  <2>2. th'[t].at \in {"idle", "load"}
    BY <1>b, <2>1 DEF Return, Idle, Locals
  <2>3. n \in Names /\ \A u \in Threads : u # t => th[u].at \notin Setting
    BY <1>c, <1>d, <2>1 DEF Setting
  <2>4. Told(n, th[t].v) /\ \A m : Registered(m)' = Registered(m)
    BY <2>1 DEF AgreeInv, At, Registered
  <2>5. m_val'[n] = th[t].v /\ \A m \in Names : m # n => m_val'[m] = m_val[m]
    BY <1>b, <2>1, <2>3
  <2>6. \A m \in Names : Told(m, m_val[m])'
    <3>1. ASSUME NEW m \in Names, m # n
          PROVE  Told(m, m_val[m])
      BY <2>3, <3>1 DEF AgreeInv, Setting
    <3> QED
      BY <2>1, <2>4, <2>5, <3>1 DEF Told
  <2>7. \A u \in Threads : /\ th'[u].at \notin {"notify", "write"}
                           /\ th'[u].at \in {"store", "put"} => seen[th'[u].l] = Null
    BY <1>b, <2>2, <2>3 DEF Setting, AgreeInv
  <2> QED
    BY <2>1, <2>4, <2>6, <2>7 DEF AgreeInv, At
<1>12. ASSUME \/ \E n \in Names, T \in Types : LookupExists(t, n, T)
              \/ Visit(t) \/ VisitEnd(t)
              \/ \E f \in Files : Load(t, f)
              \/ LoadNext(t) \/ LoadEnd(t)
              \/ \E n \in Names, v \in Vals : SetValue(t, n, v)
              \/ SetSame(t) \/ AddReturn(t)
       PROVE  AgreeInv'
  <2>1. UNCHANGED <<m_cbs, m_val, seen, adds>>
    BY <1>12 DEF LookupExists, Visit, VisitEnd, Load, LoadNext, LoadEnd, SetValue, SetSame,
       AddReturn, cbVars
  <2>2. \/ th'[t] = th[t]
        \/ /\ th[t].at \notin {"notify", "write"}
           /\ th'[t].at \notin {"notify", "write", "store", "put"}
    <3> USE <1>b DEF Locals, Idle, At
    <3>1. CASE Visit(t)
      BY <3>1 DEF Visit, Begin
    <3>2. CASE VisitEnd(t)
      BY <3>2 DEF VisitEnd
    <3>3. ASSUME NEW f \in Files, Load(t, f)
          PROVE  /\ th[t].at \notin {"notify", "write"}
                 /\ th'[t].at \notin {"notify", "write", "store", "put"}
      BY <3>3 DEF Load
    <3>4. CASE LoadNext(t)
      BY <3>4 DEF LoadNext, Continue
    <3>5. CASE LoadEnd(t)
      BY <3>5 DEF LoadEnd
    <3>6. ASSUME NEW n \in Names, NEW v \in Vals, SetValue(t, n, v)
          PROVE  /\ th[t].at \notin {"notify", "write"}
                 /\ th'[t].at \notin {"notify", "write", "store", "put"}
      BY <3>6 DEF SetValue
    <3>7. CASE SetSame(t)
      BY <3>7 DEF SetSame, Return
    <3>8. CASE AddReturn(t)
      BY <3>8 DEF AddReturn
    <3> QED
      BY <1>12, <3>1, <3>2, <3>3, <3>4, <3>5, <3>6, <3>7, <3>8 DEF LookupExists
  <2> QED
    BY <1>1, <2>1, <2>2
<1> QED
  BY <1>2, <1>3, <1>4, <1>5, <1>6, <1>7, <1>8, <1>9, <1>10, <1>11, <1>12 DEF Step

\* With one setting thread, whoever listens to a variable that is not being
\* set knows the value it has, or was never told any.
THEOREM ListenersKnow == ASSUME OneSetter PROVE Spec => []ListenersAgree
<1>1. Init => SettersOnly /\ AgreeInv
  BY DEF Init, SettersOnly, AgreeInv, Idle, Setting, At, NoCbs, Registered, Told
<1>2. IndInv /\ SettersOnly /\ AgreeInv /\ [Next]_vars => SettersOnly' /\ AgreeInv'
  <2>1. ASSUME SettersOnly, AgreeInv, UNCHANGED vars
        PROVE  SettersOnly' /\ AgreeInv'
    <3>1. UNCHANGED <<datas, m_val, m_cbs, adds, seen, th>>
      BY <2>1 DEF vars, regVars, cbVars
    <3>2. \A n : Registered(n)' = Registered(n)
      BY <3>1 DEF Registered
    <3> QED
      BY <2>1, <3>1, <3>2 DEF SettersOnly, AgreeInv, At, Told
  <2> QED
    BY <2>1, NextSetters, NextAgree DEF Next
<1>3. AgreeInv => ListenersAgree
  BY DEF AgreeInv, ListenersAgree, AtRest, Told
<1> QED
  BY <1>1, <1>2, <1>3, Invariance, PTL DEF Spec

\* What was applied to variables stays so while they keep type and value.
LEMMA AppliedKept ==
  ASSUME NEW f \in Seq(Nodes), NEW k, NEW ns \in SUBSET Names, Applied(f, k, ns),
         \A n \in ns : datas'[n] = datas[n] /\ m_val'[n] = m_val[n]
  PROVE  Applied(f, k, ns)'
<1>1. ASSUME NEW n \in ns
      PROVE  SetBy(f, n)' = SetBy(f, n)
  BY DEF SetBy, Converted
<1>2. ASSUME NEW n \in ns, NEW i \in SetBy(f, n)
      PROVE  Converted(f[i])' = Converted(f[i])
  BY DEF SetBy, Converted
<1> QED
  BY <1>1, <1>2 DEF Applied

\* A thread that does not move goes on loading, whatever the step does to
\* variables that nobody had registered.
LEMMA LoadingKept ==
  ASSUME IndInv, NEW u \in Threads, Loading(u), UNCHANGED th[u],
         \A n \in Names : datas[n] # Null => datas'[n] = datas[n],
         \/ th[u].at \notin Setting \cup {"load"}
         \/ lastLoad' = NoLoad /\ \A n \in Names : datas[n] # Null => m_val'[n] = m_val[n]
  PROVE  Loading(u)'
<1>1. th[u] \in Locals /\ OnRegistered
  BY DEF IndInv, TypeOK
<1>2. th[u].file \in Seq(Nodes) /\ th[u].early \in SUBSET Names
  BY <1>1 DEF Locals
<1>3. Place(u)' = Place(u)
  BY DEF Place
<1>4. ASSUME NEW k, Applied(th[u].file, k, th[u].early), th[u].at \in Setting \cup {"load"}
      PROVE  Applied(th[u].file, k, th[u].early)'
  <2>1. \A n \in th[u].early : datas'[n] = datas[n] /\ m_val'[n] = m_val[n]
    BY <1>2, <1>4 DEF Loading
  <2>2. \A f \in Seq(Nodes), ns \in SUBSET Names : f = th[u].file /\ ns = th[u].early =>
           Applied(f, k, ns)'
    BY <1>4, <2>1, AppliedKept
  <2> QED
    BY <1>2, <2>2 DEF Applied
<1>5. th[u].at \in Setting => th[u].n \in Names /\ datas'[th[u].n] = datas[th[u].n]
  BY <1>1 DEF OnRegistered, Setting
<1>6. ASSUME th[u].loading, th[u].at \in Setting
      PROVE  Converted(th[u].file[Place(u)])' = Converted(th[u].file[Place(u)])
  BY <1>3, <1>5, <1>6 DEF Loading, Converted
<1>7. \A n \in th[u].early : datas'[n] # Null
  BY <1>2 DEF Loading
<1> QED
  BY <1>3, <1>4, <1>6, <1>7 DEF Loading, At

\* A thread that goes on without changing what it loads.
LEMMA LoadingSame ==
  ASSUME IndInv, NEW t \in Threads, Loading(t),
         th'[t].file = th[t].file, th'[t].rest = th[t].rest,
         th'[t].early = th[t].early, th'[t].loading = th[t].loading,
         UNCHANGED <<datas, m_val, lastLoad>>,
         \/ th'[t].at \notin Setting \cup {"load"}
         \/ /\ th[t].at \in Setting /\ th'[t].at \in Setting
            /\ th'[t].n = th[t].n /\ th'[t].v = th[t].v
  PROVE  Loading(t)'
<1>1. Place(t)' = Place(t)
  BY DEF Place
<1>2. \A f, k, ns : Applied(f, k, ns)' <=> Applied(f, k, ns)
  BY DEF Applied, SetBy, Converted
<1>3. \A e : Converted(e)' = Converted(e)
  BY DEF Converted
<1> QED
  BY <1>1, <1>2, <1>3 DEF Loading, At, Setting

\* A thread that loads nothing.
LEMMA LoadingIdle ==
  ASSUME NEW t \in Threads, th'[t].loading = FALSE, th'[t].early = {}, th'[t].at # "load",
         th'[t].at \in Setting => lastLoad' = NoLoad
  PROVE  Loading(t)'
BY DEF Loading, At, Setting

\* A thread that has k nodes behind it and the rest before it ...
LEMMA LoadingLoads ==
  ASSUME NEW t \in Threads, NEW f \in Seq(Nodes), NEW r \in Seq(Nodes),
         NEW ns \in SUBSET Names, NEW k \in Nat,
         th'[t].at = "load", th'[t].loading, th'[t].file = f, th'[t].rest = r,
         th'[t].early = ns, lastLoad' = NoLoad, \A n \in ns : datas'[n] # Null,
         k + Len(r) = Len(f), \A i \in 1..Len(r) : r[i] = f[k + i],
         Applied(f, k, ns)'
  PROVE  Loading(t)'
<1>1. Len(r) \in Nat /\ Len(f) \in Nat
  OBVIOUS
<1>2. Len(f) - Len(r) = k
  BY <1>1
<1>3. Place(t)' = k
  BY <1>2 DEF Place
<1>4. Applied(th[t].file, Place(t), th[t].early)'
  BY <1>3
<1> QED
  BY <1>3, <1>4 DEF Loading, At, Setting

\* ... and one that is setting the variable of the k-th.
LEMMA LoadingSets ==
  ASSUME NEW t \in Threads, NEW f \in Seq(Nodes), NEW r \in Seq(Nodes),
         NEW ns \in SUBSET Names, NEW k \in Nat, k >= 1,
         th'[t].at \in Setting, th'[t].loading, th'[t].file = f, th'[t].rest = r,
         th'[t].early = ns, lastLoad' = NoLoad, \A n \in ns : datas'[n] # Null,
         k + Len(r) = Len(f), \A i \in 1..Len(r) : r[i] = f[k + i],
         f[k].name = th'[t].n, Converted(f[k])' = th'[t].v, th'[t].v # Null,
         Applied(f, k - 1, ns)'
  PROVE  Loading(t)'
<1>1. Len(r) \in Nat /\ Len(f) \in Nat
  OBVIOUS
<1>2. Len(f) - Len(r) = k
  BY <1>1
<1>3. Place(t)' = k
  BY <1>2 DEF Place
<1>4. Applied(th[t].file, Place(t) - 1, th[t].early)'
  BY <1>3
<1>5. Converted(th[t].file[Place(t)])' = th'[t].v
  BY <1>3
<1>6. th'[t].file[Place(t)'] = f[k]
  BY <1>3
<1> QED
  BY <1>3, <1>4, <1>5, <1>6 DEF Loading, At, Setting

\* A node that sets nothing is applied as it is ...
LEMMA AppliedSkips ==
  ASSUME NEW f \in Seq(Nodes), NEW k \in Nat, NEW ns \in SUBSET Names, Applied(f, k, ns),
         Converted(f[k + 1]) = Null
  PROVE  Applied(f, k + 1, ns)
<1> SUFFICES ASSUME NEW n \in ns, NEW i \in SetBy(f, n), i <= k + 1,
                    \A j \in SetBy(f, n) : j <= k + 1 => j <= i
             PROVE  m_val[n] = Converted(f[i])
  BY DEF Applied
<1>1. SetBy(f, n) \subseteq Nat /\ i # k + 1
  BY DEF SetBy
<1>2. i <= k /\ \A j \in SetBy(f, n) : j <= k => j <= i
  BY <1>1
<1> QED
  BY <1>2 DEF Applied

\* ... and one that sets a variable when the variable has its value.
LEMMA AppliedSets ==
  ASSUME NEW f \in Seq(Nodes), NEW k \in Nat, k >= 1, k <= Len(f), NEW ns \in SUBSET Names,
         Applied(f, k - 1, ns), Converted(f[k]) # Null,
         \A n \in ns : datas'[n] = datas[n] /\ (n # f[k].name => m_val'[n] = m_val[n]),
         m_val'[f[k].name] = Converted(f[k])
  PROVE  Applied(f, k, ns)'
<1>1. ASSUME NEW n \in ns
      PROVE  SetBy(f, n)' = SetBy(f, n) /\ SetBy(f, n) \subseteq Nat
  BY DEF SetBy, Converted
<1>2. ASSUME NEW n \in ns, NEW i \in SetBy(f, n)
      PROVE  Converted(f[i])' = Converted(f[i])
  BY DEF SetBy, Converted
<1> SUFFICES ASSUME NEW n \in ns, NEW i \in SetBy(f, n), i <= k,
                    \A j \in SetBy(f, n) : j <= k => j <= i
             PROVE  m_val'[n] = Converted(f[i])
  BY <1>1, <1>2 DEF Applied
<1>3. CASE n = f[k].name
  <2>1. k \in SetBy(f, n)
    BY <1>3 DEF SetBy
  <2>2. i = k
    BY <1>1, <2>1
  <2> QED
    BY <1>3, <2>2
<1>4. CASE n # f[k].name
  <2>1. i # k
    BY <1>4 DEF SetBy
  <2>2. i <= k - 1 /\ \A j \in SetBy(f, n) : j <= k - 1 => j <= i
    BY <1>1, <2>1
  <2> QED
    BY <1>4, <2>2 DEF Applied
<1> QED
  BY <1>3, <1>4

\* Loads go on as they should, and what the last one did stands.
LEMMA NextLoad ==
  ASSUME OneSetter, IndInv, SettersOnly, LoadInv, NEW t \in Threads, Step(t)
  PROVE  LoadInv'
<1>b. /\ \A u \in Threads \ {t} : th'[u] = th[u]
      /\ th \in [Threads -> Locals] /\ th' \in [Threads -> Locals]
      /\ datas \in [Names -> Types \cup {Null}] /\ datas' \in [Names -> Types \cup {Null}]
      /\ m_val \in [Names -> Vals \cup {Null}]
      /\ \A n \in Names : datas[n] # Null => datas'[n] = datas[n]
  BY StepFacts
<1>c. /\ Loading(t) /\ LastApplied
      /\ lastLoad.file \in Seq(Nodes) /\ lastLoad.early \in SUBSET Names
      /\ th[t].at \in Setting => th[t].n \in Names /\ datas[th[t].n] # Null
  BY DEF LoadInv, IndInv, TypeOK, OnRegistered, Setting
<1>d. \A u \in Threads : th[t].at \in Setting \cup {"load"} /\ th[u].at \in Setting \cup {"load"}
         => t = u
  BY SettingAlone
<1>e. th[t] \in Locals /\ th[t].file \in Seq(Nodes) /\ th[t].rest \in Seq(Nodes)
      /\ th[t].early \in SUBSET Names /\ th[t].loading \in BOOLEAN
  BY <1>b DEF Locals
<1>1. ASSUME lastLoad' \in {lastLoad, NoLoad}, Loading(t)',
             \/ \A n \in Names : datas[n] # Null => m_val'[n] = m_val[n]
             \/ th[t].at \in Setting
      PROVE  LoadInv'
  <2>1. ASSUME NEW u \in Threads \ {t}
        PROVE  Loading(u)'
    <3>1. Loading(u) /\ th'[u] = th[u]
      BY <1>b DEF LoadInv
    <3>2. \/ th[u].at \notin Setting \cup {"load"}
          \/ lastLoad' = NoLoad /\ \A n \in Names : datas[n] # Null => m_val'[n] = m_val[n]
      BY <1>1, <1>d, <3>1 DEF Loading
    <3> QED
      BY <1>b, <3>1, <3>2, LoadingKept
  <2>2. ASSUME lastLoad' = NoLoad
        PROVE  LastApplied'
    <3>1. lastLoad'.early = {}
      BY <2>2 DEF NoLoad
    <3> QED
      BY <3>1 DEF LastApplied, Applied
  <2>3. ASSUME lastLoad' = lastLoad, \A n \in Names : datas[n] # Null => m_val'[n] = m_val[n]
        PROVE  LastApplied'
    <3>1. \A n \in lastLoad.early : datas[n] # Null /\ datas'[n] = datas[n] /\ m_val'[n] = m_val[n]
      BY <1>b, <1>c, <2>3 DEF LastApplied
    <3>2. Applied(lastLoad.file, Len(lastLoad.file), lastLoad.early)
      BY <1>c DEF LastApplied
    <3>3. \A f \in Seq(Nodes), ns \in SUBSET Names :
             f = lastLoad.file /\ ns = lastLoad.early => Applied(f, Len(f), ns)'
      BY <3>1, <3>2, AppliedKept
    <3>4. Applied(lastLoad.file, Len(lastLoad.file), lastLoad.early)'
      BY <1>c, <2>3, <3>3
    <3>5. Applied(lastLoad.file, Len(lastLoad.file), lastLoad.early)' /\ lastLoad'.early = lastLoad.early
      BY <2>3, <3>4
    <3> QED
      BY <3>1, <3>5 DEF LastApplied
  <2>4. LastApplied'
    <3>1. th[t].at \in Setting => lastLoad = NoLoad
      BY <1>c DEF Loading
    <3> QED
      BY <1>1, <2>2, <2>3, <3>1
  <2> QED
    BY <1>1, <2>1, <2>4 DEF LoadInv
<1>2. ASSUME UNCHANGED <<datas, m_val, lastLoad>>, Loading(t)'
      PROVE  LoadInv'
  BY <1>1, <1>2
<1>3. ASSUME NEW n \in Names, NEW T \in Types,
             \/ LookupExists(t, n, T)
             \/ \E v \in Vals : LookupCreate(t, n, T, v)
      PROVE  LoadInv'
  <2>1. /\ th[t].at = "idle" /\ UNCHANGED <<th, lastLoad>>
        /\ \A m \in Names : datas[m] # Null => m_val'[m] = m_val[m]
    BY <1>b, <1>3 DEF LookupExists, LookupCreate, At
  <2>2. Loading(t)'
    BY <1>b, <1>c, <2>1, LoadingKept DEF Setting
  <2> QED
    BY <1>1, <2>1, <2>2
<1>4. ASSUME \/ \E h \in handles : delListerer(t, h)
             \/ \E n \in Names : clearListener(t, n)
      PROVE  LoadInv'
  <2>1. UNCHANGED <<datas, m_val, th, lastLoad>> /\ th[t].at = "idle"
    BY <1>4 DEF delListerer, clearListener, regVars, At
  <2> QED
    BY <1>2, <1>c, <2>1, LoadingSame DEF Setting
<1>5. ASSUME UNCHANGED <<datas, m_val, lastLoad>>, th'[t].loading = FALSE, th'[t].early = {},
             th'[t].at \notin Setting \cup {"load"}
      PROVE  LoadInv'
  BY <1>2, <1>5, LoadingIdle
<1>6. CASE Visit(t) \/ VisitEnd(t) \/ AddReturn(t) \/ \E n \in Names : AddListener(t, n)
  <2>1. UNCHANGED <<datas, m_val, lastLoad>>
    BY <1>6 DEF Visit, VisitEnd, AddReturn, AddListener, regVars
  <2>2. th'[t].loading = FALSE /\ th'[t].early = {} /\ th'[t].at \notin Setting \cup {"load"}
    <3> USE <1>b DEF Idle, Setting
    <3>1. CASE Visit(t)
      BY <3>1 DEF Visit, Begin
    <3>2. CASE VisitEnd(t)
      BY <3>2 DEF VisitEnd
    <3>3. CASE AddReturn(t)
      BY <3>3 DEF AddReturn
    <3>4. ASSUME NEW n \in Names, AddListener(t, n)
          PROVE  th'[t].loading = FALSE /\ th'[t].early = {} /\ th'[t].at = "store"
      BY <3>4 DEF AddListener
    <3> QED
      BY <1>6, <3>1, <3>2, <3>3, <3>4
  <2> QED
    BY <1>5, <2>1, <2>2
<1>7. CASE AddStore(t) \/ AddPut(t) \/ SetBegin(t) \/ Notify(t) \/ NotifyEnd(t)
  <2>1. UNCHANGED <<datas, m_val, lastLoad>>
    BY <1>7 DEF AddStore, AddPut, SetBegin, Notify, NotifyEnd, regVars
  <2>2. /\ th'[t].file = th[t].file /\ th'[t].rest = th[t].rest
        /\ th'[t].early = th[t].early /\ th'[t].loading = th[t].loading
        /\ \/ th'[t].at \notin Setting \cup {"load"}
           \/ /\ th[t].at \in Setting /\ th'[t].at \in Setting
              /\ th'[t].n = th[t].n /\ th'[t].v = th[t].v
    <3> USE <1>b DEF Locals, Setting, At
    <3>1. CASE AddStore(t)
      BY <3>1 DEF AddStore
    <3>2. CASE AddPut(t)
      BY <3>2 DEF AddPut
    <3>3. CASE SetBegin(t)
      BY <3>3 DEF SetBegin
    <3>4. CASE Notify(t)
      BY <3>4 DEF Notify
    <3>5. CASE NotifyEnd(t)
      BY <3>5 DEF NotifyEnd
    <3> QED
      BY <1>7, <3>1, <3>2, <3>3, <3>4, <3>5
  <2> QED
    BY <1>2, <1>c, <2>1, <2>2, LoadingSame
<1>8. ASSUME NEW n \in Names, NEW v \in Vals, SetValue(t, n, v)
      PROVE  LoadInv'
  <2>1. /\ lastLoad' = NoLoad /\ UNCHANGED <<datas, m_val>>
        /\ th' = [th EXCEPT ![t] = [Idle EXCEPT !.at = "read", !.n = n, !.v = v]]
    BY <1>8 DEF SetValue, regVars
  <2>2. th'[t].at = "read" /\ th'[t].loading = FALSE /\ th'[t].early = {}
    BY <1>b, <2>1 DEF Idle
  <2> QED
    BY <1>1, <2>1, <2>2, LoadingIdle
<1>9. ASSUME NEW f \in Files, Load(t, f)
      PROVE  LoadInv'
  <2> DEFINE E == {n \in Names : datas[n] # Null}
  <2>1. /\ lastLoad' = NoLoad /\ UNCHANGED <<datas, m_val>>
        /\ th' = [th EXCEPT ![t] = [Idle EXCEPT !.at = "load", !.loading = TRUE, !.file = f,
                                                !.rest = f, !.early = E]]
    BY <1>9 DEF Load, regVars
  <2>2. /\ th'[t].at = "load" /\ th'[t].loading = TRUE /\ th'[t].file = f
        /\ th'[t].rest = f /\ th'[t].early = E
    BY <1>b, <2>1 DEF Idle
  <2>3. f \in Seq(Nodes)
    BY ConfigAssumption DEF Nodes
  <2>5. \A s : Applied(f, 0, s)'
    BY <2>3 DEF Applied, SetBy
  <2>6. \A i \in 1..Len(f) : f[i] = f[0 + i]
    BY <2>3
  <2>7. \A n \in E : datas'[n] # Null
    BY <2>1
  <2>8. E \in SUBSET Names /\ 0 + Len(f) = Len(f)
    BY <2>3
  <2>9. Loading(t)'
    BY <2>1, <2>2, <2>3, <2>5, <2>6, <2>7, <2>8, LoadingLoads
  <2> QED
    BY <1>1, <2>1, <2>9
<1>10. CASE LoadNext(t)
  <2>1. /\ th[t].at = "load" /\ th[t].rest # <<>> /\ th[t].loading
        /\ Continue(t, Tail(th[t].rest), Head(th[t].rest), Converted(Head(th[t].rest)))
        /\ UNCHANGED <<datas, m_val, lastLoad>>
    BY <1>10, <1>c DEF LoadNext, regVars, At, Loading
  <2>2. PICK f \in Seq(Nodes), r \in Seq(Nodes), ns \in SUBSET Names :
           f = th[t].file /\ r = th[t].rest /\ ns = th[t].early
    BY <1>e
  <2>3. Len(r) \in Nat /\ Len(f) \in Nat /\ Len(r) >= 1
    BY <2>1, <2>2
  <2>4. PICK k \in Nat : k = Len(f) - Len(r)
    <3>1. Place(t) >= 0 /\ Place(t) = Len(f) - Len(r)
      BY <1>c, <2>1, <2>2 DEF Loading, Place
    <3>2. Len(f) - Len(r) \in Nat
      BY <2>3, <3>1
    <3> QED
      BY <3>2
  <2>5. /\ \A i \in 1..Len(r) : r[i] = f[k + i]
        /\ Applied(f, k, ns) /\ \A n \in ns : datas[n] # Null
        /\ lastLoad = NoLoad
    BY <1>c, <2>1, <2>2, <2>4 DEF Loading, Place, At
  <2>6. PICK e \in Nodes : e = Head(r) /\ e = f[k + 1]
    <3>1. r[1] \in Nodes /\ Head(r) = r[1]
      BY <2>1, <2>2, <2>3
    <3> QED
      BY <2>3, <2>5, <3>1
  <2>7. PICK q \in Seq(Nodes) : q = Tail(r) /\ Len(q) = Len(r) - 1
    <3>1. Tail(r) \in Seq(Nodes) /\ Len(Tail(r)) = Len(r) - 1
      BY <2>1, <2>2
    <3> QED
      BY <3>1
  <2>8. \A i \in 1..Len(q) : q[i] = f[(k + 1) + i]
    <3>1. ASSUME NEW i \in 1..Len(q)
          PROVE  q[i] = f[(k + 1) + i]
      <4>1. q[i] = r[i + 1] /\ i + 1 \in 1..Len(r)
        BY <2>1, <2>2, <2>3, <2>7
      <4>2. k + (i + 1) = (k + 1) + i
        OBVIOUS
      <4> QED
        BY <2>5, <4>1, <4>2
    <3> QED
      BY <3>1
  <2>9. (k + 1) + Len(q) = Len(f) /\ k + 1 \in Nat
    BY <2>3, <2>4, <2>7
  <2>10. \A m : Applied(f, m, ns)' <=> Applied(f, m, ns)
    BY <2>1 DEF Applied, SetBy, Converted
  <2>11. Converted(e)' = Converted(e)
    BY <2>1 DEF Converted
  <2>12. \A n \in ns : datas'[n] # Null
    BY <2>1, <2>5
  <2>13. Continue(t, q, e, Converted(e))
    BY <2>1, <2>2, <2>6, <2>7
  <2>14. CASE Converted(e) = Null
    <3>1. Applied(f, k + 1, ns)
      BY <2>5, <2>6, <2>14, AppliedSkips
    <3>2. Applied(f, k + 1, ns)'
      BY <2>10, <3>1
    <3>3. th'[t].rest = q /\ th'[t].file = f /\ th'[t].early = ns /\ th'[t].loading
          /\ th'[t].at = "load"
      <4>1. th'[t] = [th[t] EXCEPT !.rest = q]
        BY <1>b, <2>13, <2>14 DEF Continue
      <4> QED
        BY <1>e, <2>1, <2>2, <4>1 DEF Locals
    <3>4. Loading(t)'
      BY <2>1, <2>5, <2>8, <2>9, <2>12, <3>2, <3>3, LoadingLoads
    <3> QED
      BY <1>2, <2>1, <3>4
  <2>15. CASE Converted(e) # Null
    <3>1. k + 1 >= 1 /\ (k + 1) - 1 = k
      OBVIOUS
    <3>2. Applied(f, (k + 1) - 1, ns)'
      BY <2>5, <2>10, <3>1
    <3>3. th'[t].rest = q /\ th'[t].file = f /\ th'[t].early = ns /\ th'[t].loading
          /\ th'[t].at = "read" /\ th'[t].n = e.name /\ th'[t].v = Converted(e)
      <4>1. th'[t] = [th[t] EXCEPT !.rest = q, !.at = "read", !.n = e.name, !.v = Converted(e)]
        BY <1>b, <2>13, <2>15 DEF Continue
      <4> QED
        BY <1>e, <2>1, <2>2, <4>1 DEF Locals
    <3>4. Converted(f[k + 1])' = th'[t].v /\ f[k + 1].name = th'[t].n /\ th'[t].v # Null
      BY <2>6, <2>11, <2>15, <3>3
    <3>5. th'[t].at \in Setting /\ lastLoad' = NoLoad
      BY <2>1, <2>5, <3>3 DEF Setting
    <3>6. Loading(t)'
      BY <2>8, <2>9, <2>12, <3>1, <3>2, <3>3, <3>4, <3>5, LoadingSets
    <3> QED
      BY <1>2, <2>1, <3>6
  <2> QED
    BY <2>14, <2>15
<1>11. CASE LoadEnd(t)
  <2> DEFINE f == th[t].file
             ns == th[t].early
  <2>1. /\ th[t].at = "load" /\ th[t].rest = <<>> /\ th[t].loading
        /\ th' = [th EXCEPT ![t] = Idle]
        /\ lastLoad' = [file |-> f, early |-> ns]
        /\ UNCHANGED <<datas, m_val>>
    BY <1>11, <1>c DEF LoadEnd, regVars, At, Loading
  <2>2. Place(t) = Len(f)
    BY <1>e, <2>1 DEF Place
  <2>3. Applied(f, Len(f), ns) /\ \A n \in ns : datas[n] # Null
    BY <1>c, <2>1, <2>2 DEF Loading, At
  <2>4. \A g, m, s : Applied(g, m, s)' <=> Applied(g, m, s)
    BY <2>1 DEF Applied, SetBy, Converted
  <2>5. LastApplied'
    BY <2>1, <2>3, <2>4 DEF LastApplied
  <2>6. Loading(t)'
    BY <1>b, <2>1, LoadingIdle DEF Idle, Setting
  <2>7. ASSUME NEW u \in Threads \ {t}
        PROVE  Loading(u)'
    <3>1. Loading(u) /\ th'[u] = th[u] /\ th[u].at \notin Setting \cup {"load"}
      BY <1>b, <1>d, <2>1 DEF LoadInv
    <3> QED
      BY <1>b, <3>1, LoadingKept
  <2> QED
    BY <2>5, <2>6, <2>7 DEF LoadInv
<1>12. CASE SetSame(t) \/ Assign(t)
  <2> DEFINE n == th[t].n
             v == th[t].v
  <2>1. /\ th[t].at \in Setting /\ Return(t) /\ UNCHANGED <<datas, lastLoad>>
        /\ n \in Names /\ datas[n] # Null /\ lastLoad = NoLoad
        /\ \/ v = m_val[n] /\ UNCHANGED m_val
           \/ m_val' = [m_val EXCEPT ![n] = v]
    BY <1>12, <1>c DEF SetSame, Assign, regVars, At, Setting, Loading
  <2>2. m_val'[n] = v /\ \A m \in Names : m # n => m_val'[m] = m_val[m]
    BY <1>b, <2>1
  <2>3. CASE th[t].loading
    <3>1. PICK f \in Seq(Nodes), r \in Seq(Nodes), ns \in SUBSET Names :
             f = th[t].file /\ r = th[t].rest /\ ns = th[t].early
      BY <1>e
    <3>2. Len(r) \in Nat /\ Len(f) \in Nat
      BY <3>1
    <3>3. PICK k \in Nat : k = Len(f) - Len(r)
      <4>1. Place(t) >= 0 /\ Place(t) = Len(f) - Len(r)
        BY <1>c, <2>3, <3>1 DEF Loading, Place
      <4>2. Len(f) - Len(r) \in Nat
        BY <3>2, <4>1
      <4> QED
        BY <4>2
    <3>4. /\ k >= 1 /\ f[k].name = n /\ Converted(f[k]) = v /\ v # Null
          /\ Applied(f, k - 1, ns) /\ \A m \in ns : datas[m] # Null
          /\ \A i \in 1..Len(r) : r[i] = f[k + i]
      BY <1>c, <2>1, <2>3, <3>1, <3>3 DEF Loading, Place
    <3>5. k <= Len(f) /\ k + Len(r) = Len(f)
      BY <3>2, <3>3
    <3>6. \A m \in ns : datas'[m] = datas[m] /\ (m # f[k].name => m_val'[m] = m_val[m])
      BY <2>1, <2>2, <3>4
    <3>7. m_val'[f[k].name] = Converted(f[k]) /\ Converted(f[k]) # Null
      BY <2>2, <3>4
    <3>8. Applied(f, k, ns)'
      BY <3>4, <3>5, <3>6, <3>7, AppliedSets
    <3>9. /\ th'[t].at = "load" /\ th'[t].rest = r /\ th'[t].file = f
          /\ th'[t].early = ns /\ th'[t].loading
      BY <1>b, <1>e, <2>1, <2>3, <3>1 DEF Return, Locals
    <3>10. \A m \in ns : datas'[m] # Null
      BY <2>1, <3>4
    <3>11. lastLoad' = NoLoad
      BY <2>1
    <3>12. \A i \in 1..Len(r) : r[i] = f[k + i]
      BY <3>4
    <3>13. Loading(t)'
      BY <3>5, <3>8, <3>9, <3>10, <3>11, <3>12, LoadingLoads
    <3> QED
      BY <1>1, <2>1, <3>13
  <2>4. CASE ~th[t].loading
    <3>1. th'[t] = Idle
      BY <1>b, <2>1, <2>4 DEF Return
    <3>2. th'[t].loading = FALSE /\ th'[t].early = {} /\ th'[t].at = "idle"
      BY <3>1 DEF Idle
    <3>3. Loading(t)'
      BY <3>2, LoadingIdle DEF Setting
    <3> QED
      BY <1>1, <2>1, <3>3
  <2> QED
    BY <2>3, <2>4
<1> QED
  BY <1>3, <1>4, <1>6, <1>7, <1>8, <1>9, <1>10, <1>11, <1>12 DEF Step

\* With one setting thread, a load of any file leaves every variable that was
\* registered when it began with the value of the last node that names it and
\* converts: a node in error takes nothing from the others.
THEOREM LoadsApplied == ASSUME OneSetter PROVE Spec => []LoadApplied
<1>1. Init => SettersOnly /\ LoadInv
  BY ConfigAssumption DEF Init, SettersOnly, LoadInv, Loading, LastApplied, Applied, NoLoad,
     Idle, Setting, At
<1>2. IndInv /\ SettersOnly /\ LoadInv /\ [Next]_vars => SettersOnly' /\ LoadInv'
  <2>1. ASSUME SettersOnly, LoadInv, UNCHANGED vars
        PROVE  SettersOnly' /\ LoadInv'
    <3>1. UNCHANGED <<datas, m_val, th, lastLoad>>
      BY <2>1 DEF vars, regVars
    <3>2. \A g, m, s : Applied(g, m, s)' <=> Applied(g, m, s)
      BY <3>1 DEF Applied, SetBy, Converted
    <3>3. \A e : Converted(e)' = Converted(e)
      BY <3>1 DEF Converted
    <3>4. \A t \in Threads : Loading(t)'
      BY <2>1, <3>1, <3>2, <3>3 DEF LoadInv, Loading, At, Place
    <3> QED
      BY <2>1, <3>1, <3>2, <3>4 DEF SettersOnly, LoadInv, LastApplied
  <2> QED
    BY <2>1, NextSetters, NextLoad DEF Next
<1>3. IndInv /\ LoadInv => LoadApplied
  <2> SUFFICES ASSUME IndInv, LoadInv, NEW n \in lastLoad.early, NEW i \in SetBy(lastLoad.file, n),
                      \A j \in SetBy(lastLoad.file, n) : j <= i
               PROVE  m_val[n] = Converted(lastLoad.file[i])
    BY DEF LoadApplied
  <2>1. i <= Len(lastLoad.file)
    BY DEF IndInv, TypeOK, SetBy
  <2> QED
    BY <2>1 DEF LoadInv, LastApplied, Applied
<1> QED
  BY <1>1, <1>2, <1>3, Invariance, PTL DEF Spec
=============================================================================
