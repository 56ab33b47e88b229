------------------------------- MODULE Config -------------------------------
(***************************************************************************)
(* The configuration variables of src/awcotn/config.{h,cc}.                *)
(*                                                                         *)
(* Config keeps one variable per name under a read-write lock; a ConfigVar *)
(* keeps its value and its change listeners under another.  setValue()     *)
(* calls the listeners under the read lock, releases it, and assigns under *)
(* the write lock.  LoadFromYaml() sets one variable after the other.  The *)
(* counter that numbers listeners is shared by all variables of one type   *)
(* and protected by the lock of one of them only: its accesses are steps.  *)
(*                                                                         *)
(* Reads (getValue, toString, getListener, LookupBase) change nothing and  *)
(* appear inside the operations that use them.  A listener is the kind     *)
(* that hook.cc and log.cc install: it takes over the new value.           *)
(***************************************************************************)
EXTENDS Naturals, Sequences, FiniteSets

CONSTANTS Threads,
          Setters,    \* threads that call setValue() and LoadFromYaml()
          Names,      \* names of variables and of YAML nodes
          Valid,      \* those of lower case letters, digits, '.' and '_'
          Types,      \* the T of ConfigVar<T>
          Vals,
          Texts,      \* the scalars of YAML nodes
          Cast,       \* FromStr: by type and text; Null where it throws
          Files,      \* YAML documents: their nodes, parents before children
          MaxAdds,    \* bound: calls of addListener()
          Null

ASSUME ConfigAssumption ==
    /\ Setters \subseteq Threads /\ Valid \subseteq Names
    /\ Null \notin Types /\ Null \notin Vals /\ Null \notin Nat
    /\ Cast \in [Types -> [Texts -> Vals \cup {Null}]]
    /\ Files \subseteq Seq([name: Names, text: Texts])
    /\ MaxAdds \in Nat

Listeners == 1..MaxAdds        \* the callbacks, in the order they are made
Ids == 1..MaxAdds              \* keys of m_cbs

VARIABLES
    datas,     \* GetDatas(): the type of each registered variable
    held,      \* the pointers Lookup() has given out, with their type
    m_val, m_cbs,
    s_fun_id,  \* one counter per type
    adds,      \* how many listeners were made
    seen,      \* what each listener was last told
    handles,   \* ids that addListener() returned and that are in use
    th,        \* each thread: the operation it is in
    lastLoad   \* the last LoadFromYaml() that nothing followed   (history)

regVars == <<datas, held>>
cbVars == <<m_cbs, s_fun_id, adds, handles>>
vars == <<regVars, m_val, cbVars, seen, th, lastLoad>>

Idle == [at |-> "idle", n |-> Null, v |-> Null, old |-> Null, id |-> 0,
         l |-> 0, due |-> {}, rest |-> <<>>, loading |-> FALSE, file |-> <<>>,
         early |-> {}]
NoLoad == [file |-> <<>>, early |-> {}]
NoCbs == [i \in Ids |-> Null]

Init ==
    /\ datas = [n \in Names |-> Null] /\ held = {}
    /\ m_val = [n \in Names |-> Null]
    /\ m_cbs = [n \in Names |-> NoCbs]
    /\ s_fun_id = [T \in Types |-> 0]
    /\ adds = 0 /\ seen = [l \in Listeners |-> Null] /\ handles = {}
    /\ th = [t \in Threads |-> Idle]
    /\ lastLoad = NoLoad

At(t, label) == th[t].at = label
Begin(t, label, n) ==
    /\ At(t, "idle")
    /\ th' = [th EXCEPT ![t] = [Idle EXCEPT !.at = label, !.n = n]]
Pointer(n) == \E T \in Types : <<n, T>> \in held

----------------------------------------------------------------------------
(* The locks: who is inside, by where the threads are.  A reader gets in   *)
(* past waiting writers, as pthread_rwlock_t does by default.              *)

Readers(n) == {t \in Threads : th[t].n = n /\ At(t, "notify")}
Writers(n) == {t \in Threads : th[t].n = n /\ th[t].at \in {"store", "put", "return"}}
CanRead(n) == Writers(n) = {}
CanWrite_IgnoresReaders(n) == Writers(n) = {}                    \* mutant
CanWrite_ReadLock(n) == Readers(n) = {}                          \* mutant
CanWrite(n) == Readers(n) = {} /\ Writers(n) = {}
Visitors == {t \in Threads : At(t, "visit")}

----------------------------------------------------------------------------
(* Config.                                                                 *)

\* Both Lookup()s, of a variable that exists: a null pointer, and nothing
\* changes, where its type is another.
LookupExists(t, n, T) ==
    /\ At(t, "idle")
    /\ datas[n] = T
    /\ held' = held \cup {<<n, T>>}
    /\ UNCHANGED <<datas, m_val, cbVars, seen, th, lastLoad>>

\* The Lookup() with a default: an invalid name throws, and nothing changes.
LookupCreate(t, n, T, v) ==
    /\ At(t, "idle") /\ Visitors = {}
    /\ datas[n] = Null /\ n \in Valid
    /\ datas' = [datas EXCEPT ![n] = T]
    /\ m_val' = [m_val EXCEPT ![n] = v]
    /\ held' = held \cup {<<n, T>>}
    /\ UNCHANGED <<cbVars, seen, th, lastLoad>>

\* Visit() holds the registry's read lock while its callback runs.
Visit(t) ==
    /\ Begin(t, "visit", Null)
    /\ UNCHANGED <<regVars, m_val, cbVars, seen, lastLoad>>

VisitEnd(t) ==
    /\ At(t, "visit")
    /\ th' = [th EXCEPT ![t] = Idle]
    /\ UNCHANGED <<regVars, m_val, cbVars, seen, lastLoad>>

\* ListAllMember() leaves out a node with an invalid name, and with it all
\* below it, whose names begin with its name.
Listed(e) == e.name \in Valid

Load(t, f) ==
    /\ t \in Setters /\ At(t, "idle")
    /\ th' = [th EXCEPT ![t] =
                [Idle EXCEPT !.at = "load", !.loading = TRUE, !.file = f,
                             !.rest = f,
                             !.early = {n \in Names : datas[n] # Null}]]
    /\ lastLoad' = NoLoad
    /\ UNCHANGED <<regVars, m_val, cbVars, seen>>

\* What becomes of a node: Null where it is not listed, LookupBase() finds no
\* variable, or the conversion of fromString() throws.
Converted(e) ==
    IF Listed(e) /\ datas[e.name] # Null THEN Cast[datas[e.name]][e.text] ELSE Null

\* The variable is looked up and the text converted; then setValue().
Continue(t, rest, e, v) ==
    th' = [th EXCEPT ![t] = IF v = Null THEN [@ EXCEPT !.rest = rest]
                            ELSE [@ EXCEPT !.rest = rest, !.at = "read", !.n = e.name, !.v = v]]

LoadNext_StopsOnError(t) ==                                      \* mutant
    LET e == Head(th[t].rest)
    IN /\ At(t, "load") /\ th[t].rest # <<>>
       /\ Continue(t, IF Converted(e) = Null THEN <<>> ELSE Tail(th[t].rest), e, Converted(e))
       /\ UNCHANGED <<regVars, m_val, cbVars, seen, lastLoad>>
LoadNext(t) ==
    LET e == Head(th[t].rest)
    IN /\ At(t, "load") /\ th[t].rest # <<>>
       /\ Continue(t, Tail(th[t].rest), e, Converted(e))
       /\ UNCHANGED <<regVars, m_val, cbVars, seen, lastLoad>>

LoadEnd(t) ==
    /\ At(t, "load") /\ th[t].rest = <<>>
    /\ th' = [th EXCEPT ![t] = Idle]
    /\ lastLoad' = [file |-> th[t].file, early |-> th[t].early]
    /\ UNCHANGED <<regVars, m_val, cbVars, seen>>

----------------------------------------------------------------------------
(* ConfigVar::setValue().                                                  *)

Registered(n) == {m_cbs[n][i] : i \in {j \in Ids : m_cbs[n][j] # Null}}
After(n, i) == {j \in Ids : j > i /\ m_cbs[n][j] # Null}

SetValue(t, n, v) ==
    /\ t \in Setters /\ Pointer(n) /\ At(t, "idle")
    /\ th' = [th EXCEPT ![t] = [Idle EXCEPT !.at = "read", !.n = n, !.v = v]]
    /\ lastLoad' = NoLoad
    /\ UNCHANGED <<regVars, m_val, cbVars, seen>>

\* Back from setValue(), to LoadFromYaml() if it was called from there.
Return(t) == th' = [th EXCEPT ![t] =
    IF th[t].loading THEN [@ EXCEPT !.at = "load", !.n = Null, !.v = Null, !.old = Null,
                                    !.id = 0]
    ELSE Idle]

SetSame(t) ==
    /\ At(t, "read") /\ CanRead(th[t].n)
    /\ th[t].v = m_val[th[t].n]
    /\ Return(t)
    /\ UNCHANGED <<regVars, m_val, cbVars, seen, lastLoad>>

SetBegin(t) ==
    LET n == th[t].n
    IN /\ At(t, "read") /\ CanRead(n)
       /\ th[t].v # m_val[n]
       /\ th' = [th EXCEPT ![t] = [@ EXCEPT !.at = "notify", !.old = m_val[n], !.id = 0,
                                          !.due = Registered(n)]]
       /\ UNCHANGED <<regVars, m_val, cbVars, seen, lastLoad>>

\* The next entry of m_cbs.
Notify(t) ==
    LET n == th[t].n  ids == After(n, th[t].id)
    IN /\ At(t, "notify")
       /\ \E i \in ids :
             /\ \A j \in ids : i <= j
             /\ seen' = [seen EXCEPT ![m_cbs[n][i]] = th[t].v]
             /\ th' = [th EXCEPT ![t] = [@ EXCEPT !.id = i, !.due = th[t].due \ {m_cbs[n][i]}]]
       /\ UNCHANGED <<regVars, m_val, cbVars, lastLoad>>

NotifyEnd_Early(t) ==                                            \* mutant
    /\ At(t, "notify") /\ Cardinality(After(th[t].n, th[t].id)) <= 1
    /\ th' = [th EXCEPT ![t].at = "write"]
    /\ UNCHANGED <<regVars, m_val, cbVars, seen, lastLoad>>
NotifyEnd(t) ==
    /\ At(t, "notify") /\ After(th[t].n, th[t].id) = {}
    /\ th' = [th EXCEPT ![t].at = "write"]
    /\ UNCHANGED <<regVars, m_val, cbVars, seen, lastLoad>>

Assign(t) ==
    /\ At(t, "write") /\ CanWrite(th[t].n)
    /\ m_val' = [m_val EXCEPT ![th[t].n] = th[t].v]
    /\ Return(t)
    /\ UNCHANGED <<regVars, cbVars, seen, lastLoad>>

----------------------------------------------------------------------------
(* Listeners.  ++s_fun_id is a load and a store in the -O0 build; the key  *)
(* and the result are loads of their own.                                  *)

TypeOf(t) == datas[th[t].n]

AddListener(t, n) ==
    /\ Pointer(n) /\ CanWrite(n) /\ adds < MaxAdds
    /\ At(t, "idle")
    /\ th' = [th EXCEPT ![t] = [Idle EXCEPT !.at = "store", !.n = n, !.l = adds + 1,
                                            !.id = s_fun_id[datas[n]]]]
    /\ adds' = adds + 1
    /\ UNCHANGED <<regVars, m_val, m_cbs, s_fun_id, handles, seen, lastLoad>>

AddStore(t) ==
    /\ At(t, "store")
    /\ s_fun_id' = [s_fun_id EXCEPT ![TypeOf(t)] = th[t].id + 1]
    /\ th' = [th EXCEPT ![t].at = "put"]
    /\ UNCHANGED <<regVars, m_val, m_cbs, adds, handles, seen, lastLoad>>

AddPut(t) ==
    /\ At(t, "put")
    /\ m_cbs' = [m_cbs EXCEPT ![th[t].n][s_fun_id[TypeOf(t)]] = th[t].l]
    /\ th' = [th EXCEPT ![t].at = "return"]
    /\ UNCHANGED <<regVars, m_val, s_fun_id, adds, handles, seen, lastLoad>>

AddReturn(t) ==
    /\ At(t, "return")
    /\ handles' = handles \cup {[n |-> th[t].n, id |-> s_fun_id[TypeOf(t)], l |-> th[t].l]}
    /\ th' = [th EXCEPT ![t] = Idle]
    /\ UNCHANGED <<regVars, m_val, m_cbs, s_fun_id, adds, seen, lastLoad>>

delListerer(t, h) ==
    /\ At(t, "idle") /\ CanWrite(h.n)
    /\ m_cbs' = [m_cbs EXCEPT ![h.n][h.id] = Null]
    /\ handles' = handles \ {h}
    /\ UNCHANGED <<regVars, m_val, s_fun_id, adds, seen, th, lastLoad>>

clearListener(t, n) ==
    /\ At(t, "idle") /\ Pointer(n) /\ CanWrite(n)
    /\ m_cbs' = [m_cbs EXCEPT ![n] = NoCbs]
    /\ handles' = {h \in handles : h.n # n}
    /\ UNCHANGED <<regVars, m_val, s_fun_id, adds, seen, th, lastLoad>>

----------------------------------------------------------------------------

Step(t) ==
    \/ \E n \in Names, T \in Types : LookupExists(t, n, T)
    \/ \E n \in Names, T \in Types, v \in Vals : LookupCreate(t, n, T, v)
    \/ Visit(t) \/ VisitEnd(t)
    \/ \E f \in Files : Load(t, f)
    \/ LoadNext(t) \/ LoadEnd(t)
    \/ \E n \in Names, v \in Vals : SetValue(t, n, v)
    \/ SetSame(t) \/ SetBegin(t) \/ Notify(t) \/ NotifyEnd(t) \/ Assign(t)
    \/ \E n \in Names : AddListener(t, n)
    \/ AddStore(t) \/ AddPut(t) \/ AddReturn(t)
    \/ \E h \in handles : delListerer(t, h)
    \/ \E n \in Names : clearListener(t, n)

Next == \E t \in Threads : Step(t)

Spec == Init /\ [][Next]_vars

----------------------------------------------------------------------------
(* Properties.                                                             *)

Labels == {"idle", "visit", "load", "read", "notify", "write", "store", "put", "return"}
Nodes == [name: Names, text: Texts]
Locals == [at: Labels, n: Names \cup {Null}, v: Vals \cup {Null}, old: Vals \cup {Null},
           id: 0..MaxAdds, l: 0..MaxAdds, due: SUBSET Listeners, rest: Seq(Nodes),
           loading: BOOLEAN, file: Seq(Nodes), early: SUBSET Names]

\* The variables have their types (config.h:347-349, config.h:399-402).
TypeOK ==
    /\ datas \in [Names -> Types \cup {Null}]
    /\ held \subseteq Names \X Types
    /\ m_val \in [Names -> Vals \cup {Null}]
    /\ m_cbs \in [Names -> [Ids -> Listeners \cup {Null}]]
    /\ s_fun_id \in [Types -> 0..MaxAdds]
    /\ adds \in 0..MaxAdds
    /\ seen \in [Listeners -> Vals \cup {Null}]
    /\ handles \subseteq [n: Names, id: Ids, l: Listeners]
    /\ th \in [Threads -> Locals]
    /\ lastLoad \in [file: Seq(Nodes), early: SUBSET Names]

\* Every pointer that Lookup() gave out, at whatever time, is to the variable
\* that the registry holds under that name now, with the type it was asked
\* for: LoadFromYaml() reaches what the program reads (config.h:355-391).
HeldIsRegistered == \A p \in held : datas[p[1]] = p[2]

\* While setValue() iterates, the listeners it still has to call are those
\* that were registered when it began and that it has not called, and the old
\* value it tells them is the value of the variable: nobody adds, removes or
\* assigns under its read lock (config.h:305-317).
IterationStable ==
    \A t \in Threads : At(t, "notify") =>
        /\ {m_cbs[th[t].n][i] : i \in After(th[t].n, th[t].id)} = th[t].due
        /\ m_val[th[t].n] = th[t].old

OnlyOfItsType(n) == \A m \in Names \ {n} : datas[m] # datas[n]

\* The id that addListener() returned names the listener it was given, until
\* it is deleted: delListerer() removes one's own.  The counter is shared, so
\* this is claimed of a variable that is the only one of its type
\* (config.h:321-332).
HandleWorks ==
    \A h \in handles : OnlyOfItsType(h.n) => m_cbs[h.n][h.id] = h.l

AtRest(n) == \A t \in Threads : th[t].n = n => th[t].at \notin {"read", "notify", "write"}

\* With no setValue() on its way, every registered listener that was ever
\* called knows the value the variable has: s_connect_timeout is
\* tcp.connect.timeout.  Claimed of one setting thread (config.h:305-317).
ListenersAgree ==
    \A n \in Names : AtRest(n) =>
        \A l \in Registered(n) : seen[l] \in {Null, m_val[n]}

\* The nodes of f that set n, by their place in the list.
SetBy(f, n) == {i \in DOMAIN f : f[i].name = n /\ Converted(f[i]) # Null}

\* After LoadFromYaml() every variable that was registered when it began has
\* the value of the last node that names it and converts, whatever other
\* nodes failed to (config.cc:61-89).  Claimed of one setting thread.
LoadApplied ==
    LET f == lastLoad.file
    IN \A n \in lastLoad.early : \A i \in SetBy(f, n) :
          (\A j \in SetBy(f, n) : j <= i) => m_val[n] = Converted(f[i])
=============================================================================
