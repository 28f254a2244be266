-------------------------- MODULE UserServiceProofs --------------------------
(***************************************************************************)
(* Proofs about UserService, for any processes, requests and times to      *)
(* live, and any number of writes, warm-ups and failures.                  *)
(***************************************************************************)
EXTENDS UserService, TLAPS, WellFoundedInduction

Labels == {"idle"} \cup ReadSteps \cup WriteSteps \cup OtherSteps
Entry  == [version : Nat, ttl : 0 .. TTL]

Types ==
    /\ driver \in {"nop", "memory", "redis", "multi"}
    /\ row \in [state : {"none", "live", "deleted"}, version : Nat]
    /\ l1 \in [Procs -> Entry] /\ l2 \in Entry
    /\ warm \in [Procs -> SUBSET Nat]
    /\ pc \in [Requests -> Labels]
    /\ proc \in [Requests -> Procs \cup {NoProc}]
    /\ copy \in [Requests -> Nat] /\ base \in [Requests -> Nat]
    /\ staleAuth \in BOOLEAN /\ created \in Nat /\ faults \in Nat /\ raced \in BOOLEAN

\* A request that is under way has a process, and a copy only to cache it.
Placed ==
    \A r \in Requests : /\ pc[r] # "idle" => proc[r] \in Procs
                        /\ copy[r] # 0 => pc[r] \in {"fill1", "fill2"}

\* What belongs to a level the cache does not have is not used.
Levels ==
    /\ ~HasL1 => /\ \A p \in Procs : ~Present(l1[p]) /\ warm[p] = {}
                 /\ \A r \in Requests : pc[r] \notin {"get1", "fill1", "inv1"}
    /\ ~HasL2 => /\ ~Present(l2)
                 /\ \A r \in Requests : pc[r] \notin {"get2", "fill2", "inv2"}

\* A version that some read of a row, now w, has seen: the row was live then.
KnownIn(w, v) == v \in 1 .. w.version /\ (v = w.version => w.state = "live")
Known(v) == KnownIn(row, v)

\* Everything that is cached, or about to be, is such a version.
HeldKnown ==
    /\ row.state # "none" => row.version > 0
    /\ \A r \in Requests : pc[r] \in {"fill1", "fill2"} => Known(copy[r])
    /\ \A p \in Procs : Present(l1[p]) => Known(l1[p].version)
    /\ Present(l2) => Known(l2.version)
    /\ \A p \in Procs : \A v \in warm[p] : Known(v)

CacheInv == Types /\ Placed /\ Levels /\ HeldKnown

\* Logins began at a version the row has or has left behind; once an account was
\* created the row is there for good.
AccountsInv ==
    /\ \A r \in Requests : base[r] <= row.version
    /\ ~staleAuth /\ created <= 1 /\ (created = 1 => row.state # "none")

\* Copies and warm-ups hold the version of the row, and an outdated entry has a
\* writer that is about to remove it.
FillsCurrent == \A r \in Requests : pc[r] \in {"fill1", "fill2"} => copy[r] = row.version
WarmCurrent  == \A p \in Procs : \A v \in warm[p] : v = row.version
L2Current    == Fresh(l2) \/ \E r \in Requests : pc[r] \in {"inv1", "inv2"}
L1Current    == \A p \in Procs : Fresh(l1[p]) \/ \E r \in Requests : proc[r] = p /\ pc[r] = "inv1"
Current      == FillsCurrent /\ WarmCurrent /\ L2Current /\ L1Current

\* So it is without races and failures.
CurrentInv == ~raced /\ faults = 0 => ~(Writing /\ Reading) /\ ~Beyond /\ Current

----------------------------------------------------------------------------
(* The types, and where the requests are.                                  *)

LEMMA InitInv == Init => CacheInv /\ AccountsInv /\ CurrentInv
<1> SUFFICES ASSUME Init PROVE CacheInv /\ AccountsInv /\ CurrentInv
  OBVIOUS
<1> USE UserAssumption DEF Init
<1>1. Types
  <2>1. Absent \in Entry
    BY DEF Absent, Entry
  <2> QED  BY <2>1 DEF Types, Labels
<1>2. Placed /\ Levels
  BY DEF Placed, Levels, Present, Absent
<1>3. HeldKnown
  BY DEF HeldKnown, Present, Absent
<1>4. AccountsInv
  BY DEF AccountsInv
<1>5. CurrentInv
  BY DEF CurrentInv, Current, FillsCurrent, WarmCurrent, L1Current, L2Current, Fresh, Present, Absent,
     Writing, WriteSteps, Beyond
<1> QED  BY <1>1, <1>2, <1>3, <1>4, <1>5 DEF CacheInv

\* FirstLevel gives one of its three labels, the one of a level there is.
LEMMA FirstLevelIs ==
    ASSUME NEW first, NEW second, NEW rest
    PROVE  /\ HasL1 => FirstLevel(first, second, rest) = first
           /\ ~HasL1 /\ HasL2 => FirstLevel(first, second, rest) = second
           /\ ~HasL1 /\ ~HasL2 => FirstLevel(first, second, rest) = rest
<1>1. HasL1 \in BOOLEAN /\ HasL2 \in BOOLEAN
  BY DEF HasL1, HasL2
<1> HIDE DEF HasL1, HasL2
<1> QED  BY <1>1 DEF FirstLevel

\* A call keeps the types.
LEMMA CallTypes ==
    ASSUME Types, Placed, NEW r \in Requests, NEW label \in Labels \ {"idle"}, Call(r, label)
    PROVE  Placed' /\ row' = row /\ faults' = faults
           /\ pc' = [pc EXCEPT ![r] = label] /\ pc' \in [Requests -> Labels]
           /\ proc' \in [Requests -> Procs \cup {NoProc}]
           /\ copy' = copy /\ base' \in [Requests -> Nat]
           /\ base' = [base EXCEPT ![r] = IF label = "auth" THEN row.version ELSE 0]
<1> USE DEF Types, Call, store, Placed
<1>1. row.version \in Nat
  OBVIOUS
<1>2. pc[r] = "idle" /\ copy[r] = 0
  OBVIOUS
<1> QED  BY <1>1, <1>2

\* The next statement of a request keeps the types; one that ends has no copy.
LEMMA GotoTypes ==
    ASSUME Types, NEW r \in Requests, NEW label \in Labels, Goto(r, label)
    PROVE  /\ pc' \in [Requests -> Labels] /\ pc' = [pc EXCEPT ![r] = label]
           /\ proc' \in [Requests -> Procs \cup {NoProc}]
           /\ copy' \in [Requests -> Nat] /\ base' \in [Requests -> Nat]
           /\ \A s \in Requests \ {r} : proc'[s] = proc[s] /\ copy'[s] = copy[s] /\ base'[s] = base[s]
           /\ label # "idle" => proc' = proc /\ copy' = copy /\ base' = base
           /\ label = "idle" => copy'[r] = 0 /\ base'[r] = 0 /\ proc'[r] = NoProc
BY DEF Types, Goto

\* Steps of a request that change nothing but where it is.
Moves(r) ==
    \/ GetL1(r) \/ MissL2(r) \/ LoadFails(r) \/ ReadForWrite(r) \/ DeleteNothing(r)
    \/ Lookup(r) \/ Refuse(r) \/ Accept(r)

LEMMA MovesAre ==
    ASSUME Types, NEW r \in Requests, Moves(r)
    PROVE  \E label \in {"idle", "get2", "load", "updWrite", "delWrite", "insert"} :
             /\ Goto(r, label) /\ pc[r] \notin {"idle", "fill1", "fill2", "inv1", "inv2"}
             /\ (label = "get2" => HasL2)
             /\ (label \in {"updWrite", "delWrite"} => pc[r] \in WriteSteps)
             /\ (label \in {"get2", "load"} => pc[r] \in ReadSteps)
             /\ UNCHANGED <<driver, row, l1, l2, warm>>
             /\ faults' \in Nat /\ faults' >= faults
<1> USE DEF Types, Fault, store, WriteSteps, ReadSteps
<1>1. CASE GetL1(r)
  <2>1. CASE Present(l1[proc[r]])
    BY <1>1, <2>1 DEF GetL1
  <2>2. CASE ~Present(l1[proc[r]]) /\ HasL2
    BY <1>1, <2>2 DEF GetL1
  <2>3. CASE ~Present(l1[proc[r]]) /\ ~HasL2
    BY <1>1, <2>3 DEF GetL1
  <2> QED  BY <2>1, <2>2, <2>3
<1>2. CASE MissL2(r)
  BY <1>2 DEF MissL2
<1>3. CASE LoadFails(r)
  BY <1>3 DEF LoadFails
<1>4. CASE ReadForWrite(r)
  BY <1>4 DEF ReadForWrite
<1>5. CASE DeleteNothing(r)
  BY <1>5 DEF DeleteNothing
<1>6. CASE Lookup(r)
  BY <1>6 DEF Lookup
<1>7. CASE Refuse(r) \/ Accept(r)
  BY <1>7 DEF Refuse, Accept
<1> QED  BY <1>1, <1>2, <1>3, <1>4, <1>5, <1>6, <1>7 DEF Moves

\* Steps of a request that may write the row.
Writes(r) == UpdateRow(r) \/ DeleteRow(r) \/ WriteFails(r) \/ Insert(r) \/ InsertFails(r)

\* The row is written as it may be: made once, changed and deleted while it is live.
RowStep ==
    \/ row' = row
    \/ /\ row' \in [state : {"live", "deleted"}, version : {row.version + 1}]
       /\ row.state = "none" => row'.state = "live"
       /\ row.state # "deleted"

LEMMA WritesAre ==
    ASSUME Types, NEW r \in Requests, Writes(r)
    PROVE  \E label \in {"idle", "inv1", "inv2"} :
             /\ Goto(r, label) /\ pc[r] \in {"updWrite", "delWrite", "insert"}
             /\ label = "inv1" => HasL1
             /\ label = "inv2" => ~HasL1 /\ HasL2
             /\ faults' = faults /\ pc[r] # "insert" /\ label = "idle" => ~HasL1 /\ ~HasL2
             /\ pc[r] = "insert" /\ row' # row => row.state = "none"
             /\ RowStep
             /\ UNCHANGED <<driver, l1, l2, warm>>
             /\ faults' \in Nat /\ faults' >= faults
<1> USE DEF Types, Fault, RowStep
<1> DEFINE inv == FirstLevel("inv1", "inv2", "idle")
<1>0. /\ inv \in {"idle", "inv1", "inv2"}
      /\ inv = "inv1" => HasL1
      /\ inv = "inv2" => ~HasL1 /\ HasL2
      /\ inv = "idle" => ~HasL1 /\ ~HasL2
  BY FirstLevelIs
<1>1. CASE UpdateRow(r)
  BY <1>0, <1>1 DEF UpdateRow, Commit
<1>2. CASE DeleteRow(r)
  BY <1>0, <1>2 DEF DeleteRow, Commit
<1>3. CASE WriteFails(r)
  BY <1>3 DEF WriteFails, Commit
<1>4. CASE Insert(r)
  BY <1>4 DEF Insert, Commit
<1>5. CASE InsertFails(r)
  BY <1>5 DEF InsertFails, Commit
<1> QED  BY <1>1, <1>2, <1>3, <1>4, <1>5 DEF Writes

\* The history variables keep their types.
LEMMA HistoryTypes ==
    ASSUME Types, Next
    PROVE  staleAuth' \in BOOLEAN /\ raced' \in BOOLEAN /\ created' \in Nat
<1>1. raced' \in BOOLEAN
  BY Zenon DEF Next
<1>2. ASSUME NEW r \in Requests, Step(r)
      PROVE  staleAuth' \in BOOLEAN /\ created' \in Nat
  <2>1. CASE Accept(r)
    <3>1. staleAuth' \in BOOLEAN
      BY <2>1, Zenon DEF Accept, Grant
    <3> QED  BY <2>1, <3>1 DEF Accept, Types
  <2>2. CASE Insert(r)
    BY <2>2 DEF Insert, Types
  <2>3. CASE ~Accept(r) /\ ~Insert(r)
    BY <1>2, <2>3 DEF Step, Types, history, GetL1, GetL2, MissL2, Load, LoadFails, FillL1, FillL2,
       ReadForWrite, UpdateRow, DeleteRow, DeleteNothing, WriteFails, InvalidateL1, InvalidateL2,
       Lookup, InsertFails, Refuse
  <2> QED  BY <2>1, <2>2, <2>3
<1>3. ASSUME NEW r \in Requests, Calls(r)
      PROVE  staleAuth' \in BOOLEAN /\ created' \in Nat
  BY <1>3 DEF Calls, CallGet, CallUpdate, CallDelete, CallCreate, CallAuth, Call, history, Types
<1>4. ASSUME NEW p \in Procs, Evict(p) \/ Crash(p) \/ \E v \in warm[p] : WarmUp(p, v)
      PROVE  staleAuth' \in BOOLEAN /\ created' \in Nat
  BY <1>4 DEF Evict, Crash, WarmUp, history, Types
<1>5. ASSUME Tick
      PROVE  staleAuth' \in BOOLEAN /\ created' \in Nat
  BY <1>5 DEF Tick, history, Types
<1>6. staleAuth' \in BOOLEAN /\ created' \in Nat
  BY <1>2, <1>3, <1>4, <1>5 DEF Next, Steps
<1> QED  BY <1>1, <1>6

----------------------------------------------------------------------------
(* Every step keeps CacheInv.                                              *)

\* What was known stays so when the row is written.
LEMMA KnownKept ==
    ASSUME Types, RowStep, NEW v, KnownIn(row, v)
    PROVE  KnownIn(row', v)
BY DEF Types, RowStep, KnownIn

HistoryTyped == staleAuth' \in BOOLEAN /\ raced' \in BOOLEAN /\ created' \in Nat

LEMMA CallsKeepCache ==
    ASSUME CacheInv, HistoryTyped, NEW r \in Requests, Calls(r)
    PROVE  CacheInv'
<1> USE DEF CacheInv, HistoryTyped
<1>1. PICK label \in Labels \ {"idle", "fill1", "fill2", "inv1", "inv2"} :
        /\ Call(r, label) /\ (label = "get1" => HasL1) /\ (label = "get2" => HasL2)
  <2>1. CASE CallGet(r)
    BY <2>1, FirstLevelIs DEF CallGet, Labels, ReadSteps, WriteSteps, OtherSteps
  <2>2. CASE CallUpdate(r) \/ CallDelete(r) \/ CallCreate(r) \/ CallAuth(r)
    BY <2>2 DEF CallUpdate, CallDelete, CallCreate, CallAuth, Labels, WriteSteps, OtherSteps
  <2> QED  BY <2>1, <2>2 DEF Calls
<1>2. UNCHANGED <<driver, row, l1, l2, warm, copy, faults>>
  BY <1>1 DEF Call, store
<1>3. Types' /\ Placed'
  BY <1>1, <1>2, CallTypes DEF Types
<1>4. pc' = [pc EXCEPT ![r] = label]
  BY <1>1 DEF Call
<1>5. Levels'
  BY <1>1, <1>2, <1>4 DEF Levels, HasL1, HasL2, Types
<1>6. HeldKnown'
  BY <1>2, <1>4 DEF HeldKnown, Known, Types
<1> QED  BY <1>3, <1>5, <1>6

LEMMA MovesKeepCache ==
    ASSUME CacheInv, HistoryTyped, NEW r \in Requests, Moves(r)
    PROVE  CacheInv'
<1> USE DEF CacheInv, HistoryTyped
<1>1. PICK label \in {"idle", "get2", "load", "updWrite", "delWrite", "insert"} :
        /\ Goto(r, label) /\ pc[r] \notin {"idle", "fill1", "fill2"}
        /\ (label = "get2" => HasL2)
        /\ UNCHANGED <<driver, row, l1, l2, warm>> /\ faults' \in Nat
  BY MovesAre
<1>2. label \in Labels
  BY DEF Labels, ReadSteps, WriteSteps, OtherSteps
<1>3. Types'
  BY <1>1, <1>2, GotoTypes DEF Types
<1>4. Placed'
  BY <1>1, <1>2, GotoTypes DEF Placed, Types
<1>5. Levels'
  BY <1>1, <1>2, GotoTypes DEF Levels, HasL1, HasL2, Types
<1>6. HeldKnown'
  BY <1>1, <1>2, GotoTypes DEF HeldKnown, Known, Types
<1> QED  BY <1>3, <1>4, <1>5, <1>6

LEMMA WritesKeepCache ==
    ASSUME CacheInv, HistoryTyped, NEW r \in Requests, Writes(r)
    PROVE  CacheInv'
<1> USE DEF CacheInv, HistoryTyped
<1>1. PICK label \in {"idle", "inv1", "inv2"} :
        /\ Goto(r, label) /\ pc[r] \notin {"idle", "fill1", "fill2"}
        /\ (label = "inv1" => HasL1) /\ (label = "inv2" => HasL2) /\ RowStep
        /\ UNCHANGED <<driver, l1, l2, warm>> /\ faults' \in Nat
  BY WritesAre
<1>2. label \in Labels
  BY DEF Labels, WriteSteps
<1>3. Types'
  BY <1>1, <1>2, GotoTypes DEF Types, RowStep
<1>4. Placed'
  BY <1>1, <1>2, GotoTypes DEF Placed, Types
<1>5. Levels'
  BY <1>1, <1>2, GotoTypes DEF Levels, HasL1, HasL2, Types
<1>6. HeldKnown'
  <2>1. row'.state # "none" => row'.version > 0
    BY <1>1 DEF RowStep, Types, HeldKnown
  <2>2. \A s \in Requests : pc'[s] \in {"fill1", "fill2"} => KnownIn(row', copy'[s])
    BY <1>1, <1>2, GotoTypes, KnownKept DEF HeldKnown, Known, Types
  <2>3. \A p \in Procs : /\ Present(l1'[p]) => KnownIn(row', l1'[p].version)
                         /\ \A v \in warm'[p] : KnownIn(row', v)
    BY <1>1, KnownKept DEF HeldKnown, Known
  <2>4. Present(l2') => KnownIn(row', l2'.version)
    BY <1>1, KnownKept DEF HeldKnown, Known
  <2> QED  BY <2>1, <2>2, <2>3, <2>4 DEF HeldKnown, Known, Present
<1> QED  BY <1>3, <1>4, <1>5, <1>6

\* A hit in Redis, and a read of the row, which leave the cache alone.
LEMMA ReadsKeepCache ==
    ASSUME CacheInv, HistoryTyped, NEW r \in Requests, GetL2(r) \/ Load(r)
    PROVE  CacheInv'
<1> USE DEF CacheInv, HistoryTyped
<1>1. "idle" \in Labels /\ "fill1" \in Labels /\ "fill2" \in Labels
  BY DEF Labels, ReadSteps
<1>2. CASE GetL2(r)
  <2>1. /\ UNCHANGED <<driver, row, l1, l2, faults>> /\ Goto(r, "idle") /\ proc[r] \in Procs
        /\ Present(l2) /\ pc[r] = "get2"
        /\ warm' = IF HasL1 THEN [warm EXCEPT ![proc[r]] = @ \cup {l2.version}] ELSE warm
    BY <1>2 DEF GetL2, Placed
  <2>2. l2.version \in Nat
    BY DEF Types, Entry
  <2>3. Types' /\ Placed'
    BY <1>1, <2>1, <2>2, GotoTypes DEF Types, Placed
  <2>4. Levels'
    BY <1>1, <2>1, GotoTypes DEF Levels, HasL1, HasL2, Types
  <2>5. HeldKnown'
    BY <1>1, <2>1, GotoTypes DEF HeldKnown, Known, Types
  <2> QED  BY <2>3, <2>4, <2>5
<1>3. CASE Load(r)
  <2>1. /\ UNCHANGED <<driver, row, l1, l2, warm, faults>>
        /\ pc[r] = "load" /\ row.state = "live" /\ proc[r] \in Procs
        /\ row.version \in Nat /\ row.version > 0
    BY <1>3 DEF Load, store, Placed, HeldKnown, Types
  <2>2. CASE driver = "nop"
    <3>1. Goto(r, "idle")
      BY <1>3, <2>2 DEF Load
    <3>2. Types' /\ Placed'
      BY <1>1, <2>1, <3>1, GotoTypes DEF Types, Placed
    <3>3. Levels' /\ HeldKnown'
      BY <1>1, <2>1, <3>1, GotoTypes DEF Levels, HasL1, HasL2, HeldKnown, Known, Types
    <3> QED  BY <3>2, <3>3
  <2>3. CASE driver # "nop"
    <3>1. HasL1 \/ HasL2
      BY <2>3 DEF HasL1, HasL2, Types
    <3>2. PICK label \in {"fill1", "fill2"} :
            /\ pc' = [pc EXCEPT ![r] = label]
            /\ (label = "fill1" => HasL1) /\ (label = "fill2" => HasL2)
      BY <1>3, <2>3, <3>1, FirstLevelIs DEF Load
    <3>3. copy' = [copy EXCEPT ![r] = row.version] /\ UNCHANGED <<proc, base>>
      BY <1>3, <2>3 DEF Load
    <3>4. Types' /\ Placed'
      BY <1>1, <2>1, <3>2, <3>3 DEF Types, Placed
    <3>5. Levels'
      BY <2>1, <3>2 DEF Levels, HasL1, HasL2, Types
    <3>6. HeldKnown'
      BY <2>1, <3>2, <3>3 DEF HeldKnown, Known, KnownIn, Types
    <3> QED  BY <3>4, <3>5, <3>6
  <2> QED  BY <2>2, <2>3
<1> QED  BY <1>2, <1>3

\* The steps that write the cache.
LEMMA FillsKeepCache ==
    ASSUME CacheInv, HistoryTyped, NEW r \in Requests,
           FillL1(r) \/ FillL2(r) \/ InvalidateL1(r) \/ InvalidateL2(r)
    PROVE  CacheInv'
<1> USE UserAssumption DEF CacheInv, HistoryTyped
<1>1. "idle" \in Labels /\ "fill2" \in Labels /\ "inv2" \in Labels
  BY DEF Labels, ReadSteps, WriteSteps
<1>2. Absent \in Entry /\ CachedFrom(r) \in Entry /\ CachedFrom(r).version = copy[r]
      /\ ~Present(Absent)
  BY DEF Absent, CachedFrom, Entry, Types, Present
<1>3. pc[r] # "idle" => proc[r] \in Procs
  BY DEF Placed
<1>4. CASE FillL1(r) \/ InvalidateL1(r)
  <2>1. PICK label \in {"idle", "fill2", "inv2"}, e \in {Absent, CachedFrom(r)} :
          /\ Goto(r, label) /\ pc[r] \in {"fill1", "inv1"} /\ l1' = [l1 EXCEPT ![proc[r]] = e]
          /\ (label # "idle" => HasL2) /\ (label = "fill2" => pc[r] = "fill1")
          /\ (label = "inv2" => pc[r] = "inv1")
          /\ (e # Absent => pc[r] = "fill1")
          /\ UNCHANGED <<driver, row, l2, warm, faults>>
    BY <1>4 DEF FillL1, InvalidateL1
  <2>2. label \in Labels
    BY <1>1
  <2>3. Types'
    BY <1>2, <1>3, <2>1, <2>2, GotoTypes DEF Types
  <2>4. Placed'
    BY <2>1, <2>2, GotoTypes DEF Types, Placed
  <2>5. HasL1 /\ UNCHANGED <<HasL1, HasL2>>
    BY <2>1 DEF Levels, HasL1, HasL2
  <2>6. Levels'
    BY <2>1, <2>2, <2>5, GotoTypes DEF Levels, Types
  <2>7. \A s \in Requests : pc'[s] \in {"fill1", "fill2"} => KnownIn(row, copy'[s])
    BY <2>1, <2>2, GotoTypes DEF HeldKnown, Known, Types
  <2>8. \A p \in Procs : Present(l1'[p]) => KnownIn(row, l1'[p].version)
    BY <1>2, <1>3, <2>1 DEF HeldKnown, Known, Types
  <2>9. HeldKnown'
    BY <2>1, <2>7, <2>8 DEF HeldKnown, Known
  <2> QED  BY <2>3, <2>4, <2>6, <2>9
<1>5. CASE FillL2(r) \/ InvalidateL2(r)
  <2>1. PICK e \in {l2, Absent, CachedFrom(r)} :
          /\ Goto(r, "idle") /\ pc[r] \in {"fill2", "inv2"} /\ l2' = e
          /\ (e \notin {l2, Absent} => pc[r] = "fill2")
          /\ UNCHANGED <<driver, row, l1, warm>> /\ faults' \in Nat
    BY <1>5 DEF FillL2, InvalidateL2, Fault, Types
  <2>2. Types' /\ Placed'
    BY <1>1, <1>2, <2>1, GotoTypes DEF Types, Placed
  <2>3. HasL2 /\ UNCHANGED <<HasL1, HasL2>>
    BY <2>1 DEF Levels, HasL1, HasL2
  <2>4. Levels'
    BY <1>1, <2>1, <2>3, GotoTypes DEF Levels, Types
  <2>5. HeldKnown'
    BY <1>1, <1>2, <2>1, GotoTypes DEF HeldKnown, Known, Types
  <2> QED  BY <2>2, <2>4, <2>5
<1> QED  BY <1>4, <1>5

\* Time, evictions, warm-ups and deaths.
LEMMA OlderIs ==
    ASSUME NEW e \in Entry
    PROVE  /\ Older(e) \in Entry
           /\ Present(Older(e)) => Present(e) /\ Older(e).version = e.version /\ Older(e).ttl + 1 = e.ttl
BY UserAssumption DEF Older, Entry, Absent, Present

LEMMA WorldKeepsCache ==
    ASSUME CacheInv, HistoryTyped,
           Tick \/ \E p \in Procs : Evict(p) \/ Crash(p) \/ \E v \in warm[p] : WarmUp(p, v)
    PROVE  CacheInv'
<1> USE UserAssumption DEF CacheInv, HistoryTyped
<1>1. Absent \in Entry /\ ~Present(Absent)
  BY DEF Absent, Entry, Present
<1>2. CASE Tick
  <2>1. /\ UNCHANGED <<driver, row, warm, pc, proc, copy, base, faults>>
        /\ l1' = [p \in Procs |-> Older(l1[p])] /\ l2' = Older(l2)
    BY <1>2 DEF Tick, local
  <2>2. Types' /\ Placed'
    BY <2>1, OlderIs DEF Types, Placed
  <2>3. Levels'
    BY <2>1, OlderIs DEF Levels, Types, HasL1, HasL2
  <2>4. HeldKnown'
    BY <2>1, OlderIs DEF HeldKnown, Known, Types
  <2> QED  BY <2>2, <2>3, <2>4
<1>3. ASSUME NEW p \in Procs, Evict(p) PROVE CacheInv'
  <2>1. /\ UNCHANGED <<driver, row, l2, warm, pc, proc, copy, base, faults>>
        /\ l1' = [l1 EXCEPT ![p] = Absent]
    BY <1>3 DEF Evict, local
  <2>2. Types' /\ Placed'
    BY <1>1, <2>1 DEF Types, Placed
  <2>3. Levels' /\ HeldKnown'
    BY <1>1, <2>1 DEF Levels, HasL1, HasL2, HeldKnown, Known, Types
  <2> QED  BY <2>2, <2>3
<1>4. ASSUME NEW p \in Procs, Crash(p) PROVE CacheInv'
  <2>1. /\ l1' = [l1 EXCEPT ![p] = Absent] /\ warm' = [warm EXCEPT ![p] = {}]
        /\ UNCHANGED <<driver, row, l2>> /\ faults' \in Nat
    BY <1>4 DEF Crash, Fault, Types
  <2>2. /\ pc' = [r \in Requests |-> IF proc[r] = p THEN "idle" ELSE pc[r]]
        /\ copy' = [r \in Requests |-> IF proc[r] = p THEN 0 ELSE copy[r]]
        /\ proc' = [r \in Requests |-> IF proc[r] = p THEN NoProc ELSE proc[r]]
        /\ base' = [r \in Requests |-> IF proc[r] = p THEN 0 ELSE base[r]]
    BY <1>4 DEF Crash
  <2>3. Types'
    BY <1>1, <2>1, <2>2 DEF Types, Labels
  <2>4. Placed'
    BY <2>2 DEF Placed
  <2>5. Levels' /\ HeldKnown'
    BY <1>1, <2>1, <2>2 DEF Levels, HasL1, HasL2, HeldKnown, Known, Types
  <2> QED  BY <2>3, <2>4, <2>5
<1>5. ASSUME NEW p \in Procs, NEW v \in warm[p], WarmUp(p, v) PROVE CacheInv'
  <2>1. /\ l1' = [l1 EXCEPT ![p] = [version |-> v, ttl |-> WarmTTL]]
        /\ warm' = [warm EXCEPT ![p] = @ \ {v}]
        /\ UNCHANGED <<driver, row, l2, pc, proc, copy, base, faults>>
    BY <1>5 DEF WarmUp, local
  <2>2. v \in Nat /\ [version |-> v, ttl |-> WarmTTL] \in Entry
    BY DEF Types, Entry
  <2>3. Types' /\ Placed'
    BY <2>1, <2>2 DEF Types, Placed
  <2>4. Levels'
    BY <2>1 DEF Levels, HasL1, HasL2, Types
  <2>5. HeldKnown'
    BY <2>1 DEF HeldKnown, Known, Types
  <2> QED  BY <2>3, <2>4, <2>5
<1> QED  BY <1>2, <1>3, <1>4, <1>5

LEMMA CacheInvStep == CacheInv /\ [Next]_vars => CacheInv'
<1>1. ASSUME CacheInv, Next PROVE CacheInv'
  <2>1. HistoryTyped
    BY <1>1, HistoryTypes DEF CacheInv, HistoryTyped
  <2>2. ASSUME NEW r \in Requests, Step(r) PROVE CacheInv'
    BY <1>1, <2>1, <2>2, MovesKeepCache, WritesKeepCache, ReadsKeepCache, FillsKeepCache
       DEF Step, Moves, Writes
  <2> QED  BY <1>1, <2>1, <2>2, CallsKeepCache, WorldKeepsCache DEF Next, Steps
<1>2. CacheInv /\ UNCHANGED vars => CacheInv'
  BY DEF vars, store, local, history, CacheInv, Types, Placed, Levels, HasL1, HasL2, HeldKnown, Known
<1> QED  BY <1>1, <1>2

\* The invariant that the other proofs rest on.
THEOREM CacheInvariant == Spec => []CacheInv
BY InitInv, CacheInvStep, PTL DEF Spec

----------------------------------------------------------------------------
(* The row, logins and creations.                                          *)

\* Whatever happens, the row is written as it may be.
LEMMA RowSteps == Types /\ [Next]_vars => RowStep
<1> SUFFICES ASSUME Types, [Next]_vars PROVE RowStep
  OBVIOUS
<1>1. ASSUME NEW r \in Requests, Step(r) PROVE RowStep
  <2>1. CASE Writes(r)
    BY <2>1, WritesAre
  <2>2. CASE Moves(r)
    BY <2>2, MovesAre DEF RowStep
  <2>3. CASE ~Writes(r) /\ ~Moves(r)
    BY <1>1, <2>3 DEF Step, Writes, Moves, RowStep, store, GetL2, Load, FillL1, FillL2, InvalidateL1, InvalidateL2
  <2> QED  BY <2>1, <2>2, <2>3
<1>2. ASSUME NEW r \in Requests, Calls(r) PROVE RowStep
  BY <1>2 DEF Calls, CallGet, CallUpdate, CallDelete, CallCreate, CallAuth, Call, store, RowStep
<1>3. ASSUME NEW p \in Procs, Evict(p) \/ Crash(p) \/ \E v \in warm[p] : WarmUp(p, v)
      PROVE  RowStep
  BY <1>3 DEF Evict, Crash, WarmUp, RowStep
<1>4. CASE Tick \/ UNCHANGED vars
  BY <1>4 DEF Tick, vars, store, RowStep
<1> QED  BY <1>1, <1>2, <1>3, <1>4 DEF Next, Steps

\* A deleted user stays deleted, whatever an update that read the row before
\* writes (repository/user.go 87-93).
THEOREM DeletedForGood == Spec => NoResurrection
<1>1. CacheInv /\ [Next]_vars => [row.state = "deleted" => row'.state = "deleted"]_row
  BY RowSteps DEF CacheInv, RowStep
<1> QED  BY <1>1, CacheInvariant, PTL DEF Spec, NoResurrection

LEMMA AccountsInvStep == CacheInv /\ AccountsInv /\ [Next]_vars => AccountsInv'
<1> SUFFICES ASSUME CacheInv, AccountsInv, [Next]_vars PROVE AccountsInv'
  OBVIOUS
<1>1. RowStep /\ row.version \in Nat /\ row'.version \in Nat /\ row'.version >= row.version
      /\ (row.state # "none" => row'.state # "none")
  BY RowSteps DEF CacheInv, Types, RowStep
<1>2. \A r \in Requests : base[r] \in Nat /\ base[r] <= row.version
  BY DEF CacheInv, Types, AccountsInv
<1> DEFINE BaseKept == \A r \in Requests : base'[r] \in {0, base[r], row.version}
           Granted == ~staleAuth' /\ created' = created
<1>3. ASSUME NEW r \in Requests, NEW label \in Labels, Goto(r, label) PROVE BaseKept
  BY <1>3, GotoTypes DEF CacheInv
<1>4. "idle" \in Labels /\ ReadSteps \subseteq Labels /\ WriteSteps \subseteq Labels /\ OtherSteps \subseteq Labels
  BY DEF Labels
<1>5. ASSUME NEW r \in Requests, Step(r) PROVE BaseKept
  <2>1. CASE Moves(r)
    BY <1>3, <1>4, <2>1, MovesAre DEF CacheInv, ReadSteps, WriteSteps, OtherSteps
  <2>2. CASE Writes(r)
    BY <1>3, <1>4, <2>2, WritesAre DEF CacheInv, WriteSteps
  <2>3. CASE Load(r)
    BY <1>3, <1>4, <2>3 DEF Load
  <2>4. CASE GetL2(r) \/ FillL2(r) \/ InvalidateL2(r)
    BY <1>3, <1>4, <2>4 DEF GetL2, FillL2, InvalidateL2
  <2>5. CASE FillL1(r) \/ InvalidateL1(r)
    BY <1>3, <1>4, <2>5 DEF FillL1, InvalidateL1, ReadSteps, WriteSteps
  <2> QED  BY <1>5, <2>1, <2>2, <2>3, <2>4, <2>5 DEF Step, Moves, Writes
<1>6. ASSUME NEW r \in Requests, Calls(r) PROVE BaseKept /\ Granted
  BY <1>6 DEF Calls, CallGet, CallUpdate, CallDelete, CallCreate, CallAuth, Call, history,
     AccountsInv, CacheInv, Types
<1>7. ASSUME NEW p \in Procs, Evict(p) \/ Crash(p) \/ \E v \in warm[p] : WarmUp(p, v)
      PROVE  BaseKept /\ Granted
  BY <1>7 DEF Evict, Crash, WarmUp, local, history, AccountsInv
<1>8. CASE Tick \/ UNCHANGED vars
  <2>1. BaseKept /\ Granted
    BY <1>8 DEF Tick, vars, local, history, AccountsInv
  <2> QED  BY <1>1, <1>2, <2>1 DEF AccountsInv
<1>9. ASSUME BaseKept PROVE \A r \in Requests : base'[r] <= row'.version
  BY <1>1, <1>2, <1>9
<1>10. ASSUME NEW r \in Requests, Step(r) PROVE AccountsInv'
  <2>1. CASE Insert(r)
    <3>1. row.state = "none" /\ row'.state = "live" /\ created' = created + 1 /\ ~staleAuth'
      BY <2>1 DEF Insert, Commit, AccountsInv
    <3>2. created = 0
      BY <3>1 DEF AccountsInv, CacheInv, Types
    <3> QED  BY <1>5, <1>9, <1>10, <3>1, <3>2 DEF AccountsInv
  <2>2. CASE Accept(r)
    <3>1. ~(row.version < base[r])
      BY <1>1, <1>2
    <3>2. Granted
      BY <2>2, <3>1 DEF Accept, Grant, AccountsInv
    <3> QED  BY <1>1, <1>5, <1>9, <1>10, <3>2 DEF AccountsInv
  <2>3. CASE ~Insert(r) /\ ~Accept(r)
    <3>1. Granted
      BY <1>10, <2>3 DEF Step, AccountsInv, history, GetL1, GetL2, MissL2, Load, LoadFails, FillL1,
         FillL2, ReadForWrite, UpdateRow, DeleteRow, DeleteNothing, WriteFails, InvalidateL1,
         InvalidateL2, Lookup, InsertFails, Refuse
    <3> QED  BY <1>1, <1>5, <1>9, <1>10, <3>1 DEF AccountsInv
  <2> QED  BY <2>1, <2>2, <2>3
<1>11. ASSUME BaseKept, Granted PROVE AccountsInv'
  BY <1>1, <1>9, <1>11 DEF AccountsInv
<1> QED  BY <1>6, <1>7, <1>8, <1>10, <1>11 DEF Next, Steps

\* Logins are judged by a version no older than the call, and of all the creations
\* of an account one succeeds at most (user.go 46-72, 104-121).
THEOREM AccountsAreSound == Spec => []AccountsSound
<1>1. AccountsInv => AccountsSound
  BY DEF AccountsInv, AccountsSound, AuthFresh, CreatedOnce
<1> QED  BY <1>1, InitInv, AccountsInvStep, CacheInvariant, PTL DEF Spec

----------------------------------------------------------------------------
(* Coherence when there is no race and no failure.                         *)

\* A current version is one of a live row.
LEMMA CurrentIsLive ==
    ASSUME HeldKnown, Current
    PROVE  /\ \A r \in Requests : pc[r] \in {"fill1", "fill2"} => row.state = "live"
           /\ \A p \in Procs : warm[p] # {} => row.state = "live"
BY DEF HeldKnown, Known, KnownIn, Current, FillsCurrent, WarmCurrent

LEMMA CallsKeepCurrent ==
    ASSUME CacheInv, Current, NEW r \in Requests, Calls(r) \/ Moves(r)
    PROVE  Current'
<1> USE DEF CacheInv
<1>1. /\ UNCHANGED <<row, l1, l2, warm>> /\ pc[r] \notin {"inv1", "inv2"}
      /\ \A s \in Requests \ {r} : pc'[s] = pc[s] /\ proc'[s] = proc[s] /\ copy'[s] = copy[s]
      /\ pc'[r] \notin {"fill1", "fill2"}
  <2>1. CASE Calls(r)
    <3>1. PICK label \in Labels \ {"idle", "fill1", "fill2"} : Call(r, label)
      <4>1. CASE CallGet(r)
        BY <4>1, FirstLevelIs DEF CallGet, Labels, ReadSteps
      <4>2. CASE ~CallGet(r)
        BY <2>1, <4>2 DEF Calls, CallUpdate, CallDelete, CallCreate, CallAuth, Labels, WriteSteps, OtherSteps
      <4> QED  BY <4>1, <4>2
    <3> QED  BY <3>1 DEF Call, store, Types
  <2>2. CASE Moves(r)
    <3>1. PICK label \in {"idle", "get2", "load", "updWrite", "delWrite", "insert"} :
            /\ Goto(r, label) /\ pc[r] \notin {"inv1", "inv2"}
            /\ UNCHANGED <<row, l1, l2, warm>>
      BY <2>2, MovesAre
    <3>2. label \in Labels
      BY DEF Labels, ReadSteps, WriteSteps, OtherSteps
    <3> QED  BY <3>1, <3>2, GotoTypes DEF Types
  <2> QED  BY <2>1, <2>2
<1>2. FillsCurrent' /\ WarmCurrent'
  BY <1>1 DEF Current, FillsCurrent, WarmCurrent
<1>3. L2Current'
  BY <1>1 DEF Current, L2Current, Fresh, Present
<1>4. L1Current'
  BY <1>1 DEF Current, L1Current, Fresh, Present
<1> QED  BY <1>2, <1>3, <1>4 DEF Current

LEMMA WritesKeepCurrent ==
    ASSUME CacheInv, Current, ~(Writing /\ Reading), ~Beyond, faults' = faults,
           NEW r \in Requests, Writes(r)
    PROVE  Current'
<1> USE DEF CacheInv
<1>1. PICK label \in {"idle", "inv1", "inv2"} :
             /\ Goto(r, label) /\ pc[r] \in {"updWrite", "delWrite", "insert"}
             /\ label = "inv1" => HasL1
             /\ label = "inv2" => ~HasL1 /\ HasL2
             /\ pc[r] # "insert" /\ label = "idle" => ~HasL1 /\ ~HasL2
             /\ pc[r] = "insert" /\ row' # row => row.state = "none"
             /\ UNCHANGED <<driver, l1, l2, warm>>
  BY WritesAre
<1>2. label \in Labels
  BY DEF Labels, WriteSteps
<1>3. /\ \A s \in Requests \ {r} : pc'[s] = pc[s] /\ proc'[s] = proc[s] /\ copy'[s] = copy[s]
      /\ pc'[r] = label /\ (label # "idle" => proc'[r] = proc[r]) /\ proc[r] \in Procs
  BY <1>1, <1>2, GotoTypes DEF Types, Placed
<1>4. CASE row' = row
  <2>1. FillsCurrent' /\ WarmCurrent'
    BY <1>1, <1>3, <1>4 DEF Current, FillsCurrent, WarmCurrent
  <2>2. L2Current'
    BY <1>1, <1>3, <1>4 DEF Current, L2Current, Fresh, Present
  <2>3. L1Current'
    BY <1>1, <1>3, <1>4 DEF Current, L1Current, Fresh, Present
  <2> QED  BY <2>1, <2>2, <2>3 DEF Current
<1>5. CASE row.state = "none"
  <2>1. \A p \in Procs : warm[p] = {}
    BY <1>5, CurrentIsLive
  <2>2. \A s \in Requests : pc[s] \notin {"fill1", "fill2"}
    BY <1>5, CurrentIsLive
  <2>3. FillsCurrent' /\ WarmCurrent'
    BY <1>1, <1>3, <2>1, <2>2 DEF FillsCurrent, WarmCurrent
  <2>4. L2Current'
    BY <1>1, <1>3, <1>5 DEF Current, L2Current, Fresh, Present
  <2>5. L1Current'
    BY <1>1, <1>3, <1>5 DEF Current, L1Current, Fresh, Present
  <2> QED  BY <2>3, <2>4, <2>5 DEF Current
<1>6. CASE pc[r] # "insert"
  <2>1. Writing
    BY <1>1, <1>6 DEF Writing, WriteSteps
  <2>2. \A s \in Requests : pc[s] \notin {"fill1", "fill2"}
    BY <2>1 DEF Reading, ReadSteps
  <2>3. \A p \in Procs : warm[p] = {}
    BY <2>1 DEF Reading
  <2>4. FillsCurrent' /\ WarmCurrent'
    BY <1>1, <1>3, <2>2, <2>3 DEF FillsCurrent, WarmCurrent
  <2>5. \A p \in Procs \ {proc[r]} : ~Present(l1[p])
    BY <1>1, <1>6 DEF Beyond, WriteSteps
  <2>6. label # "inv1" => ~Present(l1[proc[r]])
    BY <1>1, <1>3, <1>6 DEF Levels
  <2>7. L1Current'
    BY <1>1, <1>3, <2>5, <2>6 DEF L1Current, Fresh, Present
  <2>8. label = "idle" => ~Present(l2)
    BY <1>1, <1>6 DEF Levels
  <2>9. L2Current'
    BY <1>1, <1>3, <2>8 DEF L2Current, Fresh, Present
  <2> QED  BY <2>4, <2>7, <2>9 DEF Current
<1> QED  BY <1>1, <1>4, <1>5, <1>6

\* Reads and fills meet no writer, so that every entry is fresh.
LEMMA ReadsKeepCurrent ==
    ASSUME CacheInv, Current, ~(Writing /\ Reading), faults' = faults, NEW r \in Requests,
           GetL2(r) \/ Load(r) \/ FillL1(r) \/ FillL2(r)
    PROVE  Current'
<1> USE DEF CacheInv
<1>1. pc[r] \in ReadSteps /\ proc[r] \in Procs
  BY DEF GetL2, Load, FillL1, FillL2, ReadSteps, Placed
<1>2. \A s \in Requests : pc[s] \notin {"inv1", "inv2"}
  BY <1>1 DEF Reading, Writing, WriteSteps
<1>3. Fresh(l2) /\ \A p \in Procs : Fresh(l1[p])
  BY <1>2 DEF Current, L1Current, L2Current
<1>4. "idle" \in Labels /\ "fill1" \in Labels /\ "fill2" \in Labels
  BY DEF Labels, ReadSteps
<1>5. row' = row
  BY DEF GetL2, Load, FillL1, FillL2, store
<1>6. CASE GetL2(r)
  <2>1. /\ UNCHANGED <<l1, l2>> /\ Goto(r, "idle") /\ l2.version = row.version
        /\ warm' = IF HasL1 THEN [warm EXCEPT ![proc[r]] = @ \cup {l2.version}] ELSE warm
    BY <1>3, <1>6 DEF GetL2, Fresh
  <2>2. FillsCurrent'
    BY <1>4, <1>5, <2>1, GotoTypes DEF Current, FillsCurrent, Types
  <2>3. WarmCurrent'
    BY <1>1, <1>5, <2>1 DEF Current, WarmCurrent, Types
  <2>4. L1Current' /\ L2Current'
    BY <1>3, <1>5, <2>1 DEF L1Current, L2Current, Fresh, Present
  <2> QED  BY <2>2, <2>3, <2>4 DEF Current
<1>7. CASE Load(r)
  <2>1. UNCHANGED <<l1, l2, warm>>
    BY <1>7 DEF Load, store
  <2>2. FillsCurrent'
    <3>1. CASE driver = "nop"
      <4>1. Goto(r, "idle")
        BY <1>7, <3>1 DEF Load
      <4> QED  BY <1>4, <1>5, <4>1, GotoTypes DEF Current, FillsCurrent, Types
    <3>2. CASE driver # "nop"
      <4>1. /\ copy' = [copy EXCEPT ![r] = row.version]
            /\ \A s \in Requests \ {r} : pc'[s] = pc[s]
        BY <1>7, <3>2 DEF Load, Types
      <4> QED  BY <1>5, <4>1 DEF Current, FillsCurrent, Types
    <3> QED  BY <3>1, <3>2
  <2>3. WarmCurrent' /\ L1Current' /\ L2Current'
    BY <1>3, <1>5, <2>1 DEF Current, WarmCurrent, L1Current, L2Current, Fresh, Present
  <2> QED  BY <2>2, <2>3 DEF Current
<1>8. CASE FillL1(r) \/ FillL2(r)
  <2>1. copy[r] = row.version /\ row.state = "live"
    BY <1>8, CurrentIsLive DEF FillL1, FillL2, Current, FillsCurrent
  <2>2. CachedFrom(r).version = row.version
    BY <2>1 DEF CachedFrom
  <2>3. PICK label \in {"idle", "fill2"} : Goto(r, label)
    BY <1>8 DEF FillL1, FillL2
  <2>4. warm' = warm
    BY <1>8 DEF FillL1, FillL2
  <2>5. FillsCurrent' /\ WarmCurrent'
    BY <1>4, <1>5, <2>1, <2>3, <2>4, GotoTypes DEF Current, FillsCurrent, WarmCurrent, Types
  <2>6. \A p \in Procs : l1'[p] \in {l1[p], CachedFrom(r)}
    BY <1>1, <1>8 DEF FillL1, FillL2, Types
  <2>7. l2' \in {l2, CachedFrom(r)}
    BY <1>8 DEF FillL1, FillL2
  <2>8. L1Current' /\ L2Current'
    BY <1>3, <1>5, <2>1, <2>2, <2>6, <2>7 DEF L1Current, L2Current, Fresh, Present
  <2> QED  BY <2>5, <2>8 DEF Current
<1> QED  BY <1>6, <1>7, <1>8

\* A writer removes what its write made outdated.
LEMMA InvalidatesKeepCurrent ==
    ASSUME CacheInv, Current, faults' = faults, NEW r \in Requests,
           InvalidateL1(r) \/ InvalidateL2(r)
    PROVE  Current'
<1> USE DEF CacheInv
<1>1. /\ proc[r] \in Procs /\ UNCHANGED <<driver, row, warm>>
      /\ pc[r] \in {"inv1", "inv2"} /\ ~Present(Absent)
  BY DEF InvalidateL1, InvalidateL2, Placed, Absent, Present
<1>2. "idle" \in Labels /\ "inv2" \in Labels
  BY DEF Labels, WriteSteps
<1>3. PICK label \in {"idle", "inv2"} : Goto(r, label) /\ (InvalidateL1(r) /\ HasL2 => label = "inv2")
  BY DEF InvalidateL1, InvalidateL2
<1>4. /\ \A s \in Requests \ {r} : pc'[s] = pc[s] /\ proc'[s] = proc[s] /\ copy'[s] = copy[s]
      /\ pc'[r] = label
  BY <1>2, <1>3, GotoTypes DEF Types
<1>5. FillsCurrent' /\ WarmCurrent'
  BY <1>1, <1>3, <1>4 DEF Current, FillsCurrent, WarmCurrent
<1>6. CASE InvalidateL1(r)
  <2>1. l1' = [l1 EXCEPT ![proc[r]] = Absent] /\ l2' = l2
    BY <1>6 DEF InvalidateL1
  <2>2. L1Current'
    BY <1>1, <1>4, <2>1 DEF Current, L1Current, Fresh, Present, Types
  <2>3. L2Current'
    <3>1. CASE HasL2
      BY <1>3, <1>4, <1>6, <3>1 DEF L2Current
    <3>2. CASE ~HasL2
      BY <2>1, <3>2 DEF Levels, L2Current, Fresh, Present
    <3> QED  BY <3>1, <3>2
  <2> QED  BY <1>5, <2>2, <2>3 DEF Current
<1>7. CASE InvalidateL2(r)
  <2>1. l1' = l1 /\ l2' = Absent /\ pc[r] = "inv2"
    BY <1>7 DEF InvalidateL2, Fault, Types
  <2>2. L1Current'
    BY <1>1, <1>4, <2>1 DEF Current, L1Current, Fresh, Present
  <2>3. L2Current'
    BY <1>1, <2>1 DEF L2Current, Fresh, Present
  <2> QED  BY <1>5, <2>2, <2>3 DEF Current
<1> QED  BY <1>6, <1>7

LEMMA WorldKeepsCurrent ==
    ASSUME CacheInv, Current, faults' = faults,
           Tick \/ \E p \in Procs : Evict(p) \/ Crash(p) \/ \E v \in warm[p] : WarmUp(p, v)
    PROVE  Current'
<1> USE DEF CacheInv
<1>1. \A p \in Procs : ~Crash(p)
  BY DEF Crash, Fault, Types
<1>2. UNCHANGED <<row, pc, proc, copy>>
  BY <1>1 DEF Tick, Evict, WarmUp, local
<1>3. FillsCurrent'
  BY <1>2 DEF Current, FillsCurrent
<1>4. ASSUME Tick PROVE Current'
  <2>1. warm' = warm /\ l1' = [p \in Procs |-> Older(l1[p])] /\ l2' = Older(l2)
    BY <1>4 DEF Tick
  <2>2. L1Current'
    BY <1>2, <2>1, OlderIs DEF Current, L1Current, Fresh, Types
  <2>3. L2Current'
    BY <1>2, <2>1, OlderIs DEF Current, L2Current, Fresh, Types
  <2>4. WarmCurrent'
    BY <1>2, <2>1 DEF Current, WarmCurrent
  <2> QED  BY <1>3, <2>2, <2>3, <2>4 DEF Current
<1>5. ASSUME NEW p \in Procs, Evict(p) PROVE Current'
  <2>1. warm' = warm /\ l2' = l2 /\ l1' = [l1 EXCEPT ![p] = Absent] /\ ~Present(Absent)
    BY <1>5 DEF Evict, Present, Absent
  <2>2. L1Current'
    BY <1>2, <2>1 DEF Current, L1Current, Fresh, Present, Types
  <2>3. L2Current' /\ WarmCurrent'
    BY <1>2, <2>1 DEF Current, L2Current, Fresh, Present, WarmCurrent
  <2> QED  BY <1>3, <2>2, <2>3 DEF Current
<1>6. ASSUME NEW p \in Procs, NEW v \in warm[p], WarmUp(p, v) PROVE Current'
  <2>1. /\ l1' = [l1 EXCEPT ![p] = [version |-> v, ttl |-> WarmTTL]]
        /\ warm' = [warm EXCEPT ![p] = @ \ {v}] /\ l2' = l2
    BY <1>6 DEF WarmUp
  <2>2. v = row.version /\ row.state = "live"
    BY CurrentIsLive DEF Current, WarmCurrent
  <2>3. L1Current'
    BY <1>2, <2>1, <2>2 DEF Current, L1Current, Fresh, Present, Types
  <2>4. L2Current' /\ WarmCurrent'
    BY <1>2, <2>1 DEF Current, L2Current, Fresh, Present, WarmCurrent, Types
  <2> QED  BY <1>3, <2>3, <2>4 DEF Current
<1> QED  BY <1>1, <1>4, <1>5, <1>6

\* After a step without a race and a failure there was none before it.
LEMMA CleanBefore ==
    ASSUME Types, Next, ~raced', faults' = 0
    PROVE  ~raced /\ faults' = faults /\ ~(Writing' /\ Reading') /\ ~Beyond'
<1>1. ~raced /\ ~(Writing' /\ Reading') /\ ~Beyond'
  BY Zenon DEF Next
<1>2. faults' = faults \/ faults' = faults + 1
  <2>1. ASSUME NEW r \in Requests, Step(r) PROVE faults' = faults \/ faults' = faults + 1
    BY <2>1 DEF Step, Fault, history, GetL1, GetL2, MissL2, Load, LoadFails, FillL1, FillL2, ReadForWrite,
       UpdateRow, DeleteRow, DeleteNothing, WriteFails, InvalidateL1, InvalidateL2, Lookup,
       Insert, InsertFails, Accept, Refuse
  <2>2. ASSUME NEW r \in Requests, Calls(r) PROVE faults' = faults
    BY <2>2 DEF Calls, CallGet, CallUpdate, CallDelete, CallCreate, CallAuth, Call
  <2>3. ASSUME NEW p \in Procs, Evict(p) \/ Crash(p) \/ \E v \in warm[p] : WarmUp(p, v)
        PROVE  faults' = faults \/ faults' = faults + 1
    BY <2>3 DEF Evict, Crash, WarmUp, Fault
  <2> QED  BY <2>1, <2>2, <2>3 DEF Next, Steps, Tick
<1>3. faults' = faults
  BY <1>2 DEF Types
<1> QED  BY <1>1, <1>3

LEMMA CurrentInvStep == CacheInv /\ CurrentInv /\ [Next]_vars => CurrentInv'
<1>1. ASSUME CacheInv, CurrentInv, Next PROVE CurrentInv'
  <2> SUFFICES ASSUME ~raced', faults' = 0
               PROVE  ~(Writing' /\ Reading') /\ ~Beyond' /\ Current'
    BY DEF CurrentInv
  <2>1. ~raced /\ faults' = faults /\ ~(Writing' /\ Reading') /\ ~Beyond'
    BY <1>1, CleanBefore DEF CacheInv
  <2>2. ~(Writing /\ Reading) /\ ~Beyond /\ Current
    BY <1>1, <2>1 DEF CurrentInv
  <2>3. ASSUME NEW r \in Requests, Step(r) PROVE Current'
    BY <1>1, <2>1, <2>2, <2>3, CallsKeepCurrent, WritesKeepCurrent, ReadsKeepCurrent, InvalidatesKeepCurrent
       DEF Step, Moves, Writes
  <2>4. Current'
    BY <1>1, <2>1, <2>2, <2>3, CallsKeepCurrent, WorldKeepsCurrent DEF Next, Steps
  <2> QED  BY <2>1, <2>4
<1>2. ASSUME CacheInv, CurrentInv, UNCHANGED vars PROVE CurrentInv'
  <2>1. UNCHANGED <<row, l1, l2, warm, pc, proc, copy, faults, raced>>
    BY <1>2 DEF vars, store, local
  <2>2. UNCHANGED <<Writing, Reading, Beyond, Current>>
    BY <2>1 DEF Writing, Reading, Beyond, Present, Current, FillsCurrent, WarmCurrent, L1Current, L2Current, Fresh
  <2> QED  BY <1>2, <2>1, <2>2 DEF CurrentInv
<1> QED  BY <1>1, <1>2

\* Invalidation is enough when reads and writes do not meet, the other processes
\* hold nothing and no call fails: between writes the cache holds the row as it is
\* or nothing (user.go 75-89, 147, 165).
THEOREM CoherentUnlessRaced == Spec => []CoherentWithoutRaces
<1>1. CurrentInv => CoherentWithoutRaces
  BY DEF CurrentInv, Current, L1Current, L2Current, CoherentWithoutRaces, Writing, WriteSteps
<1> QED  BY <1>1, InitInv, CurrentInvStep, CacheInvariant, PTL DEF Spec

----------------------------------------------------------------------------
(* For how long outdated values last.                                      *)

\* What StaleTimes holds, and StaleFor is the longest of these times.
LEMMA StaleTimesAre ==
    \A x : x \in StaleTimes <=>
        \/ x = 0
        \/ ~Fresh(l2) /\ x = l2.ttl + WarmTTL
        \/ \E p \in Procs : ~Fresh(l1[p]) /\ x = l1[p].ttl
        \/ \E p \in Procs : (\E v \in warm[p] : v # row.version) /\ x = WarmTTL
        \/ \E r \in Requests : copy[r] \notin {0, row.version} /\ x = TTL + WarmTTL
BY DEF StaleTimes

\* A set of natural numbers has a least element.
LEMMA LeastNat ==
    ASSUME NEW T, T \subseteq Nat, T # {}
    PROVE  \E t \in T : \A u \in T : ~(u < t)
<1> DEFINE R == {ss \in Nat \X Nat : ss[1] < ss[2]}
<1>1. IsWellFoundedOn(R, Nat)
  BY NatLessThanWellFounded DEF OpToRel
<1>2. \A t \in T, u \in T : u < t => <<u, t>> \in R
  OBVIOUS
<1> HIDE DEF R
<1>3. \E t \in T : \A u \in T : ~(<<u, t>> \in R)
  BY <1>1, WFMin
<1> QED  BY <1>2, <1>3

\* Max is the maximum of a bounded set of natural numbers.
LEMMA MaxOfBounded ==
    ASSUME NEW B \in Nat, NEW S, S \subseteq 0 .. B, S # {}
    PROVE  Max(S) \in S /\ \A x \in S : x <= Max(S)
<1> DEFINE T == {B - x : x \in S}
<1>1. T \subseteq Nat /\ T # {}
  <2>1. \A x \in S : B - x \in Nat
    OBVIOUS
  <2> QED  BY <2>1
<1>2. \A x \in S : B - x \in T
  OBVIOUS
<1>3. \A t \in T : \E x \in S : t = B - x
  OBVIOUS
<1> HIDE DEF T
<1>4. PICK t \in T : \A u \in T : ~(u < t)
  BY <1>1, LeastNat
<1>5. PICK x \in S : t = B - x
  BY <1>3
<1>6. ASSUME NEW y \in S PROVE x >= y
  <2>1. ~(B - y < B - x)
    BY <1>2, <1>4, <1>5
  <2>2. x \in 0 .. B /\ y \in 0 .. B
    OBVIOUS
  <2> QED  BY <2>1, <2>2
<1>7. Max(S) \in S /\ \A y \in S : Max(S) >= y
  BY <1>6 DEF Max
<1> QED  BY <1>7

\* StaleFor is the longest of the times.
LEMMA StaleForIs ==
    Types => /\ StaleFor \in Nat /\ StaleFor \in StaleTimes
             /\ \A x \in StaleTimes : x \in Nat /\ x <= StaleFor
<1> SUFFICES ASSUME Types
             PROVE  /\ StaleFor \in Nat /\ StaleFor \in StaleTimes
                    /\ \A x \in StaleTimes : x \in Nat /\ x <= StaleFor
  OBVIOUS
<1>1. TTL \in Nat /\ WarmTTL \in Nat /\ TTL + WarmTTL \in Nat
  BY UserAssumption
<1>2. l2.ttl \in 0 .. TTL /\ \A p \in Procs : l1[p].ttl \in 0 .. TTL
  BY DEF Types, Entry
<1>3. StaleTimes \subseteq 0 .. TTL + WarmTTL
  BY <1>1, <1>2, StaleTimesAre
<1>4. 0 \in StaleTimes
  BY StaleTimesAre
<1>5. StaleFor \in StaleTimes /\ \A x \in StaleTimes : x <= StaleFor
  BY <1>1, <1>3, <1>4, MaxOfBounded DEF StaleFor
<1> QED  BY <1>1, <1>3, <1>5

\* Where a step takes the contents of the cache from.
Sources ==
    /\ \/ l2' \in {l2, Older(l2), Absent}
       \/ \E r \in Requests : pc[r] = "fill2" /\ l2' = CachedFrom(r)
    /\ \A p \in Procs :
        \/ l1'[p] \in {l1[p], Older(l1[p]), Absent}
        \/ \E r \in Requests : pc[r] = "fill1" /\ l1'[p] = CachedFrom(r)
        \/ \E v \in warm[p] : l1'[p] = [version |-> v, ttl |-> WarmTTL]
    /\ \A p \in Procs : \A v \in warm'[p] : v \in warm[p] \/ (Present(l2) /\ v = l2.version)
    /\ \A r \in Requests : copy'[r] \in {0, copy[r], row.version}

LEMMA SourcesStep == CacheInv /\ [Next]_vars => Sources
<1> SUFFICES ASSUME CacheInv, [Next]_vars PROVE Sources
  OBVIOUS
<1> USE DEF CacheInv
<1>1. ASSUME NEW r \in Requests, NEW label \in Labels, Goto(r, label)
      PROVE  \A s \in Requests : copy'[s] \in {0, copy[s], row.version}
  BY <1>1, GotoTypes
<1>2. {"idle", "fill2", "inv1", "inv2", "get2", "load", "updWrite", "delWrite", "insert"} \subseteq Labels
  BY DEF Labels, ReadSteps, WriteSteps, OtherSteps
<1>3. ASSUME NEW r \in Requests, Step(r) PROVE Sources
  <2>1. CASE Moves(r)
    BY <1>1, <1>2, <2>1, MovesAre DEF Sources
  <2>2. CASE Writes(r)
    BY <1>1, <1>2, <2>2, WritesAre DEF Sources
  <2>3. CASE GetL2(r)
    <3>1. proc[r] \in Procs
      BY <2>3 DEF GetL2, Placed
    <3> QED  BY <1>1, <1>2, <2>3, <3>1 DEF GetL2, Sources, Types
  <2>4. CASE Load(r)
    <3>1. \A s \in Requests : copy'[s] \in {0, copy[s], row.version}
      BY <1>1, <1>2, <2>4 DEF Load, Types
    <3> QED  BY <2>4, <3>1 DEF Load, store, Sources
  <2>5. CASE FillL1(r) \/ InvalidateL1(r)
    <3>1. proc[r] \in Procs
      BY <2>5 DEF FillL1, InvalidateL1, Placed
    <3>2. \A s \in Requests : copy'[s] \in {0, copy[s], row.version}
      BY <1>1, <1>2, <2>5 DEF FillL1, InvalidateL1
    <3> QED  BY <2>5, <3>1, <3>2 DEF FillL1, InvalidateL1, Sources, Types
  <2>6. CASE FillL2(r) \/ InvalidateL2(r)
    BY <1>1, <1>2, <2>6 DEF FillL2, InvalidateL2, Sources
  <2> QED  BY <1>3, <2>1, <2>2, <2>3, <2>4, <2>5, <2>6 DEF Step, Moves, Writes
<1>4. ASSUME NEW r \in Requests, Calls(r) PROVE Sources
  BY <1>4 DEF Calls, CallGet, CallUpdate, CallDelete, CallCreate, CallAuth, Call, store, Sources
<1>5. ASSUME NEW p \in Procs, Evict(p) \/ Crash(p) \/ \E v \in warm[p] : WarmUp(p, v)
      PROVE  Sources
  BY <1>5 DEF Evict, Crash, WarmUp, local, Sources, Types
<1>6. CASE Tick \/ UNCHANGED vars
  BY <1>6 DEF Tick, vars, store, local, Sources
<1> QED  BY <1>3, <1>4, <1>5, <1>6 DEF Next, Steps

\* While the row is not written, every time after a step is bounded by one before.
LEMMA StaleCovered ==
    ASSUME CacheInv, CacheInv', Sources, row' = row
    PROVE  StaleFor' <= StaleFor
<1> USE DEF CacheInv
<1>1. TTL \in Nat /\ WarmTTL \in Nat
  BY UserAssumption
<1>2. \A e \in Entry : e.ttl \in Nat /\ e.ttl <= TTL
  BY DEF Entry
<1>3. l2 \in Entry /\ l2' \in Entry /\ \A p \in Procs : l1[p] \in Entry /\ l1'[p] \in Entry
  BY DEF Types
<1>4. StaleFor \in Nat /\ StaleFor' \in Nat /\ StaleFor' \in StaleTimes'
      /\ \A x \in StaleTimes : x <= StaleFor
  <2>1. (Types => StaleFor \in Nat /\ StaleFor \in StaleTimes)'
    BY StaleForIs, PTL
  <2> QED  BY <2>1, StaleForIs
<1>5. /\ ~Fresh(l2) => l2.ttl + WarmTTL <= StaleFor
      /\ \A p \in Procs : ~Fresh(l1[p]) => l1[p].ttl <= StaleFor
      /\ \A p \in Procs : \A v \in warm[p] : v # row.version => WarmTTL <= StaleFor
      /\ \A r \in Requests : copy[r] \notin {0, row.version} => TTL + WarmTTL <= StaleFor
  BY <1>4, StaleTimesAre
<1>6. \A r \in Requests : pc[r] \in {"fill1", "fill2"} =>
        /\ CachedFrom(r).ttl = TTL
        /\ (row.state = "live" /\ copy[r] = row.version) \/ TTL + WarmTTL <= StaleFor
  BY <1>5 DEF CachedFrom, HeldKnown, Known, KnownIn, Types
<1>7. ASSUME ~Fresh(l2)' PROVE l2'.ttl + WarmTTL <= StaleFor
  <2>1. CASE l2' = l2
    BY <1>5, <1>7, <2>1 DEF Fresh, Present
  <2>2. CASE l2' = Older(l2)
    <3>1. Present(Older(l2)) /\ ~Fresh(l2) /\ Older(l2).ttl + 1 = l2.ttl
      BY <1>3, <1>7, <2>2, OlderIs DEF Fresh, Present
    <3> QED  BY <1>1, <1>2, <1>3, <1>4, <1>5, <2>2, <3>1
  <2>3. CASE l2' = Absent
    BY <1>7, <2>3 DEF Fresh, Present, Absent
  <2>4. CASE \E r \in Requests : pc[r] = "fill2" /\ l2' = CachedFrom(r)
    BY <1>6, <1>7, <2>4 DEF Fresh, Present, CachedFrom
  <2> QED  BY <2>1, <2>2, <2>3, <2>4 DEF Sources
<1>8. ASSUME NEW p \in Procs, ~Fresh(l1[p])' PROVE l1'[p].ttl <= StaleFor
  <2>1. CASE l1'[p] = l1[p]
    BY <1>5, <1>8, <2>1 DEF Fresh, Present
  <2>2. CASE l1'[p] = Older(l1[p])
    <3>1. Present(Older(l1[p])) /\ ~Fresh(l1[p]) /\ Older(l1[p]).ttl + 1 = l1[p].ttl
      BY <1>3, <1>8, <2>2, OlderIs DEF Fresh, Present
    <3> QED  BY <1>1, <1>2, <1>3, <1>4, <1>5, <2>2, <3>1
  <2>3. CASE l1'[p] = Absent
    BY <1>8, <2>3 DEF Fresh, Present, Absent
  <2>4. CASE \E r \in Requests : pc[r] = "fill1" /\ l1'[p] = CachedFrom(r)
    <3>1. l1'[p].ttl = TTL /\ TTL + WarmTTL <= StaleFor
      BY <1>6, <1>8, <2>4 DEF Fresh, Present, CachedFrom
    <3> QED  BY <1>1, <1>4, <3>1
  <2>5. CASE \E v \in warm[p] : l1'[p] = [version |-> v, ttl |-> WarmTTL]
    BY <1>5, <1>8, <2>5 DEF Fresh, Present, HeldKnown, Known, KnownIn
  <2> QED  BY <2>1, <2>2, <2>3, <2>4, <2>5 DEF Sources
<1>9. ASSUME NEW p \in Procs, NEW v \in warm'[p], v # row.version PROVE WarmTTL <= StaleFor
  <2>1. CASE v \in warm[p]
    BY <1>5, <1>9, <2>1
  <2>2. CASE Present(l2) /\ v = l2.version
    <3>1. l2.ttl + WarmTTL <= StaleFor
      BY <1>5, <1>9, <2>2 DEF Fresh
    <3> QED  BY <1>1, <1>2, <1>3, <1>4, <3>1
  <2> QED  BY <2>1, <2>2 DEF Sources
<1>10. ASSUME NEW r \in Requests, copy'[r] \notin {0, row.version} PROVE TTL + WarmTTL <= StaleFor
  BY <1>5, <1>10 DEF Sources
<1>11. \/ StaleFor' = 0
       \/ ~Fresh(l2)' /\ StaleFor' = l2'.ttl + WarmTTL
       \/ \E p \in Procs : ~Fresh(l1[p])' /\ StaleFor' = l1'[p].ttl
       \/ \E p \in Procs : (\E v \in warm'[p] : v # row.version) /\ StaleFor' = WarmTTL
       \/ \E r \in Requests : copy'[r] \notin {0, row.version} /\ StaleFor' = TTL + WarmTTL
  BY <1>4 DEF StaleTimes
<1> QED  BY <1>4, <1>7, <1>8, <1>9, <1>10, <1>11

\* A tick shortens the longest of them, when nothing is under way.
LEMMA StaleShrinks ==
    ASSUME CacheInv, CacheInv', Tick, ~Reading, StaleFor > 0
    PROVE  StaleFor' < StaleFor
<1> USE DEF CacheInv
<1>1. TTL \in Nat /\ WarmTTL \in Nat
  BY UserAssumption
<1>2. /\ l2 \in Entry /\ l2' = Older(l2) /\ UNCHANGED <<row, warm, copy>>
      /\ \A p \in Procs : l1[p] \in Entry /\ l1'[p] = Older(l1[p])
  BY DEF Tick, local, Types
<1>3. \A e \in Entry : e.ttl \in Nat /\ Older(e).ttl \in Nat
  BY OlderIs DEF Entry
<1>4. StaleFor \in Nat /\ StaleFor' \in Nat /\ StaleFor' \in StaleTimes'
      /\ \A x \in StaleTimes : x <= StaleFor
  <2>1. (Types => StaleFor \in Nat /\ StaleFor \in StaleTimes)'
    BY StaleForIs, PTL
  <2> QED  BY <2>1, StaleForIs
<1>5. (\A p \in Procs : warm[p] = {}) /\ \A r \in Requests : copy[r] = 0
  BY DEF Reading, ReadSteps, Placed
<1>6. CASE StaleFor' = 0
  BY <1>4, <1>6
<1>7. CASE ~Fresh(l2)' /\ StaleFor' = l2'.ttl + WarmTTL
  <2>1. ~Fresh(l2) /\ Older(l2).ttl + 1 = l2.ttl
    BY <1>2, <1>7, OlderIs DEF Fresh
  <2>2. l2.ttl + WarmTTL <= StaleFor
    BY <1>4, <2>1, StaleTimesAre
  <2> QED  BY <1>1, <1>2, <1>3, <1>4, <1>7, <2>1, <2>2
<1>8. ASSUME NEW p \in Procs, ~Fresh(l1[p])', StaleFor' = l1'[p].ttl PROVE StaleFor' < StaleFor
  <2>1. ~Fresh(l1[p]) /\ Older(l1[p]).ttl + 1 = l1[p].ttl
    BY <1>2, <1>8, OlderIs DEF Fresh
  <2>2. l1[p].ttl <= StaleFor
    BY <1>4, <2>1, StaleTimesAre
  <2> QED  BY <1>1, <1>2, <1>3, <1>4, <1>8, <2>1, <2>2
<1>9. \/ StaleFor' = 0
      \/ ~Fresh(l2)' /\ StaleFor' = l2'.ttl + WarmTTL
      \/ \E p \in Procs : ~Fresh(l1[p])' /\ StaleFor' = l1'[p].ttl
  BY <1>2, <1>4, <1>5 DEF StaleTimes
<1> QED  BY <1>6, <1>7, <1>8, <1>9

\* Whatever raced, failed or died: while the row is not written the time for which
\* outdated values last never grows, and it shrinks with every tick once the reads
\* and warm-ups under way are done (multi.go 24-46, user.go 75-89).
THEOREM StaleValuesRunOut == Spec => StaleRunsOut
<1>1. CacheInv /\ CacheInv' /\ [Next]_vars
        => [UNCHANGED row => /\ StaleFor' <= StaleFor
                             /\ Tick /\ ~Reading /\ StaleFor > 0 => StaleFor' < StaleFor]_vars
  BY SourcesStep, StaleCovered, StaleShrinks
<1> QED  BY <1>1, CacheInvariant, PTL DEF Spec, StaleRunsOut
==============================================================================
