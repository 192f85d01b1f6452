--------------------------- MODULE GeocodingProofs ---------------------------
(***************************************************************************)
(* Proofs about Geocoding, for any stores, addresses, titles, callers,     *)
(* limit and number of changes.                                            *)
(***************************************************************************)
EXTENDS Geocoding, FiniteSetTheorems, TLAPS

(* Whoever wakes up has waited: nobody has had a turn meanwhile.           *)
Rested == recent <= 1 /\ \A c \in Callers : caller[c].phase = "due" => recent = 0

(* A batch knows the stores in it as they are, but for those changed since.*)
Job1(job) == job.store # None /\ job.store \notin crossed =>
  /\ store[job.store] # None
  /\ store[job.store].address = job.address /\ store[job.store].pin # "hand"
JobsAreCurrent == \A c \in Callers : \A i \in 1..Len(caller[c].todo) : Job1(caller[c].todo[i])

(* What is about to be saved is worth it.                                  *)
SavesAreVouched == \A c \in Callers : caller[c].phase = "save" =>
  This(c).store # None /\ Placeable(This(c).address)

(* What the backfill stored was precise by the code's measure.             *)
PinsArePlaceable == \A s \in Stores :
  store[s] # None /\ store[s].pin \in Addresses => Placeable(store[s].pin)

IInv == TypeOK /\ Rested /\ JobsAreCurrent /\ SavesAreVouched /\ PinsArePlaceable /\ PinsAreOwn

LEMMA InitIInv == Init => IInv
<1> SUFFICES ASSUME Init PROVE IInv
  OBVIOUS
<1> USE NamesAssumption, LimitAssumption DEF Init
<1>1. Idle \in Caller /\ Idle.phase = "idle" /\ Idle.todo = <<>> /\ Len(<<>>) = 0
  BY DEF Idle, Caller
<1>2. TypeOK
  <2>1. store \in [Stores -> Row \cup {None}]
    OBVIOUS
  <2>2. caller \in [Callers -> Caller] /\ \A c \in Callers : caller[c] = Idle
    BY <1>1
  <2>3. \A c \in Callers : mutex # c
    BY DEF Callers
  <2>4. recent \in Nat /\ crossed \subseteq Stores /\ changes \in 0..MaxChanges
    OBVIOUS
  <2> QED
    BY <1>1, <2>1, <2>2, <2>3, <2>4 DEF TypeOK
<1>3. Rested /\ JobsAreCurrent /\ SavesAreVouched
  BY <1>1 DEF Rested, JobsAreCurrent, SavesAreVouched
<1>4. PinsArePlaceable /\ PinsAreOwn
  BY DEF PinsArePlaceable, PinsAreOwn
<1> QED
  BY <1>2, <1>3, <1>4 DEF IInv

-----------------------------------------------------------------------------
(* One caller goes on with d.                                              *)

Fits(d) ==
  /\ Len(d.todo) <= Limit /\ (d.phase = "idle" <=> d.todo = <<>>)
  /\ d.phase = "save" => Head(d.todo).store # None /\ Placeable(Head(d.todo).address)

LEMMA MovedKeeps ==
  ASSUME IInv, NEW c \in Callers, NEW d \in Caller, Fits(d),
         caller' = [caller EXCEPT ![c] = d],
         \A i \in 1..Len(d.todo) : Job1(d.todo[i]),
         UNCHANGED <<store, crossed>>, changes' \in 0..MaxChanges,
         d.phase # "due",
         \/ /\ mutex' = mutex /\ (d.phase = "sleep" <=> mutex = c)
         \/ mutex' = None /\ d.phase # "sleep" /\ mutex = c
         \/ mutex' = c /\ d.phase = "sleep" /\ mutex = None,
         \/ recent' = recent
         \/ recent' = 1 /\ (mutex = None \/ mutex = c)
  PROVE  IInv'
<1> USE NamesAssumption, LimitAssumption
<1>0. TypeOK /\ caller'[c] = d /\ \A o \in Callers \ {c} : caller'[o] = caller[o]
  BY DEF IInv, TypeOK
<1>1. c # None /\ \A o \in Callers : o # None
  BY DEF Callers
<1>2. TypeOK'
  <2>1. caller' \in [Callers -> Caller] /\ mutex' \in Callers \cup {None} /\ recent' \in Nat
    BY <1>0 DEF TypeOK
  <2>2. ASSUME NEW o \in Callers
        PROVE  /\ Len(caller'[o].todo) <= Limit
               /\ caller'[o].phase = "idle" <=> caller'[o].todo = <<>>
               /\ caller'[o].phase \in {"sleep", "due"} <=> mutex' = o
    <3>1. CASE o = c
      BY <1>0, <1>1, <3>1 DEF Fits
    <3>2. CASE o # c
      BY <1>0, <1>1, <3>2 DEF TypeOK
    <3> QED
      BY <3>1, <3>2
  <2> QED
    BY <1>0, <2>1, <2>2 DEF TypeOK
<1>3. Rested'
  BY <1>0, <1>1 DEF IInv, Rested, TypeOK
<1>4. JobsAreCurrent'
  <2> SUFFICES ASSUME NEW o \in Callers, NEW i \in 1..Len(caller'[o].todo)
               PROVE  Job1(caller'[o].todo[i])
    BY DEF JobsAreCurrent, Job1
  <2> QED
    BY <1>0 DEF IInv, JobsAreCurrent
<1>5. SavesAreVouched'
  BY <1>0 DEF IInv, SavesAreVouched, This, Fits
<1>6. PinsArePlaceable' /\ PinsAreOwn'
  BY DEF IInv, PinsArePlaceable, PinsAreOwn
<1> QED
  BY <1>2, <1>3, <1>4, <1>5, <1>6 DEF IInv

(* Then come the steps of one caller.                                      *)
LEMMA TailOfTodo ==
  ASSUME NEW S, NEW todo \in Seq(S), todo # <<>>
  PROVE  /\ Len(todo) \in Nat \ {0} /\ Head(todo) = todo[1] /\ Head(todo) \in S
         /\ Tail(todo) \in Seq(S) /\ Len(Tail(todo)) = Len(todo) - 1
         /\ \A i \in 1..Len(Tail(todo)) : Tail(todo)[i] = todo[i + 1]
         /\ Len(todo) # 1 => Tail(todo) # <<>>
<1>1. Len(todo) \in Nat \ {0} /\ Head(todo) = todo[1] /\ Head(todo) \in S
  OBVIOUS
<1>2. Tail(todo) \in Seq(S) /\ Len(Tail(todo)) = Len(todo) - 1
  OBVIOUS
<1>3. \A i \in 1..Len(Tail(todo)) : Tail(todo)[i] = todo[i + 1]
  BY <1>1, <1>2
<1>4. Len(<<>>) = 0
  OBVIOUS
<1>5. Len(todo) # 1 => Tail(todo) # <<>>
  BY <1>1, <1>2, <1>4
<1> QED
  BY <1>1, <1>2, <1>3, <1>5

LEMMA MineOf ==
  ASSUME IInv, NEW c \in Callers
  PROVE  /\ caller[c] \in Caller /\ caller[c].todo \in Seq(Job)
         /\ caller[c].phase = "idle" <=> caller[c].todo = <<>>
         /\ Len(caller[c].todo) <= Limit
         /\ caller[c].phase \in {"sleep", "due"} <=> mutex = c
         /\ \A i \in 1..Len(caller[c].todo) : Job1(caller[c].todo[i])
         /\ caller = [caller EXCEPT ![c] = caller[c]]
BY DEF IInv, TypeOK, JobsAreCurrent, Caller

LEMMA ProceedKeeps ==
  ASSUME IInv, NEW c \in Callers, caller[c].phase \in {"lock", "ask", "save"}, Proceed(c),
         UNCHANGED <<store, mutex, recent, crossed>>, changes' \in 0..MaxChanges
  PROVE  IInv'
<1> DEFINE q == caller[c].todo
           d == IF Len(q) = 1 THEN Idle ELSE [phase |-> "lock", todo |-> Tail(q)]
<1>1. q \in Seq(Job) /\ q # <<>> /\ Len(q) <= Limit /\ mutex # c
      /\ \A i \in 1..Len(q) : Job1(q[i])
  BY MineOf
<1>2. caller' = [caller EXCEPT ![c] = d]
  BY DEF Proceed, IInv, TypeOK
<1>3. /\ Len(q) \in Nat \ {0} /\ Tail(q) \in Seq(Job) /\ Len(Tail(q)) = Len(q) - 1
      /\ \A i \in 1..Len(Tail(q)) : Tail(q)[i] = q[i + 1]
      /\ Len(q) # 1 => Tail(q) # <<>>
  BY <1>1, TailOfTodo
<1>4. Len(<<>>) = 0 /\ <<>> \in Seq(Job)
  OBVIOUS
<1>5. d.phase \in {"idle", "lock"} /\ d.todo = (IF Len(q) = 1 THEN <<>> ELSE Tail(q))
      /\ d = [phase |-> d.phase, todo |-> d.todo] /\ (d.phase = "idle" <=> Len(q) = 1)
  BY DEF Idle
<1>6. d.todo \in Seq(Job)
  BY <1>3, <1>4, <1>5
<1> HIDE DEF d
<1>7. d \in Caller
  BY <1>5, <1>6 DEF Caller
<1>8. Len(d.todo) <= Limit
  BY <1>1, <1>3, <1>4, <1>5, LimitAssumption
<1>9. Fits(d)
  BY <1>3, <1>5, <1>8 DEF Fits
<1>10. \A i \in 1..Len(d.todo) : Job1(d.todo[i])
  <2> SUFFICES ASSUME NEW i \in 1..Len(d.todo) PROVE Job1(d.todo[i])
    OBVIOUS
  <2>1. Len(q) # 1 /\ d.todo = Tail(q)
    BY <1>4, <1>5
  <2>2. i + 1 \in 1..Len(q) /\ d.todo[i] = q[i + 1]
    BY <2>1, <1>3
  <2> QED
    BY <2>2, <1>1
<1> HIDE DEF q
<1> QED
  BY <1>1, <1>2, <1>5, <1>7, <1>9, <1>10, MovedKeeps

LEMMA GotoKeeps ==
  ASSUME IInv, NEW c \in Callers, caller[c].phase # "idle",
         NEW p \in {"sleep", "send", "ask", "save"}, Goto(c, p),
         p = "save" => This(c).store # None /\ Placeable(This(c).address),
         UNCHANGED <<store, crossed, changes>>,
         \/ mutex' = mutex /\ mutex # c /\ p # "sleep"
         \/ mutex' = None /\ p # "sleep" /\ mutex = c
         \/ mutex' = c /\ p = "sleep" /\ mutex = None,
         \/ recent' = recent
         \/ recent' = 1 /\ (mutex = None \/ mutex = c)
  PROVE  IInv'
<1> DEFINE q == caller[c].todo
           d == [phase |-> p, todo |-> q]
<1>1. caller[c] \in Caller /\ q \in Seq(Job) /\ q # <<>> /\ Len(q) <= Limit
      /\ \A i \in 1..Len(q) : Job1(q[i])
  BY MineOf
<1>2. caller' = [caller EXCEPT ![c] = d]
  <2>1. [caller[c] EXCEPT !.phase = p] = d
    BY <1>1 DEF Caller
  <2>2. caller' = [caller EXCEPT ![c] = [caller[c] EXCEPT !.phase = p]]
    BY DEF Goto
  <2> QED
    BY <2>1, <2>2
<1>3. d \in Caller /\ d.phase = p /\ d.todo = q
  BY <1>1 DEF Caller
<1> HIDE DEF d
<1>4. Fits(d)
  BY <1>1, <1>3 DEF Fits, This
<1>5. changes' \in 0..MaxChanges
  BY DEF IInv, TypeOK
<1> HIDE DEF q
<1> QED
  BY <1>1, <1>2, <1>3, <1>4, <1>5, MovedKeeps

(* Saving coordinates: the row changes and the job is done with.  The row  *)
(* is out of everybody's jobs as far as its pin goes only if its address   *)
(* is the one looked up, which is what a job knows.                        *)
LEMMA SaveKeeps ==
  ASSUME IInv, NEW c \in Callers, UpdateStoreCoords(c)
  PROVE  IInv'
<1> DEFINE q == caller[c].todo
           d == IF Len(q) = 1 THEN Idle ELSE [phase |-> "lock", todo |-> Tail(q)]
           s == Head(q).store
           a == Head(q).address
<1> USE NamesAssumption, LimitAssumption
<1>0. TypeOK /\ Rested /\ JobsAreCurrent /\ SavesAreVouched /\ PinsArePlaceable /\ PinsAreOwn
  BY DEF IInv
<1>1. q \in Seq(Job) /\ q # <<>> /\ Len(q) <= Limit /\ mutex # c
      /\ (\A i \in 1..Len(q) : Job1(q[i])) /\ caller[c].phase = "save"
  BY MineOf DEF UpdateStoreCoords
<1>2. /\ Len(q) \in Nat \ {0} /\ Tail(q) \in Seq(Job) /\ Len(Tail(q)) = Len(q) - 1
      /\ \A i \in 1..Len(Tail(q)) : Tail(q)[i] = q[i + 1]
      /\ Len(q) # 1 => Tail(q) # <<>>
      /\ Head(q) = q[1] /\ Head(q) \in Job
  BY <1>1, TailOfTodo
<1>3. s \in Stores /\ a \in Addresses /\ Placeable(a)
  <2>1. s # None /\ Placeable(a)
    BY <1>0, <1>1 DEF SavesAreVouched, This
  <2> QED
    BY <2>1, <1>2 DEF Job
<1>4. s \notin crossed => store[s] # None /\ store[s].address = a /\ store[s].pin # "hand"
  BY <1>1, <1>2, <1>3 DEF Job1
<1>5. store' = (IF store[s] = None THEN store ELSE [store EXCEPT ![s].pin = a])
      /\ UNCHANGED <<mutex, recent, crossed, changes>>
  BY DEF UpdateStoreCoords, This
<1>6. caller' = [caller EXCEPT ![c] = d]
  BY <1>0 DEF UpdateStoreCoords, Proceed, TypeOK
<1>7. d.phase \in {"idle", "lock"} /\ d.todo = (IF Len(q) = 1 THEN <<>> ELSE Tail(q))
      /\ d = [phase |-> d.phase, todo |-> d.todo] /\ (d.phase = "idle" <=> Len(q) = 1)
  BY DEF Idle
<1>8. Len(<<>>) = 0 /\ <<>> \in Seq(Job)
  OBVIOUS
<1>9. d.todo \in Seq(Job)
  BY <1>2, <1>7, <1>8
<1> HIDE DEF d
<1>10. d \in Caller
  BY <1>7, <1>9 DEF Caller
<1>11. Len(d.todo) <= Limit /\ (d.phase = "idle" <=> d.todo = <<>>)
  BY <1>1, <1>2, <1>7, <1>8
<1>12. \A i \in 1..Len(d.todo) : \E j \in 1..Len(q) : d.todo[i] = q[j]
  <2> SUFFICES ASSUME NEW i \in 1..Len(d.todo) PROVE \E j \in 1..Len(q) : d.todo[i] = q[j]
    OBVIOUS
  <2>1. Len(q) # 1 /\ d.todo = Tail(q)
    BY <1>7, <1>8
  <2>2. i + 1 \in 1..Len(q) /\ d.todo[i] = q[i + 1]
    BY <2>1, <1>2
  <2> QED
    BY <2>2
<1>13. \A o \in Callers : caller'[o] = IF o = c THEN d ELSE caller[o]
  BY <1>0, <1>6 DEF TypeOK
<1>14. \A t \in Stores \ {s} : store'[t] = store[t]
  BY <1>0, <1>5 DEF TypeOK
<1>15. CASE store[s] = None
  <2>1. store' = store
    BY <1>5, <1>15
  <2>2. Fits(d) /\ (\A i \in 1..Len(d.todo) : Job1(d.todo[i])) /\ changes' \in 0..MaxChanges
    BY <1>0, <1>1, <1>5, <1>7, <1>11, <1>12 DEF Fits, TypeOK
  <2> HIDE DEF q
  <2> QED
    BY <1>1, <1>5, <1>6, <1>7, <1>10, <2>1, <2>2, MovedKeeps
<1>16. CASE store[s] # None
  <2>1. store[s] \in Row
    BY <1>0, <1>3, <1>16 DEF TypeOK
  <2>2. [store[s] EXCEPT !.pin = a] = [address |-> store[s].address, pin |-> a]
    BY <2>1 DEF Row
  <2>3. store' = [store EXCEPT ![s] = [store[s] EXCEPT !.pin = a]]
    BY <1>5, <1>16
  <2>4. store'[s] = [address |-> store[s].address, pin |-> a]
    BY <1>0, <1>3, <2>2, <2>3 DEF TypeOK
  <2>5. store'[s] \in Row /\ store'[s].address = store[s].address /\ store'[s].pin = a
        /\ store'[s] # None
    BY <1>3, <2>1, <2>4 DEF Row
  <2>6. TypeOK'
    <3>1. store' \in [Stores -> Row \cup {None}]
      BY <1>0, <2>2, <2>3, <2>4, <2>5 DEF TypeOK
    <3>2. caller' \in [Callers -> Caller]
      BY <1>0, <1>6, <1>10 DEF TypeOK
    <3>3. ASSUME NEW o \in Callers
          PROVE  /\ Len(caller'[o].todo) <= Limit
                 /\ caller'[o].phase = "idle" <=> caller'[o].todo = <<>>
                 /\ caller'[o].phase \in {"sleep", "due"} <=> mutex' = o
      BY <1>0, <1>1, <1>5, <1>7, <1>11, <1>13 DEF TypeOK
    <3> QED
      BY <1>0, <1>5, <3>1, <3>2, <3>3 DEF TypeOK
  <2>7. Rested'
    BY <1>0, <1>5, <1>7, <1>13 DEF Rested
  <2>8. ASSUME NEW job, Job1(job), job \in Job
        PROVE  Job1(job)'
    <3> SUFFICES ASSUME job.store # None, job.store \notin crossed
                 PROVE  /\ store'[job.store] # None
                        /\ store'[job.store].address = job.address
                        /\ store'[job.store].pin # "hand"
      BY <1>5 DEF Job1
    <3>1. job.store \in Stores /\ store[job.store].address = job.address
          /\ store[job.store] # None /\ store[job.store].pin # "hand"
      BY <2>8 DEF Job1, Job
    <3> QED
      BY <1>3, <1>14, <2>5, <3>1
  <2>9. JobsAreCurrent'
    <3> SUFFICES ASSUME NEW o \in Callers, NEW i \in 1..Len(caller'[o].todo)
                 PROVE  Job1(caller[o].todo[i])'
      BY DEF JobsAreCurrent
    <3>1. \E p \in Callers : \E j \in 1..Len(caller[p].todo) :
            caller'[o].todo[i] = caller[p].todo[j]
      BY <1>12, <1>13
    <3>2. PICK p \in Callers : \E j \in 1..Len(caller[p].todo) :
            caller'[o].todo[i] = caller[p].todo[j]
      BY <3>1
    <3>3. PICK j \in 1..Len(caller[p].todo) : caller'[o].todo[i] = caller[p].todo[j]
      BY <3>2
    <3>4. Job1(caller[p].todo[j]) /\ caller[p].todo[j] \in Job
      BY MineOf
    <3>5. ASSUME NEW job, Job1(job), job \in Job, job = caller'[o].todo[i]
          PROVE  Job1(caller[o].todo[i])'
      BY <2>8, <3>5 DEF Job1
    <3> QED
      BY <3>3, <3>4, <3>5
  <2>10. SavesAreVouched'
    BY <1>0, <1>7, <1>13 DEF SavesAreVouched, This
  <2>11. PinsArePlaceable' /\ PinsAreOwn'
    <3> SUFFICES ASSUME NEW t \in Stores, store'[t] # None, store'[t].pin \in Addresses
                 PROVE  Placeable(store'[t].pin)
                        /\ (store'[t].pin = store'[t].address \/ t \in crossed')
      BY DEF PinsArePlaceable, PinsAreOwn, Placeable, PreciseEnough
    <3>1. CASE t = s
      BY <1>3, <1>4, <1>5, <2>5, <3>1
    <3>2. CASE t # s
      BY <1>0, <1>5, <1>14, <3>2 DEF PinsArePlaceable, PinsAreOwn
    <3> QED
      BY <3>1, <3>2
  <2> QED
    BY <2>6, <2>7, <2>9, <2>10, <2>11 DEF IInv
<1> QED
  BY <1>15, <1>16

-----------------------------------------------------------------------------
(* The actions.                                                            *)

LEMMA ProceedsKeep ==
  ASSUME IInv, NEW c \in Callers, Proceeds(c)
  PROVE  IInv'
<1> USE NamesAssumption, LimitAssumption
<1>0. TypeOK /\ Rested /\ mutex \in Callers \cup {None} /\ recent \in Nat
      /\ changes \in 0..MaxChanges /\ c # None
  BY DEF IInv, TypeOK, Callers
<1>1. caller[c] \in Caller /\ caller[c].todo \in Seq(Job)
      /\ (caller[c].phase = "idle" <=> caller[c].todo = <<>>)
      /\ (caller[c].phase \in {"sleep", "due"} <=> mutex = c)
      /\ \A i \in 1..Len(caller[c].todo) : Job1(caller[c].todo[i])
  BY MineOf
<1>2. CASE SkipBlank(c)
  BY <1>0, <1>2, ProceedKeeps DEF SkipBlank
<1>3. CASE Throttle(c)
  <2>1. CASE recent = 0
    BY <1>0, <1>3, <2>1, GotoKeeps DEF Throttle, TakeTurn
  <2>2. CASE recent # 0
    BY <1>0, <1>3, <2>2, GotoKeeps DEF Throttle
  <2> QED
    BY <2>1, <2>2
<1>4. CASE WakeUp(c)
  <2>1. recent = 0 /\ mutex = c
    BY <1>0, <1>1, <1>4 DEF WakeUp, Rested
  <2> QED
    BY <1>0, <1>4, <2>1, GotoKeeps DEF WakeUp, TakeTurn
<1>5. CASE Answer(c)
  <2>1. CASE This(c).store # None /\ Placeable(This(c).address)
    <3>1. Goto(c, "save") /\ caller[c].phase = "ask"
          /\ UNCHANGED <<store, mutex, recent, crossed, changes>>
      BY <1>5, <2>1 DEF Answer
    <3>2. mutex # c
      BY <1>1, <3>1
    <3> QED
      BY <2>1, <3>1, <3>2, GotoKeeps
  <2>2. CASE ~(This(c).store # None /\ Placeable(This(c).address))
    BY <1>0, <1>5, <2>2, ProceedKeeps DEF Answer
  <2> QED
    BY <2>1, <2>2
<1>6. CASE CallFails(c)
  BY <1>0, <1>6, ProceedKeeps DEF CallFails
<1>7. CASE SaveFails(c)
  BY <1>0, <1>7, ProceedKeeps DEF SaveFails
<1>8. CASE UpdateStoreCoords(c)
  BY <1>8, SaveKeeps
<1>9. CASE Send(c)
  <2>1. Goto(c, "ask") /\ caller[c].phase = "send"
        /\ UNCHANGED <<store, mutex, recent, crossed, changes>>
    BY <1>9 DEF Send
  <2>2. mutex # c
    BY <1>1, <2>1
  <2> QED
    BY <2>1, <2>2, GotoKeeps
<1> QED
  BY <1>2, <1>3, <1>4, <1>5, <1>6, <1>7, <1>8, <1>9 DEF Proceeds

LEMMA BeginKeeps ==
  ASSUME IInv, Begin
  PROVE  IInv'
<1> USE NamesAssumption, LimitAssumption
<1>1. ASSUME NEW c \in Callers, NEW q \in Seq(Job), q # <<>>, Len(q) <= Limit,
             \A i \in 1..Len(q) : Job1(q[i]), caller[c].phase = "idle",
             caller' = [caller EXCEPT ![c] = [phase |-> "lock", todo |-> q]],
             UNCHANGED <<store, mutex, recent, crossed, changes>>
      PROVE  IInv'
  <2> DEFINE d == [phase |-> "lock", todo |-> q]
  <2>1. d \in Caller /\ d.phase = "lock" /\ d.todo = q
    BY <1>1 DEF Caller
  <2>2. mutex # c /\ changes' \in 0..MaxChanges
    BY <1>1 DEF IInv, TypeOK
  <2>3. caller' = [caller EXCEPT ![c] = d]
    BY <1>1
  <2> HIDE DEF d
  <2>4. Fits(d)
    BY <1>1, <2>1 DEF Fits
  <2> QED
    BY <1>1, <2>1, <2>2, <2>3, <2>4, MovedKeeps
<1>2. ASSUME NEW c \in Backfills, InternalGeocodeStores(c)
      PROVE  IInv'
  <2>1. PICK n \in 1..Limit : \E b \in [1..n -> Missing] :
          caller' = [caller EXCEPT ![c] = [phase |-> "lock", todo |->
            [i \in 1..n |-> [store |-> b[i], address |-> store[b[i]].address]]]]
    BY <1>2 DEF InternalGeocodeStores
  <2>2. PICK b \in [1..n -> Missing] :
          caller' = [caller EXCEPT ![c] = [phase |-> "lock", todo |->
            [i \in 1..n |-> [store |-> b[i], address |-> store[b[i]].address]]]]
    BY <2>1
  <2> DEFINE q == [i \in 1..n |-> [store |-> b[i], address |-> store[b[i]].address]]
  <2>3. ASSUME NEW i \in 1..n
        PROVE  q[i] \in Job /\ Job1(q[i])
    <3>1. b[i] \in Stores /\ store[b[i]] # None /\ store[b[i]].pin = "unset"
      BY DEF Missing
    <3>2. store[b[i]] \in Row
      BY <3>1 DEF IInv, TypeOK
    <3> QED
      BY <3>1, <3>2 DEF Row, Job, Job1
  <2>4. n \in Nat \ {0} /\ n <= Limit
    BY <2>1
  <2>5. q \in Seq(Job) /\ Len(q) = n
    BY <2>3, <2>4
  <2>6. q # <<>> /\ Len(q) <= Limit /\ \A i \in 1..Len(q) : Job1(q[i])
    <3>1. Len(<<>>) = 0
      OBVIOUS
    <3> QED
      BY <2>3, <2>4, <2>5, <3>1
  <2>7. caller' = [caller EXCEPT ![c] = [phase |-> "lock", todo |-> q]]
    BY <2>2
  <2>8. c \in Callers /\ caller[c].phase = "idle"
        /\ UNCHANGED <<store, mutex, recent, crossed, changes>>
    BY <1>2 DEF InternalGeocodeStores, Callers
  <2> HIDE DEF q
  <2> QED
    BY <1>1, <2>5, <2>6, <2>7, <2>8
<1>3. ASSUME NEW c \in Lookups, InternalGeocodeAddress(c)
      PROVE  IInv'
  <2>1. PICK a \in Asked : caller' = [caller EXCEPT ![c] =
          [phase |-> "lock", todo |-> <<[store |-> None, address |-> a]>>]]
    BY <1>3 DEF InternalGeocodeAddress
  <2> DEFINE job == [store |-> None, address |-> a]
             q == <<job>>
  <2>2. job \in Job /\ Job1(job)
    BY AddressAssumption DEF Job, Job1
  <2> HIDE DEF job
  <2>3. q \in Seq(Job) /\ Len(q) = 1 /\ q[1] = job
    BY <2>2
  <2>4. q # <<>> /\ Len(q) <= Limit /\ \A i \in 1..Len(q) : Job1(q[i])
    <3>1. Len(<<>>) = 0
      OBVIOUS
    <3> QED
      BY <2>2, <2>3, <3>1
  <2>5. caller' = [caller EXCEPT ![c] = [phase |-> "lock", todo |-> q]]
    BY <2>1 DEF job
  <2>6. c \in Callers /\ caller[c].phase = "idle"
        /\ UNCHANGED <<store, mutex, recent, crossed, changes>>
    BY <1>3 DEF InternalGeocodeAddress, Callers
  <2> HIDE DEF q
  <2> QED
    BY <1>1, <2>3, <2>4, <2>5, <2>6
<1> QED
  BY <1>2, <1>3 DEF Begin

LEMMA ElapseKeeps ==
  ASSUME IInv, Elapse
  PROVE  IInv'
<1>1. TypeOK /\ UNCHANGED <<store, mutex, crossed, changes>> /\ recent' = 0
  BY DEF IInv, Elapse
<1>2. ASSUME NEW c \in Callers
      PROVE  /\ caller'[c] \in Caller /\ caller'[c].todo = caller[c].todo
             /\ caller'[c].phase = IF caller[c].phase = "sleep" THEN "due" ELSE caller[c].phase
  <2>1. caller[c] \in Caller
    BY <1>1 DEF TypeOK
  <2>2. [caller[c] EXCEPT !.phase = "due"] = [phase |-> "due", todo |-> caller[c].todo]
    BY <2>1 DEF Caller
  <2>3. caller'[c] = IF caller[c].phase = "sleep"
                       THEN [phase |-> "due", todo |-> caller[c].todo] ELSE caller[c]
    BY <2>2 DEF Elapse
  <2>4. caller[c].todo \in Seq(Job)
    BY <2>1 DEF Caller
  <2> QED
    BY <2>1, <2>3, <2>4 DEF Caller
<1>3. TypeOK'
  <2>1. DOMAIN caller' = Callers /\ caller' = [c \in Callers |-> caller'[c]]
    BY DEF Elapse
  <2>2. caller' \in [Callers -> Caller]
    BY <1>2, <2>1
  <2>3. ASSUME NEW c \in Callers
        PROVE  /\ Len(caller'[c].todo) <= Limit
               /\ caller'[c].phase = "idle" <=> caller'[c].todo = <<>>
               /\ caller'[c].phase \in {"sleep", "due"} <=> mutex' = c
    BY <1>1, <1>2 DEF TypeOK
  <2> QED
    BY <1>1, <2>2, <2>3 DEF TypeOK
<1>4. Rested'
  BY <1>1 DEF Rested
<1>5. JobsAreCurrent'
  BY <1>1, <1>2 DEF IInv, JobsAreCurrent, Job1
<1>6. SavesAreVouched' /\ PinsArePlaceable' /\ PinsAreOwn'
  BY <1>1, <1>2 DEF IInv, SavesAreVouched, PinsArePlaceable, PinsAreOwn, This
<1> QED
  BY <1>3, <1>4, <1>5, <1>6 DEF IInv

LEMMA ChangeKeeps ==
  ASSUME IInv, NEW s \in Stores, NEW row \in Row \cup {None}, Change(s, row),
         row = None \/ row.pin \in {"unset", "hand"}
  PROVE  IInv'
<1> USE NamesAssumption, LimitAssumption
<1>1. TypeOK /\ UNCHANGED <<caller, mutex, recent>> /\ store' = [store EXCEPT ![s] = row]
      /\ crossed' = (IF InBatch(s) THEN crossed \cup {s} ELSE crossed)
      /\ changes < MaxChanges /\ changes' = changes + 1
  BY DEF IInv, Change
<1>2. TypeOK'
  BY <1>1 DEF TypeOK
<1>3. Rested' /\ SavesAreVouched'
  BY <1>1 DEF IInv, Rested, SavesAreVouched, This
<1>4. JobsAreCurrent'
  <2> SUFFICES ASSUME NEW c \in Callers, NEW i \in 1..Len(caller[c].todo)
               PROVE  Job1(caller[c].todo[i])'
    BY <1>1 DEF JobsAreCurrent
  <2> DEFINE job == caller[c].todo[i]
  <2>1. caller[c].todo \in Seq(Job)
    BY MineOf
  <2>2. job \in Job /\ Job1(job) /\ i \in DOMAIN caller[c].todo
    BY <2>1, MineOf
  <2>3. job.store = s => s \in crossed'
    BY <1>1, <2>2 DEF InBatch
  <2>4. job.store \in Stores \ {s} => store'[job.store] = store[job.store]
    BY <1>1 DEF TypeOK
  <2>5. job' = job /\ crossed \subseteq crossed'
    BY <1>1
  <2>6. job.store \in Stores \cup {None}
    BY <2>2 DEF Job
  <2> HIDE DEF job
  <2>7. Job1(job)'
    BY <2>2, <2>3, <2>4, <2>5, <2>6 DEF Job1
  <2> QED
    BY <2>7 DEF job
<1>5. PinsArePlaceable' /\ PinsAreOwn'
  <2>1. row # None => row \in Row /\ row.pin \notin Addresses
    OBVIOUS
  <2>2. store'[s] = row /\ \A t \in Stores \ {s} : store'[t] = store[t]
    BY <1>1 DEF TypeOK
  <2> QED
    BY <1>1, <2>1, <2>2 DEF IInv, PinsArePlaceable, PinsAreOwn
<1> QED
  BY <1>2, <1>3, <1>4, <1>5 DEF IInv

LEMMA RestartKeeps ==
  ASSUME IInv, Restart
  PROVE  IInv'
<1> USE NamesAssumption, LimitAssumption
<1>1. Idle \in Caller /\ Idle.phase = "idle" /\ Idle.todo = <<>> /\ Len(<<>>) = 0
  BY DEF Idle, Caller
<1>2. TypeOK /\ caller' = [c \in Callers |-> Idle] /\ mutex' = None /\ recent' = 0
      /\ UNCHANGED <<store, crossed>> /\ changes' \in 0..MaxChanges
  BY DEF IInv, TypeOK, Restart
<1>3. caller' \in [Callers -> Caller] /\ \A c \in Callers : caller'[c] = Idle
  BY <1>1, <1>2
<1>4. \A c \in Callers : c # None
  BY DEF Callers
<1>5. TypeOK'
  BY <1>1, <1>2, <1>3, <1>4 DEF TypeOK
<1>6. Rested' /\ JobsAreCurrent' /\ SavesAreVouched'
  BY <1>1, <1>2, <1>3 DEF Rested, JobsAreCurrent, SavesAreVouched
<1>7. PinsArePlaceable' /\ PinsAreOwn'
  BY <1>2 DEF IInv, PinsArePlaceable, PinsAreOwn
<1> QED
  BY <1>5, <1>6, <1>7 DEF IInv

LEMMA StepIInv == IInv /\ [Next]_vars => IInv'
<1> SUFFICES ASSUME IInv, [Next]_vars PROVE IInv'
  OBVIOUS
<1>1. CASE Begin
  BY <1>1, BeginKeeps
<1>2. CASE Elapse
  BY <1>2, ElapseKeeps
<1>3. CASE Restart
  BY <1>3, RestartKeeps
<1>4. CASE \E c \in Callers : Proceeds(c)
  BY <1>4, ProceedsKeep
<1>5. ASSUME NEW s \in Stores, SaveForm(s) PROVE IInv'
  BY <1>5, ChangeKeeps DEF SaveForm
<1>6. ASSUME NEW s \in Stores, DeleteStore(s) PROVE IInv'
  BY <1>6, ChangeKeeps DEF DeleteStore
<1>7. CASE UNCHANGED vars
  BY <1>7 DEF vars, IInv, TypeOK, Rested, JobsAreCurrent, Job1, SavesAreVouched, This,
              PinsArePlaceable, PinsAreOwn
<1> QED
  BY <1>1, <1>2, <1>3, <1>4, <1>5, <1>6, <1>7 DEF Next

LEMMA Invariance == Spec => []IInv
BY InitIInv, StepIInv, PTL DEF Spec

-----------------------------------------------------------------------------
(* The theorems.                                                           *)

(* A batch is never longer than the limit, and who sleeps in throttle, and *)
(* nobody else, has the mutex.                                             *)
THEOREM GeocodingTypes == Spec => []TypeOK
<1>1. IInv => TypeOK
  BY DEF IInv
<1> QED
  BY <1>1, Invariance, PTL

(* throttle gives its turns minInterval apart, for any number of           *)
(* goroutines, whoever of them sleeps and whenever the instance restarts.  *)
THEOREM TurnsStaySpaced == Spec => []TurnsAreSpaced
<1>1. IInv => TurnsAreSpaced
  BY DEF IInv, Rested, TurnsAreSpaced
<1> QED
  BY <1>1, Invariance, PTL

(* The backfill stores for a store what it looked up from the store's own  *)
(* address, but for forms saved meanwhile.                                 *)
THEOREM PinsStayOwn == Spec => []PinsAreOwn
<1>1. IInv => PinsAreOwn
  BY DEF IInv
<1> QED
  BY <1>1, Invariance, PTL

(* preciseEnough tells a centroid by its title, as far as that can be      *)
(* told: a ward's whether or not it is in a city, a city's, a prefecture's.*)
LEMMA CentroidsAreImprecise ==
  ASSUME NEW a \in Centroids \ Marked
  PROVE  ~PreciseEnough(Title[a])
<1> DEFINE title == Title[a]
<1>1. \A i \in DOMAIN title : (title[i] = "ku" => i = Len(title))
        /\ (title[i] = "shi" => i = Len(title) \/ title[Len(title)] = "ku")
  BY TitleAssumption
<1>2. SUFFICES ASSUME NEW i \in DOMAIN title, i < Len(title),
                      title[i] = IF \E j \in DOMAIN title : title[j] = "ku" THEN "ku" ELSE "shi",
                      title \in Seq({"ku", "shi", "name"})
               PROVE  FALSE
  BY TitleAssumption DEF PreciseEnough
<1>3. Len(title) \in DOMAIN title
  BY <1>2
<1> HIDE DEF title
<1>4. CASE \E j \in DOMAIN title : title[j] = "ku"
  BY <1>1, <1>2, <1>4
<1>5. CASE ~\E j \in DOMAIN title : title[j] = "ku"
  BY <1>1, <1>2, <1>3, <1>5
<1> QED
  BY <1>4, <1>5

(* So no centroid of a place with a plain name is ever stored.             *)
THEOREM PinsStayVouched == Spec => []PinsAreVouched
<1>1. IInv => PinsAreVouched
  BY CentroidsAreImprecise, AddressAssumption
     DEF IInv, PinsArePlaceable, PinsAreVouched, Placeable
<1> QED
  BY <1>1, Invariance, PTL

(* What a person saved is overwritten only if it was saved while the store *)
(* was in a batch.                                                         *)
THEOREM HandPinsAlwaysStay == Spec => HandPinsStay
<1> DEFINE Kept == \A s \in Stores :
      store[s] # None /\ store[s].pin = "hand" /\ store'[s] # None
        /\ store'[s].pin \in Addresses => s \in crossed
<1>1. IInv /\ [Next]_vars => [Kept]_vars
  <2> SUFFICES ASSUME IInv, [Next]_vars, NEW s \in Stores,
                      store[s] # None, store[s].pin = "hand",
                      store'[s] # None, store'[s].pin \in Addresses
               PROVE  s \in crossed
    OBVIOUS
  <2> USE NamesAssumption
  <2>1. store' # store
    BY NamesAssumption
  <2>2. ASSUME NEW c \in Callers, UpdateStoreCoords(c) PROVE s \in crossed
    <3> DEFINE q == caller[c].todo
               t == Head(q).store
    <3>1. q \in Seq(Job) /\ q # <<>> /\ \A i \in 1..Len(q) : Job1(q[i])
      BY <2>2, MineOf DEF UpdateStoreCoords
    <3>2. Len(q) \in Nat \ {0} /\ Head(q) = q[1]
      BY <3>1, TailOfTodo
    <3>3. Job1(Head(q)) /\ t # None
      BY <2>2, <3>1, <3>2 DEF IInv, SavesAreVouched, This, UpdateStoreCoords
    <3>4. store' = (IF store[t] = None THEN store ELSE [store EXCEPT ![t].pin = Head(q).address])
      BY <2>2 DEF UpdateStoreCoords, This
    <3>5. t # s => store'[s] = store[s]
      BY <3>4 DEF IInv, TypeOK
    <3>6. t = s
      BY <3>5
    <3> QED
      BY <3>3, <3>6 DEF Job1
  <2>3. ASSUME NEW t \in Stores, SaveForm(t) \/ DeleteStore(t) PROVE FALSE
    <3>1. PICK row \in Row \cup {None} : Change(t, row) /\ (row = None \/ row.pin \in {"unset", "hand"})
      BY <2>3 DEF SaveForm, DeleteStore
    <3>2. store' = [store EXCEPT ![t] = row]
      BY <3>1 DEF Change
    <3> QED
      BY <3>1, <3>2 DEF IInv, TypeOK
  <2>4. Elapse \/ Restart \/ Begin => FALSE
    BY <2>1 DEF Elapse, Restart, Begin, InternalGeocodeStores, InternalGeocodeAddress
  <2>5. ASSUME NEW c \in Callers, Proceeds(c) PROVE UpdateStoreCoords(c)
    BY <2>1, <2>5 DEF Proceeds, SkipBlank, Throttle, WakeUp, Send, Answer, CallFails, SaveFails
  <2> QED
    BY <2>1, <2>2, <2>3, <2>4, <2>5 DEF Next, vars
<1> QED
  BY <1>1, Invariance, PTL DEF Spec, HandPinsStay

-----------------------------------------------------------------------------
(* How the queue advances.                                                 *)

(* The oldest stores first, as many as a batch holds: it has every store   *)
(* before which fewer are missing that it could take instead.              *)
LEMMA BatchReaches ==
  ASSUME NEW n \in 1..Limit, NEW b \in [1..n -> Missing], Batch(b),
         NEW s \in Stores, Reachable(s)
  PROVE  \E i \in 1..n : b[i] <= s /\ Placeable(store[b[i]].address)
<1> USE LimitAssumption, StoresAssumption
<1> SUFFICES ASSUME \A i \in 1..n : ~(b[i] <= s /\ Placeable(store[b[i]].address))
             PROVE  FALSE
  OBVIOUS
<1>1. /\ Missing \subseteq Stores /\ s \in Missing /\ Stores \subseteq Nat
      /\ Placeable(store[s].address) /\ Cardinality(Ahead(s)) < Limit
      /\ DOMAIN b = 1..n /\ n \in Nat
  BY DEF Missing, Reachable
<1>2. /\ IsFiniteSet(Missing) /\ IsFiniteSet(Ahead(s))
      /\ Cardinality(Missing) \in Nat /\ Cardinality(Ahead(s)) \in Nat
      /\ IsFiniteSet(1..n) /\ Cardinality(1..n) = n
  <2>1. IsFiniteSet(Missing)
    BY <1>1, FS_Subset
  <2>2. IsFiniteSet(Ahead(s))
    BY <2>1, FS_Subset DEF Ahead
  <2>3. IsFiniteSet(1..n) /\ Cardinality(1..n) = n
    BY FS_Interval
  <2> QED
    BY <2>1, <2>2, <2>3, FS_CardinalityType
(* The store itself is not in the batch, so nothing younger is.            *)
<1>3. \A i \in 1..n : b[i] # s
  BY <1>1
<1>4. \A i \in 1..n : b[i] \in Ahead(s)
  <2> TAKE i \in 1..n
  <2>1. b[i] \in Missing /\ b[i] \in Nat /\ s \in Nat
    BY <1>1
  <2>2. ~(s < b[i])
    BY <1>1, <1>3 DEF Batch
  <2>3. b[i] < s
    BY <1>3, <2>1, <2>2
  <2> QED
    BY <2>1, <2>3 DEF Ahead
<1>5. \A i, j \in 1..n : i # j => b[i] # b[j]
  <2> TAKE i, j \in 1..n
  <2>1. i < j => b[i] < b[j]
    BY <1>1 DEF Batch
  <2>2. j < i => b[j] < b[i]
    BY <1>1 DEF Batch
  <2>3. b[i] \in Nat /\ b[j] \in Nat
    BY <1>1
  <2> QED
    BY <2>1, <2>2, <2>3
(* As fewer are ahead than a batch holds, the batch is not a full one:     *)
(* then it is all that is missing, and the store is in it after all.       *)
<1>6. n <= Cardinality(Ahead(s))
  <2>1. b \in Injection(1..n, Ahead(s))
    BY <1>1, <1>4, <1>5 DEF Injection, IsInjective
  <2> QED
    BY <1>2, <2>1, FS_Injection
<1>7. n = Cardinality(Missing)
  <2>1. Len(b) = n
    BY <1>1
  <2> QED
    BY <1>1, <1>2, <1>6, <2>1 DEF Batch
<1>8. b \in Surjection(1..n, Missing)
  <2>1. b \in Injection(1..n, Missing)
    BY <1>5 DEF Injection, IsInjective
  <2> QED
    BY <1>2, <1>7, <2>1, FS_Injection
<1>9. \E i \in 1..n : b[i] = s
  BY <1>1, <1>8 DEF Surjection
<1> QED
  BY <1>3, <1>9

(* internalGeocodeStores: a backfill that begins while fewer stores than a *)
(* batch holds are stuck ahead of one that can be placed, takes that one   *)
(* or an older one that can be placed.                                     *)
THEOREM BatchesAlwaysReach == Spec => BatchesReach
<1> DEFINE Reaches(c, s) == \E i \in DOMAIN caller'[c].todo : LET job == caller'[c].todo[i] IN
             job.store \in Missing /\ job.store <= s /\ Placeable(job.address)
<1>1. IInv /\ [Next]_vars => [\A c \in Backfills, s \in Stores :
        caller[c].phase = "idle" /\ caller'[c].phase # "idle" /\ Reachable(s) => Reaches(c, s)]_vars
  <2> SUFFICES ASSUME IInv, Next, NEW c \in Backfills, NEW s \in Stores,
                      caller[c].phase = "idle", caller'[c].phase # "idle", Reachable(s)
               PROVE  Reaches(c, s)
    OBVIOUS
  <2>1. caller \in [Callers -> Caller] /\ c \in Callers
    BY DEF IInv, TypeOK, Callers
  <2>2. InternalGeocodeStores(c)
    <3>1. ASSUME NEW o \in Backfills, InternalGeocodeStores(o) PROVE o = c
      BY <2>1, <3>1 DEF InternalGeocodeStores
    <3>2. ASSUME NEW o \in Lookups, InternalGeocodeAddress(o) PROVE o = c
      BY <2>1, <3>2 DEF InternalGeocodeAddress
    <3>3. c \notin Lookups
      BY NamesAssumption
    <3>4. ASSUME NEW o \in Callers, Proceeds(o) PROVE FALSE
      <4>1. caller[o].phase # "idle"
        BY <3>4 DEF Proceeds, SkipBlank, Throttle, WakeUp, Send, Answer, CallFails,
                    UpdateStoreCoords, SaveFails
      <4>2. o # c /\ caller'[c] = caller[c]
        BY <2>1, <3>4, <4>1 DEF Proceeds, SkipBlank, Throttle, WakeUp, Send, Answer, CallFails,
                    UpdateStoreCoords, SaveFails, Proceed, Goto, TakeTurn
      <4> QED
        BY <4>2
    <3>5. ~Elapse /\ ~Restart
      BY <2>1 DEF Elapse, Restart, Idle
    <3>6. ASSUME NEW t \in Stores, SaveForm(t) \/ DeleteStore(t) PROVE FALSE
      BY <3>6 DEF SaveForm, DeleteStore, Change
    <3> QED
      BY <3>1, <3>2, <3>3, <3>4, <3>5, <3>6 DEF Next, Begin
  <2>3. PICK n \in 1..Limit : \E b \in [1..n -> Missing] :
          /\ Batch(b)
          /\ caller' = [caller EXCEPT ![c] = [phase |-> "lock", todo |->
                [i \in 1..n |-> [store |-> b[i], address |-> store[b[i]].address]]]]
    BY <2>2 DEF InternalGeocodeStores
  <2>4. PICK b \in [1..n -> Missing] :
          /\ Batch(b)
          /\ caller' = [caller EXCEPT ![c] = [phase |-> "lock", todo |->
                [i \in 1..n |-> [store |-> b[i], address |-> store[b[i]].address]]]]
    BY <2>3
  <2>5. caller'[c].todo = [i \in 1..n |-> [store |-> b[i], address |-> store[b[i]].address]]
    BY <2>1, <2>4
  <2>6. PICK i \in 1..n : b[i] <= s /\ Placeable(store[b[i]].address)
    BY <2>4, BatchReaches
  <2>7. i \in DOMAIN caller'[c].todo /\ b[i] \in Missing
        /\ caller'[c].todo[i] = [store |-> b[i], address |-> store[b[i]].address]
    BY <2>5
  <2> QED
    BY <2>6, <2>7
<1> QED
  BY <1>1, Invariance, PTL DEF Spec, BatchesReach

(* The loop over the batch: what can be placed leaves it with its pin      *)
(* stored, or because the store is gone or something failed.               *)
THEOREM JobsAreAlwaysDone == Spec => JobsAreDone
<1> DEFINE Done(job) == job.store # None /\ Placeable(job.address)
             => store'[job.store] = None \/ store'[job.store].pin = job.address
<1>1. IInv /\ [Next]_vars => [\A c \in Callers :
        caller[c].phase # "idle" /\ caller'[c].todo # caller[c].todo /\ changes' = changes
          => Done(This(c))]_vars
  <2> SUFFICES ASSUME IInv, Next, NEW c \in Callers, caller[c].phase # "idle",
                      caller'[c].todo # caller[c].todo, changes' = changes,
                      This(c).store # None, Placeable(This(c).address)
               PROVE  store'[This(c).store] = None \/ store'[This(c).store].pin = This(c).address
    OBVIOUS
  <2>1. caller \in [Callers -> Caller] /\ store \in [Stores -> Row \cup {None}]
        /\ changes \in Nat
    BY LimitAssumption DEF IInv, TypeOK
  <2>2. This(c) \in Job /\ This(c).store \in Stores
    <3>1. This(c) \in Job
      BY MineOf, TailOfTodo DEF This
    <3> QED
      BY <3>1 DEF Job
  <2>3. ASSUME NEW o \in Callers, Proceeds(o) PROVE o = c
    BY <2>1, <2>3 DEF Proceeds, SkipBlank, Throttle, WakeUp, Send, Answer, CallFails,
                UpdateStoreCoords, SaveFails, Proceed, Goto, TakeTurn
  <2>4. Proceeds(c)
    <3>1. ~Begin
      BY <2>1 DEF Begin, InternalGeocodeStores, InternalGeocodeAddress, Callers
    <3>2. ~Elapse
      <4>1. caller[c] \in Caller
        BY <2>1
      <4>2. [caller[c] EXCEPT !.phase = "due"].todo = caller[c].todo
        BY <4>1 DEF Caller
      <4>3. Elapse => caller'[c].todo = caller[c].todo
        BY <4>2 DEF Elapse
      <4> QED
        BY <4>3
    <3>3. ~Restart
      BY <2>1 DEF Restart
    <3>4. ASSUME NEW t \in Stores, SaveForm(t) \/ DeleteStore(t) PROVE FALSE
      BY <3>4 DEF SaveForm, DeleteStore, Change
    <3> QED
      BY <2>3, <3>1, <3>2, <3>3, <3>4 DEF Next
  <2>5. ~SkipBlank(c)
    BY DEF SkipBlank, Placeable
  <2>6. ~Throttle(c) /\ ~WakeUp(c) /\ ~Send(c)
    BY <2>1 DEF Throttle, WakeUp, Send, TakeTurn, Goto, Caller
  <2>7. ~Answer(c)
    BY <2>1 DEF Answer, Goto, Caller
  <2>8. ~CallFails(c) /\ ~SaveFails(c)
    BY <2>1 DEF CallFails, SaveFails
  <2>9. UpdateStoreCoords(c)
    BY <2>4, <2>5, <2>6, <2>7, <2>8 DEF Proceeds
  <2>10. store' = (IF store[This(c).store] = None THEN store
                   ELSE [store EXCEPT ![This(c).store].pin = This(c).address])
    BY <2>9 DEF UpdateStoreCoords
  <2>11. CASE store[This(c).store] = None
    BY <2>10, <2>11
  <2>12. CASE store[This(c).store] # None
    <3>1. store[This(c).store] \in Row
      BY <2>1, <2>2, <2>12
    <3> QED
      BY <2>1, <2>2, <2>10, <2>12, <3>1 DEF Row
  <2> QED
    BY <2>11, <2>12
<1> QED
  BY <1>1, Invariance, PTL DEF Spec, JobsAreDone
=============================================================================
