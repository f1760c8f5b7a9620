-------------------------- MODULE TimerQueueProofs --------------------------
(***************************************************************************)
(* Theorems about TimerQueue, for any set of timers, any intervals and any *)
(* bounds: type correctness, the timerfd is armed for the first timer,     *)
(* each live timer has one owner, and the assertions that cannot fail.     *)
(***************************************************************************)
EXTENDS TimerQueue, SetInduction, FiniteSetTheorems, SequenceTheorems, TLAPS

------------------------------------------------------------------------------
(* Entries of m_timers *)

LEMMA EntryParts ==
  ASSUME NEW e \in Nat \X Timer
  PROVE  e[1] \in Nat /\ e[2] \in Timer /\ e = <<e[1], e[2]>>
OBVIOUS

\* begin() of m_timers: First(S) is an entry of S, and no entry is due earlier.
LEMMA FirstIsLeast ==
  ASSUME NEW S \in SUBSET (Nat \X Timer), S # {}
  PROVE  First(S) \in S /\ \A e \in S : First(S)[1] <= e[1]
<1>1. \A f \in S : f[1] \in Nat /\ f[2] \in Timer /\ f = <<f[1], f[2]>>
  OBVIOUS
<1>2. Timer \subseteq Nat
  BY TimerAssumption
<1> DEFINE Times == {e[1] : e \in S}
<1>3. PICK m \in Times : \A n \in Times : m <= n
  <2>1. Times \in SUBSET Nat /\ Times # {}
    BY <1>1
  <2> HIDE DEF Times
  <2>2. QED
    BY <2>1, NatHasLeast
<1> DEFINE Ids == {t \in Timer : <<m, t>> \in S}
<1>4. PICK i \in Ids : \A j \in Ids : i <= j
  <2>1. PICK e \in S : e[1] = m
    OBVIOUS
  <2>2. e[2] \in Ids
    BY <1>1, <2>1
  <2>3. Ids \in SUBSET Nat /\ Ids # {}
    BY <1>2, <2>2
  <2> HIDE DEF Ids
  <2>4. QED
    BY <2>3, NatHasLeast
<1>5. <<m, i>> \in S /\ i \in Nat /\ m \in Nat
  BY <1>1, <1>2
<1>6. ASSUME NEW f \in S \ {<<m, i>>} PROVE Before(<<m, i>>, f)
  <2>1. f[1] \in Nat /\ f[2] \in Timer /\ f[2] \in Nat /\ f = <<f[1], f[2]>>
    BY <1>1, <1>2
  <2>2. m <= f[1]
    BY <1>3
  <2>3. CASE f[1] = m
    <3>1. f[2] \in Ids /\ f[2] # i
      BY <2>1, <2>3
    <3>2. i <= f[2]
      BY <1>4, <3>1
    <3>3. QED
      BY <1>5, <2>1, <2>3, <3>1, <3>2 DEF Before
  <2>4. QED
    BY <1>5, <2>1, <2>2, <2>3 DEF Before
<1>7. First(S) \in S /\ \A f \in S \ {First(S)} : Before(First(S), f)
  BY <1>5, <1>6 DEF First
<1>8. QED
  BY <1>1, <1>7 DEF Before

------------------------------------------------------------------------------
(* The queue of closures *)

In(q, x) == \E i \in DOMAIN q : q[i] = x
NoneTwice(q) == \A i, j \in DOMAIN q : q[i] = q[j] => i = j

LEMMA InAppend ==
  ASSUME NEW S, NEW q \in Seq(S), NEW x \in S
  PROVE  /\ \A y : In(Append(q, x), y) <=> In(q, y) \/ y = x
         /\ NoneTwice(q) /\ ~In(q, x) => NoneTwice(Append(q, x))
<1>1. /\ Len(q) \in Nat /\ DOMAIN q = 1 .. Len(q)
      /\ DOMAIN Append(q, x) = 1 .. Len(q) + 1
      /\ \A i \in 1 .. Len(q) : Append(q, x)[i] = q[i]
      /\ Append(q, x)[Len(q) + 1] = x
  BY AppendProperties, LenProperties
<1> DEFINE a == Append(q, x)
<1> HIDE DEF a
<1>2. \A y : In(a, y) <=> In(q, y) \/ y = x
  BY <1>1 DEF In, a
<1>3. NoneTwice(q) /\ ~In(q, x) => NoneTwice(a)
  BY <1>1 DEF In, NoneTwice, a
<1>4. QED
  BY <1>2, <1>3 DEF a

LEMMA InTail ==
  ASSUME NEW S, NEW q \in Seq(S), q # <<>>
  PROVE  /\ In(q, Head(q)) /\ Head(q) \in S /\ Tail(q) \in Seq(S)
         /\ \A y : In(Tail(q), y) => In(q, y)
         /\ \A y : In(q, y) => y = Head(q) \/ In(Tail(q), y)
         /\ NoneTwice(q) => NoneTwice(Tail(q)) /\ ~In(Tail(q), Head(q))
<1>1. /\ Len(q) \in Nat \ {0} /\ DOMAIN q = 1 .. Len(q)
      /\ Tail(q) \in Seq(S) /\ Head(q) = q[1] /\ Head(q) \in S
      /\ DOMAIN Tail(q) = 1 .. Len(q) - 1
      /\ \A i \in 1 .. Len(q) - 1 : Tail(q)[i] = q[i + 1]
  <2>1. Len(q) \in Nat /\ Len(q) # 0 /\ DOMAIN q = 1 .. Len(q)
    BY LenProperties, EmptySeq
  <2>2. /\ Head(q) = q[1] /\ Head(q) \in S /\ Tail(q) \in Seq(S)
        /\ Len(Tail(q)) = Len(q) - 1
        /\ \A i \in 1 .. Len(Tail(q)) : Tail(q)[i] = q[i + 1]
    BY HeadTailProperties
  <2>3. DOMAIN Tail(q) = 1 .. Len(Tail(q))
    BY <2>2, LenProperties
  <2>4. QED
    BY <2>1, <2>2, <2>3
<1> DEFINE u == Tail(q)
           h == Head(q)
<1> HIDE DEF u, h
<1>2. In(q, h)
  BY <1>1 DEF In, h
<1>3. \A y : In(u, y) => In(q, y)
  BY <1>1 DEF In, u
<1>4. \A y : In(q, y) => y = h \/ In(u, y)
  <2> SUFFICES ASSUME NEW y, NEW i \in DOMAIN q, q[i] = y, y # h PROVE In(u, y)
    BY DEF In
  <2>1. i - 1 \in DOMAIN u /\ u[i - 1] = y
    BY <1>1 DEF u, h
  <2>2. QED
    BY <2>1 DEF In
<1>5. NoneTwice(q) => NoneTwice(u) /\ ~In(u, h)
  BY <1>1 DEF In, NoneTwice, u, h
<1>6. QED
  BY <1>1, <1>2, <1>3, <1>4, <1>5 DEF u, h

\* The closures that wait: of addTimer(), and of cancelTimer().
Adding(q, t)    == In(q, <<"add", t>>)
Canceling(q, t) == In(q, <<"cancel", t>>)

LEMMA QueuedIsIn ==
  \A t : (Queued("add", t) <=> Adding(queue, t)) /\ (Queued("cancel", t) <=> Canceling(queue, t))
BY DEF Queued, Adding, Canceling, In

\* A closure is queued.
LEMMA QueuePosted ==
  ASSUME NEW q \in Seq({"add", "cancel"} \X Timer), NEW t \in Timer, NEW op \in {"add", "cancel"}
  PROVE  /\ Append(q, <<op, t>>) \in Seq({"add", "cancel"} \X Timer)
         /\ \A u : Adding(Append(q, <<op, t>>), u) <=> Adding(q, u) \/ (op = "add" /\ u = t)
         /\ \A u : Canceling(Append(q, <<op, t>>), u) <=> Canceling(q, u) \/ (op = "cancel" /\ u = t)
         /\ /\ NoneTwice(q)
            /\ op = "add" => ~Adding(q, t)
            /\ op = "cancel" => ~Canceling(q, t)
            => NoneTwice(Append(q, <<op, t>>))
<1> DEFINE x == <<op, t>>
<1>1. x \in {"add", "cancel"} \X Timer
  OBVIOUS
<1>2. \A u : (<<"add", u>> = x <=> op = "add" /\ u = t) /\ (<<"cancel", u>> = x <=> op = "cancel" /\ u = t)
  OBVIOUS
<1> HIDE DEF x
<1>3. /\ \A y : In(Append(q, x), y) <=> In(q, y) \/ y = x
      /\ NoneTwice(q) /\ ~In(q, x) => NoneTwice(Append(q, x))
      /\ Append(q, x) \in Seq({"add", "cancel"} \X Timer)
  BY <1>1, InAppend, AppendProperties
<1>4. QED
  BY <1>2, <1>3 DEF Adding, Canceling, x

\* The first closure is taken from the queue.
LEMMA QueueTaken ==
  ASSUME NEW q \in Seq({"add", "cancel"} \X Timer), q # <<>>,
         NEW op, NEW t, op = Head(q)[1], t = Head(q)[2]
  PROVE  /\ op \in {"add", "cancel"} /\ t \in Timer
         /\ Tail(q) \in Seq({"add", "cancel"} \X Timer)
         /\ op = "add" => Adding(q, t)
         /\ op = "cancel" => Canceling(q, t)
         /\ \A u : Adding(Tail(q), u) => Adding(q, u)
         /\ \A u : Canceling(Tail(q), u) => Canceling(q, u)
         /\ \A u : Adding(q, u) => Adding(Tail(q), u) \/ (op = "add" /\ u = t)
         /\ NoneTwice(q) =>
              /\ NoneTwice(Tail(q))
              /\ op = "add" => ~Adding(Tail(q), t)
              /\ op = "cancel" => ~Canceling(Tail(q), t)
<1> DEFINE h == Head(q)
           u == Tail(q)
<1>1. /\ In(q, h) /\ h \in {"add", "cancel"} \X Timer
      /\ u \in Seq({"add", "cancel"} \X Timer)
      /\ \A y : In(u, y) => In(q, y)
      /\ \A y : In(q, y) => y = h \/ In(u, y)
      /\ NoneTwice(q) => NoneTwice(u) /\ ~In(u, h)
  BY InTail
<1>2. op = h[1] /\ t = h[2]
  OBVIOUS
<1> HIDE DEF h, u
<1>3. h = <<op, t>> /\ op \in {"add", "cancel"} /\ t \in Timer
  BY <1>1, <1>2
<1>4. \A y : (<<"add", y>> = h <=> op = "add" /\ y = t) /\ (<<"cancel", y>> = h <=> op = "cancel" /\ y = t)
  BY <1>3
<1>5. QED
  BY <1>1, <1>3, <1>4 DEF Adding, Canceling, u

------------------------------------------------------------------------------
(* The inductive invariant *)

\* What is true of an entry that is held, by m_timers, the batch or a callback:
\* it has the time its timer has, which is not deleted nor still to be added.
Own(e) ==
  /\ e[1] = when[e[2]]
  /\ object[e[2]] = "live"
  /\ ~Adding(queue, e[2])

\* Who owns what, while nothing has failed.  A canceled timer is not canceled
\* again, and one that has run for the last time does not repeat.
Owned ==
  /\ pc \in {"idle", "polled", "destroyed"} => expired = {}
  /\ timers \cap expired = {}
  /\ \A e \in timers \cup expired : Own(e)
  /\ pc = "callback" =>
       current \in Nat \X Timer /\ Own(current) /\ current \notin timers \cup expired
  /\ pc # "callback" => current = <<>>
  /\ \A t \in Timer :
       /\ Adding(queue, t) => object[t] = "live"
       /\ Canceling(queue, t) => object[t] \in {"live", "done"}
       /\ object[t] = "live" =>
            \/ EntryOf(t) \in timers \cup expired
            \/ pc = "callback" /\ current[2] = t
            \/ Adding(queue, t)
       /\ object[t] = "done" => ~Repeats(t) \/ pc = "destroyed"
  /\ NoneTwice(queue)

TimerInv ==
  /\ TypeOK
  /\ ArmedForFirst
  /\ NothingFails
  /\ Alive => Owned

LEMMA InitTimerInv == Init => TimerInv
<1> SUFFICES ASSUME Init PROVE TimerInv
  OBVIOUS
<1>1. TypeOK
  <2>1. 0 \in 0 .. MaxTime /\ 0 \in 0 .. MaxSets
    BY TimerAssumption
  <2>2. queue \in Seq({"add", "cancel"} \X Timer)
    BY EmptySeq DEF Init
  <2>3. QED
    BY <2>1, <2>2 DEF Init, TypeOK
<1>2. ArmedForFirst /\ NothingFails
  BY DEF Init, ArmedForFirst, NothingFails
<1>3. NoneTwice(queue) /\ \A t : ~Adding(queue, t) /\ ~Canceling(queue, t)
  BY DEF Init, NoneTwice, Adding, Canceling, In
<1>4. Owned
  BY <1>3 DEF Init, Owned, Own
<1>5. QED
  BY <1>1, <1>2, <1>4 DEF TimerInv

\* The invariant says that each timer has the owners that it should have.
LEMMA OwnedIsOnce ==
  ASSUME TypeOK, Owned
  PROVE  OwnedOnce
<1> SUFFICES ASSUME NEW t \in Timer
             PROVE  Cardinality({e \in timers \cup expired : e[2] = t})
                      + (IF pc = "callback" /\ current[2] = t THEN 1 ELSE 0)
                      + (IF Adding(queue, t) THEN 1 ELSE 0)
                    = IF object[t] = "live" THEN 1 ELSE 0
  BY QueuedIsIn DEF OwnedOnce
<1> DEFINE E == {e \in timers \cup expired : e[2] = t}
           held == EntryOf(t) \in timers \cup expired
           runs == pc = "callback" /\ current[2] = t
<1>1. E = IF held THEN {EntryOf(t)} ELSE {}
  <2>1. \A e \in timers \cup expired : e = <<e[1], e[2]>>
    BY EntryParts DEF TypeOK
  <2>2. \A e \in timers \cup expired : e[1] = when[e[2]]
    BY DEF Owned, Own
  <2>3. \A e \in E : e = EntryOf(t)
    BY <2>1, <2>2 DEF EntryOf
  <2>4. EntryOf(t)[2] = t
    BY DEF EntryOf
  <2>5. QED
    BY <2>3, <2>4
<1>2. Cardinality(E) = IF held THEN 1 ELSE 0
  BY <1>1, FS_EmptySet, FS_Singleton
<1>3. held => object[t] = "live" /\ ~Adding(queue, t)
  BY DEF Owned, Own, EntryOf
<1>4. runs => object[t] = "live" /\ ~Adding(queue, t) /\ ~held
  <2> SUFFICES ASSUME runs PROVE object[t] = "live" /\ ~Adding(queue, t) /\ ~held
    OBVIOUS
  <2>1. current = <<current[1], current[2]>> /\ Own(current) /\ current \notin timers \cup expired
    BY DEF Owned
  <2>2. QED
    BY <2>1 DEF Own, EntryOf
<1>5. Adding(queue, t) => object[t] = "live"
  BY DEF Owned
<1>6. object[t] = "live" => held \/ runs \/ Adding(queue, t)
  BY DEF Owned
<1> HIDE DEF held, runs, E
<1>7. QED
  BY <1>2, <1>3, <1>4, <1>5, <1>6 DEF E, runs

------------------------------------------------------------------------------
(* Types *)

LEMMA TypedNow ==
  ASSUME TypeOK
  PROVE  now \in Nat /\ left \in Nat /\ ahead \in Nat
<1>1. now \in 0 .. MaxTime /\ left \in Nat /\ ahead \in Nat
  BY DEF TypeOK
<1>2. QED
  BY <1>1, TimerAssumption

LEMMA TypedTimes ==
  ASSUME TypeOK
  PROVE  /\ timers \subseteq Nat \X Timer /\ expired \subseteq Nat \X Timer
         /\ when \in [Timer -> Nat]
         /\ queue \in Seq({"add", "cancel"} \X Timer)
BY DEF TypeOK

LEMMA TimerfdType ==
  ASSUME TypeOK, NEW time \in Nat, TimerfdSet(time)
  PROVE  /\ left' \in Nat /\ left' > 0 /\ readable' \in BOOLEAN /\ ahead' \in Nat /\ ahead' = 0
         /\ left' = 1 \/ now + left' <= time
<1>1. readable' \in BOOLEAN /\ ahead' = 0 /\ left' = IF time > now THEN time - now ELSE 1
  BY DEF TimerfdSet
<1>2. now \in Nat
  BY TypedNow
<1>3. left' \in Nat /\ left' > 0 /\ (left' = 1 \/ now + left' <= time)
  <2>1. CASE time > now
    <3>1. left' = time - now
      BY <1>1, <2>1
    <3>2. QED
      BY <1>2, <2>1, <3>1
  <2>2. CASE ~(time > now)
    BY <1>1, <2>2
  <2>3. QED
    BY <2>1, <2>2
<1>4. QED
  BY <1>1, <1>3

\* What Insert and Erase do to the types.
LEMMA InsertType ==
  ASSUME TypeOK, NEW t \in Timer, NEW time \in Nat, Insert(t, time)
  PROVE  /\ timers' \subseteq Nat \X Timer
         /\ left' \in Nat /\ ahead' \in Nat /\ readable' \in BOOLEAN
         /\ failed' \in {"entry", failed}
<1>1. timers' \subseteq Nat \X Timer /\ failed' \in {"entry", failed}
  BY TypedTimes DEF Insert
<1>2. CASE TimerfdSet(time)
  BY <1>1, <1>2, TimerfdType
<1>3. CASE UNCHANGED timerfdVars
  BY <1>1, <1>3 DEF timerfdVars, TypeOK
<1>4. QED
  BY <1>2, <1>3 DEF Insert

LEMMA EraseType ==
  ASSUME TypeOK, NEW t \in Timer, Erase(t)
  PROVE  /\ timers' \subseteq Nat \X Timer
         /\ object' \in [Timer -> {"none", "live", "done", "canceled"}]
         /\ failed' \in {"canceled twice", "canceled after it ran", "canceled in its batch",
                         "canceled before it was added", failed}
BY DEF Erase, CancelFails, TypeOK

LEMMA TypeStep == TimerInv /\ [Next]_vars => TypeOK'
<1> SUFFICES ASSUME TimerInv, [Next]_vars PROVE TypeOK'
  OBVIOUS
<1>0. TypeOK
  BY DEF TimerInv
<1>t. \A time \in 0 .. MaxTime : time \in Nat
  BY TimerAssumption
<1>1. CASE Poll \/ HandleRead
  BY <1>0, <1>1 DEF Poll, HandleRead, TypeOK, clockVars, timerfdVars
<1>2. CASE RunTimer
  BY <1>0, <1>2 DEF RunTimer, TypeOK, clockVars, timerfdVars
<1>3. CASE Alive /\ AfterRun
  <2>1. current \in Nat \X Timer
    BY <1>3 DEF TimerInv, Owned, AfterRun
  <2>2. PICK t \in Timer : t = current[2]
    BY <2>1
  <2>3. CASE Repeats(t)
    <3>1. when[t] \in Nat /\ Interval[t] \in Nat /\ when[t] + Interval[t] \in Nat
      BY <1>0, TypedTimes, TimerAssumption
    <3>2. when' = [when EXCEPT ![t] = when[t] + Interval[t]]
          /\ timers' = timers \cup {<<when'[t], t>>} /\ object' = object
      BY <1>3, <2>2, <2>3 DEF AfterRun
    <3>3. when' \in [Timer -> Nat] /\ when'[t] \in Nat
      BY <1>0, <3>1, <3>2, TypedTimes
    <3>4. timers' \subseteq Nat \X Timer
      BY <1>0, <3>2, <3>3, TypedTimes
    <3>5. QED
      BY <1>0, <1>3, <3>2, <3>3, <3>4 DEF AfterRun, TypeOK, clockVars, timerfdVars
  <2>4. CASE ~Repeats(t)
    BY <1>0, <1>3, <2>2, <2>4 DEF AfterRun, TypeOK, clockVars, timerfdVars
  <2>5. QED
    BY <2>3, <2>4
<1>4. CASE Rearm
  <2>1. CASE timers = {}
    BY <1>0, <1>4, <2>1 DEF Rearm, TypeOK, clockVars, timerfdVars
  <2>2. CASE timers # {}
    <3>1. First(timers)[1] \in Nat
      BY <1>0, <2>2, FirstIsLeast, EntryParts, TypedTimes
    <3>2. left' \in Nat /\ readable' \in BOOLEAN /\ ahead' \in Nat
      BY <1>0, <1>4, <2>2, <3>1, TimerfdType DEF Rearm
    <3>3. QED
      BY <1>0, <1>4, <3>2 DEF Rearm, TypeOK, clockVars
  <2>3. QED
    BY <2>1, <2>2
<1>5. CASE RunClosure
  <2> DEFINE op == Head(queue)[1]
             t  == Head(queue)[2]
  <2>1. op \in {"add", "cancel"} /\ t \in Timer /\ queue' \in Seq({"add", "cancel"} \X Timer)
    BY <1>0, <1>5, QueueTaken, TypedTimes DEF RunClosure
  <2>2. /\ \/ op = "add" /\ Insert(t, when[t]) /\ UNCHANGED object
           \/ op = "cancel" /\ Erase(t) /\ UNCHANGED timerfdVars
        /\ UNCHANGED <<clockVars, when, callVars>>
    BY <1>5 DEF RunClosure
  <2> HIDE DEF op, t
  <2>3. CASE Insert(t, when[t]) /\ UNCHANGED object
    <3>1. when[t] \in Nat
      BY <1>0, <2>1, TypedTimes
    <3>2. QED
      BY <1>0, <2>1, <2>2, <2>3, <3>1, InsertType DEF TypeOK, clockVars, callVars
  <2>4. CASE Erase(t) /\ UNCHANGED timerfdVars
    BY <1>0, <2>1, <2>2, <2>4, EraseType DEF TypeOK, clockVars, callVars, timerfdVars
  <2>5. QED
    BY <2>2, <2>3, <2>4
<1>6. CASE Tick
  <2>1. now \in Nat /\ now' \in 0 .. MaxTime /\ left' \in Nat /\ readable' \in BOOLEAN
    <3>1. now \in 0 .. MaxTime /\ MaxTime \in Nat /\ readable \in BOOLEAN
      BY <1>0, TimerAssumption DEF TypeOK
    <3>2. QED
      BY <1>0, <1>6, <3>1, TypedNow DEF Tick
  <2>2. QED
    BY <1>0, <1>6, <2>1 DEF Tick, TypeOK, callVars
<1>7. CASE Destroy
  BY <1>0, <1>7 DEF Destroy, TypeOK, clockVars, timerfdVars
<1>8. ASSUME NEW time \in 0 .. MaxTime, SetClock(time) PROVE TypeOK'
  <2>1. sets' \in 0 .. MaxSets /\ ahead' \in Nat
    <3>1. sets \in 0 .. MaxSets /\ MaxSets \in Nat /\ time \in Nat
      BY <1>0, <1>t, TimerAssumption DEF TypeOK
    <3>2. QED
      BY <1>0, <1>8, <3>1, TypedNow DEF SetClock
  <2>2. QED
    BY <1>0, <1>8, <2>1 DEF SetClock, TypeOK, callVars
<1>9. ASSUME NEW t \in Timer, NEW time \in 0 .. MaxTime, Add(t, time) PROVE TypeOK'
  <2>1. when' \in [Timer -> Nat] /\ object' \in [Timer -> {"none", "live", "done", "canceled"}]
    BY <1>0, <1>t, <1>9 DEF Add, New, TypeOK
  <2>2. QED
    BY <1>0, <1>t, <1>9, <2>1, InsertType DEF Add, TypeOK, clockVars, callVars
<1>10. ASSUME NEW t \in Timer, NEW time \in 0 .. MaxTime, PostAdd(t, time) PROVE TypeOK'
  <2>1. when' \in [Timer -> Nat] /\ object' \in [Timer -> {"none", "live", "done", "canceled"}]
    BY <1>0, <1>t, <1>10 DEF PostAdd, New, TypeOK
  <2>2. queue' \in Seq({"add", "cancel"} \X Timer)
    BY <1>0, <1>10, QueuePosted DEF PostAdd, TypeOK
  <2>3. QED
    BY <1>0, <1>10, <2>1, <2>2 DEF PostAdd, TypeOK, clockVars, timerfdVars, callVars
<1>11. ASSUME NEW t \in Timer, Cancel(t) PROVE TypeOK'
  BY <1>0, <1>11, EraseType DEF Cancel, TypeOK, clockVars, timerfdVars, callVars
<1>12. ASSUME NEW t \in Timer, PostCancel(t) PROVE TypeOK'
  <2>1. queue' \in Seq({"add", "cancel"} \X Timer)
    BY <1>0, <1>12, QueuePosted DEF PostCancel, TypeOK
  <2>2. QED
    BY <1>0, <1>12, <2>1 DEF PostCancel, TypeOK, clockVars, timerfdVars, callVars
<1>13. CASE UNCHANGED vars
  BY <1>0, <1>13 DEF vars, TypeOK, clockVars, timerfdVars, callVars
<1>14. QED
  BY <1>1, <1>2, <1>3, <1>4, <1>5, <1>6, <1>7, <1>8, <1>9, <1>10, <1>11, <1>12, <1>13
     DEF Next, Loop, Closure, Time

------------------------------------------------------------------------------
(* The timerfd is armed for the first timer *)

\* The timerfd is set for this time, or an earlier one, or has expired.
ArmedBy(time) == readable \/ (left > 0 /\ (now + left <= time + ahead \/ left = 1))

Armed == timers # {} => ArmedBy(First(timers)[1])

LEMMA FirstIsTime ==
  ASSUME NEW S \in SUBSET (Nat \X Timer), S # {}
  PROVE  First(S) \in S /\ First(S)[1] \in Nat
BY FirstIsLeast, EntryParts

\* With fewer timers the first one is due later.
LEMMA FirstOfFewer ==
  ASSUME NEW S \in SUBSET (Nat \X Timer), NEW U \in SUBSET S, U # {}
  PROVE  S # {} /\ First(S)[1] <= First(U)[1]
<1>1. First(U) \in S
  BY FirstIsLeast
<1>2. QED
  BY <1>1, FirstIsLeast

LEMMA ArmedEarlier ==
  ASSUME TypeOK, NEW time \in Nat, NEW later \in Nat, time <= later, ArmedBy(time)
  PROVE  ArmedBy(later)
BY TypedNow DEF ArmedBy

\* addTimer() sets the timerfd when the new timer is the first.
LEMMA InsertArmed ==
  ASSUME TypeOK, Armed,
         NEW t \in Timer, NEW time \in Nat, Insert(t, time), now' = now
  PROVE  Armed'
<1>1. timers' \in SUBSET (Nat \X Timer) /\ timers' = timers \cup {<<time, t>>} /\ timers' # {}
  BY InsertType DEF Insert
<1>2. CASE First(timers') = <<time, t>>
  <2>1. First(timers')[1] = time
    BY <1>2
  <2>2. left' \in Nat /\ left' > 0 /\ (left' = 1 \/ now + left' <= time) /\ ahead' = 0
    BY <1>2, TimerfdType DEF Insert
  <2>3. now + left' <= time => now' + left' <= time + ahead'
    BY <2>2, TypedNow
  <2>4. QED
    BY <2>1, <2>2, <2>3 DEF Armed, ArmedBy
<1>3. CASE First(timers') # <<time, t>>
  <2>1. First(timers') \in timers
    BY <1>1, <1>3, FirstIsTime
  <2>2. timers # {} /\ First(timers)[1] <= First(timers')[1]
    BY <2>1, FirstIsLeast, TypedTimes
  <2>3. First(timers)[1] \in Nat /\ First(timers')[1] \in Nat
    BY <1>1, <2>2, FirstIsTime, TypedTimes
  <2>4. ArmedBy(First(timers')[1])
    BY <2>2, <2>3, ArmedEarlier DEF Armed
  <2>5. UNCHANGED timerfdVars
    BY <1>3 DEF Insert
  <2>6. QED
    BY <2>4, <2>5 DEF Armed, ArmedBy, timerfdVars
<1>4. QED
  BY <1>2, <1>3

LEMMA EraseArmed ==
  ASSUME TypeOK, Armed,
         NEW t \in Timer, Erase(t), UNCHANGED <<clockVars, timerfdVars>>
  PROVE  Armed'
<1> SUFFICES ASSUME timers' # {} PROVE ArmedBy(First(timers)[1])'
  BY DEF Armed
<1>1. timers' \in SUBSET timers /\ timers' \in SUBSET (Nat \X Timer)
  BY TypedTimes DEF Erase
<1>2. timers # {} /\ First(timers)[1] <= First(timers')[1]
  BY <1>1, FirstOfFewer, TypedTimes
<1>3. First(timers)[1] \in Nat /\ First(timers')[1] \in Nat
  BY <1>1, <1>2, FirstIsTime, TypedTimes
<1>4. ArmedBy(First(timers')[1])
  BY <1>2, <1>3, ArmedEarlier DEF Armed
<1>5. QED
  BY <1>4 DEF Armed, ArmedBy, timerfdVars, clockVars

LEMMA ArmedStep == TypeOK /\ ArmedForFirst /\ [Next]_vars => ArmedForFirst'
<1> SUFFICES ASSUME TypeOK, ArmedForFirst, [Next]_vars,
                    pc' = "idle"
             PROVE  Armed'
  BY DEF ArmedForFirst, Armed, ArmedBy
<1>1. pc = "idle" => Armed
  BY DEF ArmedForFirst, Armed, ArmedBy
<1>t. \A time \in 0 .. MaxTime : time \in Nat
  BY TimerAssumption
<1>2. CASE Poll \/ HandleRead \/ RunTimer \/ AfterRun \/ Destroy
  BY <1>2 DEF Poll, HandleRead, RunTimer, AfterRun, Destroy
<1>3. CASE Rearm
  <2> SUFFICES ASSUME timers' # {} PROVE Armed'
    BY DEF Armed
  <2>0. timers # {}
    BY <1>3 DEF Rearm
  <2>1. timers' = timers /\ TimerfdSet(First(timers)[1]) /\ now' = now
    BY <1>3, <2>0 DEF Rearm, clockVars
  <2>2. First(timers)[1] \in Nat
    BY <2>0, <2>1, FirstIsTime, TypedTimes
  <2> DEFINE time == First(timers)[1]
  <2>3. time \in Nat /\ TimerfdSet(time)
    BY <2>1, <2>2
  <2> HIDE DEF time
  <2>4. left' \in Nat /\ left' > 0 /\ (left' = 1 \/ now + left' <= time) /\ ahead' = 0
    BY <2>3, TimerfdType
  <2>5. now + left' <= time => now' + left' <= time + ahead'
    BY <2>1, <2>3, <2>4, TypedNow
  <2>6. QED
    BY <2>1, <2>4, <2>5 DEF Armed, ArmedBy, time
<1>4. CASE RunClosure
  <2> DEFINE op == Head(queue)[1]
             t  == Head(queue)[2]
  <2>1. op \in {"add", "cancel"} /\ t \in Timer
    BY <1>4, QueueTaken, TypedTimes DEF RunClosure
  <2>2. /\ \/ op = "add" /\ Insert(t, when[t]) /\ UNCHANGED object
           \/ op = "cancel" /\ Erase(t) /\ UNCHANGED timerfdVars
        /\ UNCHANGED clockVars /\ pc = "idle"
    BY <1>4 DEF RunClosure
  <2> HIDE DEF op, t
  <2>3. CASE Insert(t, when[t])
    <3>1. when[t] \in Nat
      BY <2>1, TypedTimes
    <3>2. QED
      BY <1>1, <2>1, <2>2, <2>3, <3>1, InsertArmed DEF clockVars
  <2>4. CASE Erase(t) /\ UNCHANGED timerfdVars
    BY <1>1, <2>1, <2>2, <2>4, EraseArmed
  <2>5. QED
    BY <2>2, <2>3, <2>4
<1>5. CASE Tick
  <2> SUFFICES ASSUME timers # {} PROVE Armed'
    BY <1>5 DEF Armed, Tick
  <2>1. timers' = timers /\ pc' = pc
    BY <1>5 DEF Tick, callVars
  <2> DEFINE time == First(timers)[1]
  <2>2. timers # {} => ArmedBy(time) /\ time \in Nat
    BY <1>1, <2>1, FirstIsTime, TypedTimes DEF Armed
  <2> HIDE DEF time
  <2>3. /\ now' = IF now < MaxTime THEN now + 1 ELSE now
        /\ left' = IF left > 0 THEN left - 1 ELSE 0
        /\ readable' = (readable \/ left = 1) /\ ahead' = ahead
    BY <1>5 DEF Tick
  <2>4. CASE readable \/ left = 1
    BY <2>1, <2>3, <2>4 DEF Armed, ArmedBy
  <2>5. CASE ~(readable \/ left = 1)
    <3>1. left > 0 /\ now + left <= time + ahead /\ left # 1
      BY <2>2, <2>5 DEF Armed, ArmedBy
    <3>2. now' <= now + 1 /\ now' \in Nat
      BY <2>3, TypedNow
    <3>3. left' = left - 1 /\ left' > 0
      BY <2>3, <3>1, TypedNow
    <3>4. now' + left' <= time + ahead
      BY <2>2, <3>1, <3>2, <3>3, TypedNow
    <3>5. QED
      BY <2>1, <2>3, <3>3, <3>4 DEF Armed, ArmedBy, time
  <2>6. QED
    BY <2>4, <2>5
<1>6. ASSUME NEW t0 \in 0 .. MaxTime, SetClock(t0) PROVE Armed'
  <2> SUFFICES ASSUME timers # {} PROVE Armed'
    BY <1>6 DEF Armed, SetClock
  <2>1. timers' = timers /\ pc' = pc /\ left' = left /\ readable' = readable
    BY <1>6 DEF SetClock, callVars
  <2> DEFINE time == First(timers)[1]
  <2>2. timers # {} => ArmedBy(time) /\ time \in Nat
    BY <1>1, <2>1, FirstIsTime, TypedTimes DEF Armed
  <2> HIDE DEF time
  <2>3. now' = t0 /\ ahead' = (IF t0 > now THEN ahead + (t0 - now) ELSE ahead) /\ t0 \in Nat
    BY <1>6, <1>t DEF SetClock
  <2>4. now + left <= time + ahead => now' + left <= time + ahead'
    BY <2>2, <2>3, TypedNow
  <2>5. QED
    BY <2>1, <2>2, <2>4 DEF Armed, ArmedBy, time
<1>7. ASSUME NEW t \in Timer, NEW time \in 0 .. MaxTime, Add(t, time)
      PROVE  Armed'
  <2>1. Insert(t, time) /\ now' = now /\ pc = "idle"
    BY <1>7 DEF Add, clockVars, callVars
  <2>2. QED
    BY <1>1, <1>t, <2>1, InsertArmed
<1>8. ASSUME NEW t \in Timer, Cancel(t) PROVE Armed'
  BY <1>1, <1>8, EraseArmed DEF Cancel, callVars
<1>9. ASSUME UNCHANGED <<clockVars, timerfdVars, timers, pc>>
      PROVE  Armed'
  BY <1>1, <1>9 DEF Armed, ArmedBy, clockVars, timerfdVars
<1>10. ASSUME NEW t \in Timer, NEW time \in 0 .. MaxTime, PostAdd(t, time)
       PROVE  Armed'
  BY <1>9, <1>10 DEF PostAdd, callVars
<1>11. ASSUME NEW t \in Timer, PostCancel(t) PROVE Armed'
  BY <1>9, <1>11 DEF PostCancel, callVars
<1>12. CASE UNCHANGED vars
  BY <1>9, <1>12 DEF vars, callVars
<1>13. QED
  BY <1>2, <1>3, <1>4, <1>5, <1>6, <1>7, <1>8, <1>10, <1>11, <1>12
     DEF Next, Loop, Closure, Time

------------------------------------------------------------------------------
(* Every live timer has one owner *)

\* A new timer: nothing holds it, and no closure names it.
LEMMA NewIsFree ==
  ASSUME TypeOK, Owned, NEW t \in Timer, object[t] = "none"
  PROVE  /\ ~Adding(queue, t) /\ ~Canceling(queue, t)
         /\ \A e \in timers \cup expired : e[2] # t
         /\ pc = "callback" => current[2] # t
BY DEF Owned, Own

\* A timer whose closure of addTimer() waits is held by nothing else.
LEMMA AddedIsFree ==
  ASSUME TypeOK, Owned, NEW t \in Timer, Adding(queue, t)
  PROVE  /\ object[t] = "live"
         /\ \A e \in timers \cup expired : e[2] # t
         /\ pc = "callback" => current[2] # t
BY DEF Owned, Own

\* addTimer() on the loop thread.
LEMMA AddOwned ==
  ASSUME TypeOK, Owned, NEW t \in Timer, NEW time \in Nat, Add(t, time)
  PROVE  Owned' /\ failed' = failed
<1>1. /\ object' = [object EXCEPT ![t] = "live"] /\ object[t] = "none"
      /\ when' = [when EXCEPT ![t] = time]
      /\ timers' = timers \cup {<<time, t>>}
      /\ failed' = IF <<time, t>> \in timers THEN "entry" ELSE failed
      /\ queue' = queue /\ expired' = expired /\ current' = current /\ pc' = pc
      /\ pc \in {"idle", "polled", "callback"}
  BY DEF Add, Calling, New, Insert, callVars
<1>2. /\ ~Adding(queue, t) /\ ~Canceling(queue, t)
      /\ \A e \in timers \cup expired : e[2] # t
      /\ pc = "callback" => current[2] # t
  BY <1>1, NewIsFree
<1>3. /\ object'[t] = "live" /\ when'[t] = time
      /\ \A u \in Timer : u # t => object'[u] = object[u] /\ when'[u] = when[u]
  BY <1>1 DEF TypeOK
<1>4. \A e \in timers \cup expired : e[2] \in Timer
  BY TypedTimes, EntryParts
<1>5. <<time, t>> \notin timers \cup expired
  BY <1>2
<1> DEFINE f == <<time, t>>
<1>6. f[1] = time /\ f[2] = t /\ f = EntryOf(t)'
  BY <1>3 DEF EntryOf
<1>7. \A u \in Timer : u # t => EntryOf(u)' = EntryOf(u)
  BY <1>3 DEF EntryOf
<1> HIDE DEF f
<1>8. timers' = timers \cup {f} /\ f \notin timers \cup expired
  BY <1>1, <1>5 DEF f
<1>9. pc = "callback" => current \in Nat \X Timer /\ current[2] \in Timer /\ current # f
  BY <1>2, <1>6, EntryParts DEF Owned
<1>10. \A e \in timers' \cup expired' : Own(e)'
  BY <1>1, <1>2, <1>3, <1>4, <1>6, <1>8 DEF Owned, Own
<1>11. pc' = "callback" =>
         current' \in Nat \X Timer /\ Own(current)' /\ current' \notin timers' \cup expired'
  BY <1>1, <1>2, <1>3, <1>8, <1>9 DEF Owned, Own
<1>12. ASSUME NEW u \in Timer
       PROVE  /\ Adding(queue', u) => object'[u] = "live"
              /\ Canceling(queue', u) => object'[u] \in {"live", "done"}
              /\ object'[u] = "live" =>
                   \/ EntryOf(u)' \in timers' \cup expired'
                   \/ pc' = "callback" /\ current'[2] = u
                   \/ Adding(queue', u)
              /\ object'[u] = "done" => ~Repeats(u) \/ pc' = "destroyed"
  BY <1>1, <1>2, <1>3, <1>6, <1>7, <1>8 DEF Owned
<1>13. QED
  BY <1>1, <1>5, <1>8, <1>10, <1>11, <1>12 DEF Owned, Repeats

\* The closure of addTimer().
LEMMA AddClosureOwned ==
  ASSUME TypeOK, Owned, pc = "idle", NEW t \in Timer, Insert(t, when[t]), UNCHANGED <<object, when, callVars>>,
         Adding(queue, t), ~Adding(queue', t), NoneTwice(queue'),
         \A u : Adding(queue', u) => Adding(queue, u),
         \A u : Adding(queue, u) => Adding(queue', u) \/ u = t,
         \A u : Canceling(queue', u) => Canceling(queue, u)
  PROVE  Owned' /\ failed' = failed
<1> DEFINE f == EntryOf(t)
<1>1. /\ timers' = timers \cup {f}
      /\ failed' = IF f \in timers THEN "entry" ELSE failed
      /\ object' = object /\ when' = when /\ expired' = expired
      /\ current' = current /\ pc' = pc
  BY DEF Insert, callVars, EntryOf
<1>2. object[t] = "live" /\ \A e \in timers \cup expired : e[2] # t
  BY AddedIsFree
<1>3. f[1] = when[t] /\ f[2] = t /\ \A u : EntryOf(u)' = EntryOf(u)
  BY <1>1 DEF EntryOf
<1> HIDE DEF f
<1>4. f \notin timers \cup expired
  BY <1>2, <1>3
<1>5. \A e \in timers' \cup expired' : Own(e)'
  BY <1>1, <1>2, <1>3 DEF Owned, Own
<1>6. ASSUME NEW u \in Timer
      PROVE  /\ Adding(queue', u) => object'[u] = "live"
             /\ Canceling(queue', u) => object'[u] \in {"live", "done"}
             /\ object'[u] = "live" =>
                  \/ EntryOf(u)' \in timers' \cup expired'
                  \/ pc' = "callback" /\ current'[2] = u
                  \/ Adding(queue', u)
             /\ object'[u] = "done" => ~Repeats(u) \/ pc' = "destroyed"
  BY <1>1, <1>2, <1>3 DEF Owned, f
<1>7. QED
  BY <1>1, <1>4, <1>5, <1>6 DEF Owned, Repeats

\* cancelTimer(), by a call or by its closure: it removes the timer's only
\* owner, or one of the failures happens that callers must avoid.
LEMMA EraseOwned ==
  ASSUME TypeOK, Owned, Alive, NEW t \in Timer, Erase(t), UNCHANGED <<when, callVars>>,
         object[t] \in {"live", "done"}, pc # "destroyed",
         ~Canceling(queue', t), NoneTwice(queue'),
         \A u : Adding(queue', u) <=> Adding(queue, u),
         \A u : Canceling(queue', u) => Canceling(queue, u)
  PROVE  NothingFails' /\ (Alive' => Owned')
<1> DEFINE f == EntryOf(t)
<1>1. /\ timers' = timers \ {f}
      /\ object' = [object EXCEPT ![t] = "canceled"]
      /\ when' = when /\ expired' = expired /\ current' = current /\ pc' = pc
  BY DEF Erase, callVars
<1>2. /\ object'[t] = "canceled"
      /\ \A u \in Timer : u # t => object'[u] = object[u]
  BY <1>1 DEF TypeOK
<1>3. CASE object[t] = "done"
  <2>1. failed' = "canceled after it ran"
    <3>1. object[t] # "canceled" /\ ~Queued("add", t)
      BY <1>3, QueuedIsIn DEF Owned
    <3>2. f \notin expired
      BY <1>3 DEF Owned, Own, EntryOf
    <3>3. CASE pc = "callback"
      <4>1. f # current
        BY <1>3, <3>3 DEF Owned, Own, EntryOf
      <4>2. QED
        BY <1>3, <3>1, <3>2, <4>1 DEF Erase, CancelFails
    <3>4. CASE pc # "callback"
      <4>1. f # current
        BY <3>4 DEF Owned, EntryOf
      <4>2. QED
        BY <1>3, <3>1, <3>2, <4>1 DEF Erase, CancelFails
    <3>5. QED
      BY <3>3, <3>4
  <2>2. ~Repeats(t)
    BY <1>3 DEF Owned
  <2>3. QED
    BY <1>2, <2>1, <2>2 DEF NothingFails, Alive, Repeats
<1>4. CASE object[t] = "live"
  <2>1. NothingFails'
    BY <1>4 DEF NothingFails, Alive, Erase, CancelFails
  <2> SUFFICES ASSUME Alive' PROVE Owned'
    BY <2>1
  <2>2. ~Adding(queue, t) /\ f \notin expired /\ f # current
    BY <1>4, QueuedIsIn DEF Erase, CancelFails, Alive
  <2>3. f[1] = when[t] /\ f[2] = t /\ \A u : EntryOf(u)' = EntryOf(u) /\ EntryOf(u)[2] = u
    BY <1>1 DEF EntryOf
  <2>4. \A e \in timers \cup expired : e[2] = t => e = f
    BY TypedTimes, EntryParts DEF Owned, Own, EntryOf
  <2>5. pc = "callback" => current[2] # t /\ current \in Nat \X Timer
    BY <2>2, EntryParts DEF Owned, Own, EntryOf
  <2>6. \A e \in timers \cup expired : e[2] \in Timer
    BY TypedTimes, EntryParts
  <2> HIDE DEF f
  <2>7. \A e \in timers' \cup expired' : Own(e)'
    BY <1>1, <1>2, <2>2, <2>4, <2>6 DEF Owned, Own
  <2>8. pc' = "callback" =>
          current' \in Nat \X Timer /\ Own(current)' /\ current' \notin timers' \cup expired'
    <3> SUFFICES ASSUME pc = "callback"
                 PROVE  Own(current)' /\ current \notin timers' \cup expired'
      BY <1>1, <2>5
    <3>1. current[2] \in Timer /\ current[2] # t
      BY <2>5, EntryParts
    <3>2. QED
      BY <1>1, <1>2, <3>1 DEF Owned, Own
  <2>9. ASSUME NEW u \in Timer
        PROVE  /\ Adding(queue', u) => object'[u] = "live"
               /\ Canceling(queue', u) => object'[u] \in {"live", "done"}
               /\ object'[u] = "live" =>
                    \/ EntryOf(u)' \in timers' \cup expired'
                    \/ pc' = "callback" /\ current'[2] = u
                    \/ Adding(queue', u)
               /\ object'[u] = "done" => ~Repeats(u) \/ pc' = "destroyed"
    <3>1. CASE u = t
      BY <1>2, <2>2, <3>1
    <3>2. CASE u # t
      <4>1. EntryOf(u)' = EntryOf(u) /\ EntryOf(u) # f
        BY <2>3, <3>2
      <4>2. QED
        BY <1>1, <1>2, <3>2, <4>1 DEF Owned
    <3>3. QED
      BY <3>1, <3>2
  <2>10. QED
    BY <1>1, <2>7, <2>8, <2>9 DEF Owned, Repeats
<1>5. QED
  BY <1>3, <1>4

\* addTimer() and cancelTimer() from another thread.
LEMMA PostAddOwned ==
  ASSUME TypeOK, Owned, NEW t \in Timer, NEW time \in Nat, PostAdd(t, time)
  PROVE  Owned'
<1>1. /\ object' = [object EXCEPT ![t] = "live"] /\ object[t] = "none"
      /\ when' = [when EXCEPT ![t] = time]
      /\ queue' = Append(queue, <<"add", t>>)
      /\ timers' = timers /\ expired' = expired /\ current' = current /\ pc' = pc
  BY DEF PostAdd, New, callVars
<1>2. /\ ~Adding(queue, t) /\ ~Canceling(queue, t)
      /\ \A e \in timers \cup expired : e[2] # t
      /\ pc = "callback" => current[2] # t
  BY <1>1, NewIsFree
<1>3. /\ object'[t] = "live"
      /\ \A u \in Timer : u # t => object'[u] = object[u] /\ when'[u] = when[u]
  BY <1>1 DEF TypeOK
<1>4. /\ \A u : Adding(queue', u) <=> Adding(queue, u) \/ u = t
      /\ \A u : Canceling(queue', u) <=> Canceling(queue, u)
      /\ NoneTwice(queue')
  BY <1>1, <1>2, QueuePosted, TypedTimes DEF Owned
<1>5. \A e \in timers \cup expired : e[2] \in Timer
  BY TypedTimes, EntryParts
<1>6. \A u \in Timer : u # t => EntryOf(u)' = EntryOf(u)
  BY <1>3 DEF EntryOf
<1>7. pc = "callback" => current \in Nat \X Timer /\ current[2] \in Timer
  BY EntryParts DEF Owned
<1>8. \A e \in timers' \cup expired' : Own(e)'
  <2> SUFFICES ASSUME NEW e \in timers \cup expired PROVE Own(e)'
    BY <1>1
  <2>1. Own(e) /\ e[2] \in Timer /\ e[2] # t
    BY <1>2, <1>5 DEF Owned
  <2>2. QED
    BY <1>3, <1>4, <2>1 DEF Own
<1>9. pc' = "callback" =>
        current' \in Nat \X Timer /\ Own(current)' /\ current' \notin timers' \cup expired'
  BY <1>1, <1>2, <1>3, <1>4, <1>7 DEF Owned, Own
<1>10. ASSUME NEW u \in Timer
       PROVE  /\ Adding(queue', u) => object'[u] = "live"
              /\ Canceling(queue', u) => object'[u] \in {"live", "done"}
              /\ object'[u] = "live" =>
                   \/ EntryOf(u)' \in timers' \cup expired'
                   \/ pc' = "callback" /\ current'[2] = u
                   \/ Adding(queue', u)
              /\ object'[u] = "done" => ~Repeats(u) \/ pc' = "destroyed"
  BY <1>1, <1>2, <1>3, <1>4, <1>6 DEF Owned
<1>11. QED
  BY <1>1, <1>4, <1>8, <1>9, <1>10 DEF Owned, Repeats

LEMMA PostCancelOwned ==
  ASSUME TypeOK, Owned, NEW t \in Timer, PostCancel(t)
  PROVE  Owned'
<1>1. /\ queue' = Append(queue, <<"cancel", t>>) /\ object[t] = "live" /\ ~Canceling(queue, t)
      /\ UNCHANGED <<timers, expired, current, pc, object, when>>
  BY QueuedIsIn DEF PostCancel, MayCancel, callVars
<1>2. /\ \A u : Adding(queue', u) <=> Adding(queue, u)
      /\ \A u : Canceling(queue', u) <=> Canceling(queue, u) \/ u = t
      /\ NoneTwice(queue')
  BY <1>1, QueuePosted, TypedTimes DEF Owned
<1>3. \A e : Own(e)' <=> Own(e)
  BY <1>1, <1>2 DEF Own
<1>4. \A u : EntryOf(u)' = EntryOf(u)
  BY <1>1 DEF EntryOf
<1>5. QED
  BY <1>1, <1>2, <1>3, <1>4 DEF Owned, Repeats

\* handleRead() takes a batch, ...
LEMMA HandleReadOwned ==
  ASSUME TypeOK, Owned, HandleRead
  PROVE  Owned' /\ failed' = failed
<1>1. /\ expired' \subseteq timers /\ timers' = timers \ expired' /\ expired = {}
      /\ pc = "polled" /\ pc' = "next"
      /\ UNCHANGED <<object, when, current, queue, failed>>
  BY DEF HandleRead, Owned
<1>2. timers' \cup expired' = timers \cup expired /\ timers' \cap expired' = {}
  BY <1>1
<1>3. \A e : Own(e)' <=> Own(e)
  BY <1>1 DEF Own
<1>4. \A u : EntryOf(u)' = EntryOf(u)
  BY <1>1 DEF EntryOf
<1>5. QED
  BY <1>1, <1>2, <1>3, <1>4 DEF Owned, Repeats

\* ... runs its first timer, which is there still and has the time it had, ...
LEMMA RunTimerOwned ==
  ASSUME TypeOK, Owned, RunTimer
  PROVE  Owned' /\ failed' = failed
<1>1. /\ pc = "next" /\ expired # {} /\ pc' = "callback"
      /\ current' = First(expired) /\ expired' = expired \ {current'}
      /\ UNCHANGED <<timers, object, when, queue>>
  BY DEF RunTimer
<1>2. current' \in expired
  BY <1>1, FirstIsLeast, TypedTimes
<1>3. current' \in Nat \X Timer /\ Own(current') /\ current' \notin timers
  BY <1>2, TypedTimes DEF Owned
<1>4. current' = EntryOf(current'[2]) /\ object[current'[2]] = "live"
  BY <1>3, EntryParts DEF Own, EntryOf
<1>5. failed' = failed
  BY <1>4 DEF RunTimer
<1>6. \A e : Own(e)' <=> Own(e)
  BY <1>1 DEF Own
<1>7. Own(current)'
  BY <1>1, <1>3 DEF Own
<1>8. \A u : EntryOf(u)' = EntryOf(u) /\ EntryOf(u)[2] = u
  BY <1>1 DEF EntryOf
<1>9. timers' \cap expired' = {} /\ \A e \in timers' \cup expired' : Own(e)'
  BY <1>1, <1>6 DEF Owned
<1>10. ASSUME NEW u \in Timer
       PROVE  /\ Adding(queue', u) => object'[u] = "live"
              /\ Canceling(queue', u) => object'[u] \in {"live", "done"}
              /\ object'[u] = "live" =>
                   \/ EntryOf(u)' \in timers' \cup expired'
                   \/ pc' = "callback" /\ current'[2] = u
                   \/ Adding(queue', u)
              /\ object'[u] = "done" => ~Repeats(u) \/ pc' = "destroyed"
  BY <1>1, <1>8 DEF Owned
<1>11. QED
  BY <1>1, <1>3, <1>5, <1>7, <1>9, <1>10 DEF Owned, Repeats

\* ... and after its callback restarts it or deletes it.
LEMMA AfterRunOwned ==
  ASSUME TypeOK, Owned, AfterRun
  PROVE  Owned'
<1>1. /\ pc = "callback" /\ pc' = "next" /\ current' = <<>>
      /\ expired' = expired /\ queue' = queue
  BY DEF AfterRun
<1>2. current \in Nat \X Timer /\ Own(current) /\ current \notin timers \cup expired
  BY <1>1 DEF Owned
<1>3. PICK t \in Timer : t = current[2]
  BY <1>2
<1>4. object[t] = "live" /\ ~Adding(queue, t)
  BY <1>2, <1>3 DEF Own
<1>5. \A e \in timers \cup expired : e[2] # t /\ e[2] \in Timer
  <2> SUFFICES ASSUME NEW e \in timers \cup expired PROVE e[2] # t /\ e[2] \in Timer
    OBVIOUS
  <2>1. e = <<e[1], e[2]>> /\ e[2] \in Timer /\ current = <<current[1], current[2]>>
    BY <1>2, TypedTimes, EntryParts
  <2>2. e[1] = when[e[2]] /\ current[1] = when[t]
    BY <1>2, <1>3 DEF Owned, Own
  <2>3. QED
    BY <1>2, <1>3, <2>1, <2>2
<1>6. CASE Repeats(t)
  <2>1. /\ when' = [when EXCEPT ![t] = when[t] + Interval[t]]
        /\ timers' = timers \cup {<<when'[t], t>>} /\ object' = object
    BY <1>3, <1>6 DEF AfterRun
  <2>2. \A u \in Timer : u # t => when'[u] = when[u]
    BY <2>1 DEF TypeOK
  <2> DEFINE f == EntryOf(t)'
  <2>3. f[1] = when'[t] /\ f[2] = t /\ timers' = timers \cup {f}
    BY <2>1 DEF EntryOf
  <2>4. \A u \in Timer : u # t => EntryOf(u)' = EntryOf(u)
    BY <2>2 DEF EntryOf
  <2>5. f = EntryOf(t)'
    OBVIOUS
  <2> HIDE DEF f
  <2>6. timers' \cap expired' = {}
    BY <1>1, <1>5, <2>3 DEF Owned
  <2>7. \A e \in timers' \cup expired' : Own(e)'
    BY <1>1, <1>4, <1>5, <2>1, <2>2, <2>3 DEF Owned, Own
  <2>8. ASSUME NEW u \in Timer, object'[u] = "live", ~Adding(queue', u)
        PROVE  EntryOf(u)' \in timers' \cup expired'
    BY <1>1, <1>3, <2>1, <2>3, <2>4, <2>5, <2>8 DEF Owned
  <2>9. QED
    BY <1>1, <2>1, <2>6, <2>7, <2>8 DEF Owned, Repeats
<1>7. CASE ~Repeats(t)
  <2>1. object' = [object EXCEPT ![t] = "done"] /\ when' = when /\ timers' = timers
    BY <1>3, <1>7 DEF AfterRun
  <2>2. object'[t] = "done" /\ \A u \in Timer : u # t => object'[u] = object[u]
    BY <2>1 DEF TypeOK
  <2>3. \A u : EntryOf(u)' = EntryOf(u)
    BY <2>1 DEF EntryOf
  <2>4. \A e \in timers' \cup expired' : Own(e)'
    BY <1>1, <1>5, <2>1, <2>2 DEF Owned, Own
  <2>5. ASSUME NEW u \in Timer
        PROVE  /\ Adding(queue', u) => object'[u] = "live"
               /\ Canceling(queue', u) => object'[u] \in {"live", "done"}
               /\ object'[u] = "live" =>
                    \/ EntryOf(u)' \in timers' \cup expired'
                    \/ Adding(queue', u)
               /\ object'[u] = "done" => ~Repeats(u) \/ pc' = "destroyed"
    BY <1>1, <1>3, <1>4, <1>7, <2>1, <2>2, <2>3 DEF Owned
  <2>6. QED
    BY <1>1, <2>1, <2>4, <2>5 DEF Owned, Repeats
<1>8. QED
  BY <1>6, <1>7

\* ~TimerQueue deletes what m_timers has; a closure may still hold a timer.
LEMMA DestroyOwned ==
  ASSUME TypeOK, Owned, Destroy
  PROVE  Owned'
<1>1. /\ pc = "idle" /\ pc' = "destroyed" /\ expired = {} /\ timers' = {}
      /\ object' = [t \in Timer |-> IF EntryOf(t) \in timers THEN "done" ELSE object[t]]
      /\ UNCHANGED <<when, expired, current, queue>>
  BY DEF Destroy, Owned
<1>2. \A t \in Timer : EntryOf(t) \in timers => ~Adding(queue, t)
  BY DEF Owned, Own, EntryOf
<1>3. ASSUME NEW u \in Timer
      PROVE  /\ Adding(queue', u) => object'[u] = "live"
             /\ Canceling(queue', u) => object'[u] \in {"live", "done"}
             /\ object'[u] = "live" => Adding(queue', u)
  BY <1>1, <1>2 DEF Owned
<1>4. QED
  BY <1>1, <1>3 DEF Owned

LEMMA OwnedStep ==
  ASSUME TimerInv, [Next]_vars
  PROVE  NothingFails' /\ (Alive' => Owned')
<1>1. CASE UNCHANGED vars
  <2>1. UNCHANGED <<timers, object, when, expired, current, pc, queue, failed>>
    BY <1>1 DEF vars, callVars
  <2>2. (\A e : Own(e)' <=> Own(e)) /\ \A u : EntryOf(u)' = EntryOf(u)
    BY <2>1 DEF Own, EntryOf
  <2>3. (Owned' <=> Owned) /\ (Alive' <=> Alive) /\ (NothingFails' <=> NothingFails)
    BY <2>1, <2>2 DEF Owned, Alive, NothingFails, Repeats
  <2>4. QED
    BY <2>3 DEF TimerInv
<1> SUFFICES ASSUME Next PROVE NothingFails' /\ (Alive' => Owned')
  BY <1>1
<1>0. TypeOK /\ Owned /\ Alive
  BY DEF TimerInv, Next, Loop, Closure, Time
<1>t. \A time \in 0 .. MaxTime : time \in Nat
  BY TimerAssumption
<1>2. failed' = failed => NothingFails'
  BY <1>0 DEF NothingFails, Alive
<1>3. CASE HandleRead \/ RunTimer
  BY <1>0, <1>2, <1>3, HandleReadOwned, RunTimerOwned
<1>4. CASE AfterRun
  BY <1>0, <1>2, <1>4, AfterRunOwned DEF AfterRun
<1>5. CASE Destroy
  BY <1>0, <1>2, <1>5, DestroyOwned DEF Destroy
<1>6. ASSUME UNCHANGED <<timers, object, when, expired, current, queue, failed>>,
             pc' = pc \/ (expired = {} /\ <<pc, pc'>> \in {<<"next", "idle">>, <<"idle", "polled">>})
      PROVE  NothingFails' /\ (Alive' => Owned')
  <2>1. (\A e : Own(e)' <=> Own(e)) /\ \A u : EntryOf(u)' = EntryOf(u)
    BY <1>6 DEF Own, EntryOf
  <2>2. Owned'
    BY <1>0, <1>6, <2>1 DEF Owned, Repeats
  <2>3. QED
    BY <1>2, <1>6, <2>2
<1>7. CASE Poll \/ Rearm
  BY <1>0, <1>6, <1>7 DEF Poll, Rearm, Owned
<1>8. CASE Tick
  BY <1>6, <1>8 DEF Tick, callVars
<1>9. ASSUME NEW time \in 0 .. MaxTime, SetClock(time)
      PROVE  NothingFails' /\ (Alive' => Owned')
  BY <1>6, <1>9 DEF SetClock, callVars
<1>10. CASE RunClosure
  <2> DEFINE op == Head(queue)[1]
             t  == Head(queue)[2]
  <2>1. /\ op \in {"add", "cancel"} /\ t \in Timer
        /\ op = "add" => Adding(queue, t) /\ ~Adding(queue', t)
        /\ op = "cancel" => Canceling(queue, t) /\ ~Canceling(queue', t)
        /\ \A u : Adding(queue', u) => Adding(queue, u)
        /\ \A u : Canceling(queue', u) => Canceling(queue, u)
        /\ \A u : Adding(queue, u) => Adding(queue', u) \/ (op = "add" /\ u = t)
        /\ NoneTwice(queue')
    BY <1>0, <1>10, QueueTaken, TypedTimes DEF RunClosure, Owned
  <2>2. /\ \/ op = "add" /\ Insert(t, when[t]) /\ UNCHANGED object
           \/ op = "cancel" /\ Erase(t) /\ UNCHANGED timerfdVars
        /\ UNCHANGED <<clockVars, when, callVars>> /\ pc = "idle"
    BY <1>10 DEF RunClosure
  <2> HIDE DEF op, t
  <2>3. CASE op = "add"
    <3>1. Owned' /\ failed' = failed
      BY <1>0, <2>1, <2>2, <2>3, AddClosureOwned
    <3>2. QED
      BY <1>2, <3>1
  <2>4. CASE op = "cancel"
    <3>1. object[t] \in {"live", "done"}
      BY <1>0, <2>1, <2>4 DEF Owned
    <3>2. \A u : Adding(queue', u) <=> Adding(queue, u)
      BY <2>1, <2>4
    <3>3. QED
      BY <1>0, <2>1, <2>2, <2>4, <3>1, <3>2, EraseOwned
  <2>5. QED
    BY <2>1, <2>3, <2>4
<1>11. ASSUME NEW t \in Timer, NEW time \in 0 .. MaxTime, Add(t, time)
       PROVE  NothingFails' /\ (Alive' => Owned')
  BY <1>0, <1>t, <1>2, <1>11, AddOwned
<1>12. ASSUME NEW t \in Timer, NEW time \in 0 .. MaxTime, PostAdd(t, time)
       PROVE  NothingFails' /\ (Alive' => Owned')
  BY <1>0, <1>t, <1>2, <1>12, PostAddOwned DEF PostAdd
<1>13. ASSUME NEW t \in Timer, Cancel(t) PROVE NothingFails' /\ (Alive' => Owned')
  <2>1. /\ Erase(t) /\ UNCHANGED <<when, callVars>> /\ object[t] = "live"
        /\ ~Canceling(queue, t) /\ pc # "destroyed" /\ queue' = queue
    BY <1>13, QueuedIsIn DEF Cancel, Calling, MayCancel
  <2>2. NoneTwice(queue)
    BY <1>0 DEF Owned
  <2>3. QED
    BY <1>0, <2>1, <2>2, EraseOwned
<1>14. ASSUME NEW t \in Timer, PostCancel(t) PROVE NothingFails' /\ (Alive' => Owned')
  BY <1>0, <1>2, <1>14, PostCancelOwned DEF PostCancel
<1>15. QED
  BY <1>3, <1>4, <1>5, <1>7, <1>8, <1>9, <1>10, <1>11, <1>12, <1>13, <1>14
     DEF Next, Loop, Closure, Time

------------------------------------------------------------------------------
(* The theorems *)

LEMMA TimerInvInductive == Safety => []TimerInv
<1>1. TimerInv /\ [Next]_vars => TimerInv'
  <2> SUFFICES ASSUME TimerInv, [Next]_vars PROVE TimerInv'
    OBVIOUS
  <2>1. TypeOK'
    BY TypeStep
  <2>2. ArmedForFirst'
    BY ArmedStep DEF TimerInv
  <2>3. NothingFails' /\ (Alive' => Owned')
    BY OwnedStep
  <2>4. QED
    BY <2>1, <2>2, <2>3 DEF TimerInv
<1>2. QED
  BY <1>1, InitTimerInv, PTL DEF Safety

\* Every variable of the timer queue keeps its type, through the failures too.
THEOREM TypeCorrect == Safety => []TypeOK
BY TimerInvInductive, PTL DEF TimerInv

\* However timers are added, canceled and restarted, and however the clock is
\* set, the timerfd is set for the first timer when the loop thread waits.
THEOREM TimerfdArmed == Safety => []ArmedForFirst
BY TimerInvInductive, PTL DEF TimerInv

\* Each live Timer is owned once, none that is deleted is held.
THEOREM TimersOwnedOnce == Safety => []OwnedOnce
<1>1. TimerInv => OwnedOnce
  <2> SUFFICES ASSUME TimerInv, Alive PROVE OwnedOnce
    BY DEF OwnedOnce
  <2>1. TypeOK /\ Owned
    BY DEF TimerInv
  <2>2. QED
    BY <2>1, OwnedIsOnce
<1>2. QED
  BY <1>1, TimerInvInductive, PTL

\* The assertions that cannot fail, whatever the timers and the intervals are,
\* when timers are canceled once and while they live.
THEOREM AssertionsHold == Safety => []NothingFails
BY TimerInvInductive, PTL DEF TimerInv
==============================================================================
