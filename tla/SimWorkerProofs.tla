---------------------------- MODULE SimWorkerProofs ----------------------------
(***************************************************************************)
(* For all capacities larger than the budget of a poll, the worker thread  *)
(* never blocks in a put, and the screen's latch and counts are right.     *)
(***************************************************************************)
EXTENDS SimWorker, Integers, TLAPS

-----------------------------------------------------------------------------
(* The run queue: without duplicates, and the mock, when it waits, is last. *)

Queue(q) ==
    /\ q \in Seq(Task)
    /\ \A i, j \in 1..Len(q) : q[i] = q[j] => i = j
    /\ \A i \in 1..Len(q) : q[i] = "mock" => i = 1 \/ i = Len(q)

Waits(q, t) == \E i \in 1..Len(q) : q[i] = t

Alone(q) == ~Waits(q, "ui") /\ ~Waits(q, "monitor")

First(q, t) == Len(q) > 0 /\ q[1] = t

\* Everything that waits in p waits in q.
Keeps(p, q) == \A t \in Task : Waits(p, t) => Waits(q, t)

LEMMA AppendQueue ==
    ASSUME NEW q \in Seq(Task), NEW t \in Task
    PROVE  /\ Append(q, t) \in Seq(Task) /\ Len(Append(q, t)) = Len(q) + 1
           /\ \A i \in 1..Len(q) : Append(q, t)[i] = q[i]
           /\ Append(q, t)[Len(q) + 1] = t
  OBVIOUS

LEMMA TailQueue ==
    ASSUME NEW q \in Seq(Task), Len(q) > 0
    PROVE  /\ Tail(q) \in Seq(Task) /\ Len(Tail(q)) = Len(q) - 1
           /\ \A i \in 1..(Len(q) - 1) : Tail(q)[i] = q[i + 1]
  OBVIOUS

LEMMA AppendKeeps ==
    ASSUME NEW q \in Seq(Task), NEW t \in Task
    PROVE  Keeps(q, Append(q, t)) /\ Waits(Append(q, t), t)
  <1> DEFINE p == Append(q, t)
  <1>1. /\ Len(p) = Len(q) + 1 /\ Len(q) \in Nat /\ p[Len(q) + 1] = t
        /\ \A i \in 1..Len(q) : p[i] = q[i]
    BY AppendQueue
  <1> HIDE DEF p
  <1> QED BY <1>1 DEF Keeps, Waits

\* The mock, at the head, wakes another task.
LEMMA WokenByMock ==
    ASSUME NEW q, Queue(q), First(q, "mock"), NEW t \in {"ui", "monitor"}
    PROVE  /\ Queue(Woken(q, t)) /\ First(Woken(q, t), "mock")
           /\ Waits(Woken(q, t), t) /\ Keeps(q, Woken(q, t))
  <1>0. q \in Seq(Task) /\ t \in Task /\ Len(q) \in Nat /\ Len(q) > 0
    BY DEF Queue, Task, First
  <1>1. CASE \E i \in DOMAIN q : q[i] = t
    <2>1. Woken(q, t) = q
      BY <1>1 DEF Woken
    <2>2. Waits(q, t)
      BY <1>0, <1>1 DEF Waits
    <2> QED BY <2>1, <2>2 DEF Keeps
  <1>2. CASE ~\E i \in DOMAIN q : q[i] = t
    <2> DEFINE p == Append(q, t)
    <2>1. Woken(q, t) = p
      BY <1>2 DEF Woken
    <2>2. /\ p \in Seq(Task) /\ Len(p) = Len(q) + 1 /\ p[Len(q) + 1] = t
          /\ \A i \in 1..Len(q) : p[i] = q[i]
      BY <1>0, AppendQueue
    <2>3. \A i \in 1..Len(q) : q[i] # t
      BY <1>0, <1>2
    <2>4. Keeps(q, p) /\ Waits(p, t)
      BY <1>0, AppendKeeps
    <2> HIDE DEF p
    <2>5. \A i, j \in 1..Len(p) : p[i] = p[j] => i = j
      BY <1>0, <2>2, <2>3 DEF Queue
    <2>6. \A i \in 1..Len(q) : q[i] = "mock" => i = 1
      BY <1>0 DEF Queue, First
    <2>7. \A i \in 1..Len(p) : p[i] = "mock" => i = 1 \/ i = Len(p)
      BY <1>0, <2>2, <2>6
    <2>8. First(p, "mock")
      BY <1>0, <2>2 DEF First
    <2> QED BY <2>1, <2>2, <2>4, <2>5, <2>7, <2>8 DEF Queue
  <1> QED BY <1>1, <1>2

\* The first task goes to sleep.
LEMMA FirstSleeps ==
    ASSUME NEW q, Queue(q), Len(q) > 0
    PROVE  /\ Queue(Tail(q))
           /\ \A t \in Task : t # q[1] /\ Waits(q, t) => Waits(Tail(q), t)
           /\ First(Tail(q), "mock") => Alone(Tail(q))
           /\ Waits(Tail(q), "mock") => Waits(q, "mock") /\ ~First(q, "mock")
  <1> DEFINE p == Tail(q)
  <1>0. q \in Seq(Task) /\ Len(q) \in Nat
    BY DEF Queue
  <1>1. /\ p \in Seq(Task) /\ Len(p) = Len(q) - 1
        /\ \A i \in 1..Len(p) : p[i] = q[i + 1]
    BY <1>0, TailQueue
  <1> HIDE DEF p
  <1>2. \A i, j \in 1..Len(p) : p[i] = p[j] => i = j
    BY <1>0, <1>1 DEF Queue
  <1>3. \A i \in 1..Len(p) : p[i] = "mock" => i = Len(p)
    BY <1>0, <1>1 DEF Queue
  <1>4. \A t \in Task : t # q[1] /\ Waits(q, t) => Waits(p, t)
    <2> SUFFICES ASSUME NEW t \in Task, t # q[1], NEW i \in 1..Len(q), q[i] = t
                 PROVE  Waits(p, t)
      BY DEF Waits
    <2>1. i - 1 \in 1..Len(p) /\ p[i - 1] = t
      BY <1>0, <1>1
    <2> QED BY <2>1 DEF Waits
  <1>5. First(p, "mock") => Alone(p)
    <2> SUFFICES ASSUME First(p, "mock") PROVE Alone(p)
      OBVIOUS
    <2>1. Len(p) = 1 /\ p[1] = "mock"
      BY <1>0, <1>1, <1>3 DEF First
    <2> QED BY <2>1 DEF Alone, Waits
  <1>6. Waits(p, "mock") => Waits(q, "mock") /\ ~First(q, "mock")
    <2> SUFFICES ASSUME NEW i \in 1..Len(p), p[i] = "mock"
                 PROVE  Waits(q, "mock") /\ ~First(q, "mock")
      BY DEF Waits
    <2>1. i + 1 \in 1..Len(q) /\ q[i + 1] = "mock" /\ i + 1 # 1
      BY <1>0, <1>1
    <2> QED BY <1>0, <2>1 DEF Waits, First, Queue
  <1> QED BY <1>1, <1>2, <1>3, <1>4, <1>5, <1>6 DEF Queue, p

\* The mock goes to the end of a queue it does not wait in.
LEMMA MockAppended ==
    ASSUME NEW q, Queue(q), ~Waits(q, "mock")
    PROVE  /\ Queue(Append(q, "mock"))
           /\ Keeps(q, Append(q, "mock")) /\ Waits(Append(q, "mock"), "mock")
           /\ First(Append(q, "mock"), "mock") => Alone(q)
  <1> DEFINE p == Append(q, "mock")
  <1>0. q \in Seq(Task) /\ Len(q) \in Nat /\ "mock" \in Task
    BY DEF Queue, Task
  <1>1. /\ p \in Seq(Task) /\ Len(p) = Len(q) + 1 /\ p[Len(q) + 1] = "mock"
        /\ \A i \in 1..Len(q) : p[i] = q[i]
    BY <1>0, AppendQueue
  <1>2. Keeps(q, p) /\ Waits(p, "mock")
    BY <1>0, AppendKeeps
  <1> HIDE DEF p
  <1>3. \A i \in 1..Len(q) : q[i] # "mock"
    BY DEF Waits
  <1>4. \A i, j \in 1..Len(p) : p[i] = p[j] => i = j
    BY <1>0, <1>1, <1>3 DEF Queue
  <1>5. \A i \in 1..Len(p) : p[i] = "mock" => i = Len(p)
    BY <1>0, <1>1, <1>3
  <1>6. First(p, "mock") => Alone(q)
    <2> SUFFICES ASSUME First(p, "mock") PROVE Alone(q)
      OBVIOUS
    <2>1. Len(q) = 0
      BY <1>0, <1>1, <1>3 DEF First
    <2> QED BY <2>1 DEF Alone, Waits
  <1> QED BY <1>1, <1>2, <1>4, <1>5, <1>6 DEF Queue, p

-----------------------------------------------------------------------------
(* Types.                                                                  *)

StatusType == [frames : Nat, estop : BOOLEAN]
QueuesType ==
    /\ runq \in Seq(Task) /\ budget \in 0..Budget
    /\ tele_ui \in 0..Cap /\ tele_mon \in 0..Cap
    /\ status_ui \in Seq(StatusType) /\ Len(status_ui) <= Cap
MockType ==
    /\ frames \in Nat /\ estop \in BOOLEAN
    /\ target \in {0, 1} /\ pos \in {0, 1} /\ published \in {0, 1}
    /\ commanded \in BOOLEAN /\ idle \in BOOLEAN
ScreenType == ui \in [frames : Nat, estop : BOOLEAN, online : BOOLEAN] /\ rx \in Nat

LEMMA SimTypeParts == SimTypeOK <=> QueuesType /\ MockType /\ ScreenType
  BY DEF SimTypeOK, QueuesType, MockType, ScreenType, StatusType

LEMMA Constants == Cap \in Nat /\ Budget \in Nat /\ 0 < Budget /\ Budget < Cap
  BY SimAssumption

LEMMA AppendStatus ==
    ASSUME NEW s \in StatusType, QueuesType, Len(status_ui) < Cap
    PROVE  /\ Append(status_ui, s) \in Seq(StatusType)
           /\ Len(Append(status_ui, s)) = Len(status_ui) + 1
           /\ Len(Append(status_ui, s)) <= Cap
           /\ Append(status_ui, s)[Len(status_ui) + 1] = s
           /\ \A i \in 1..Len(status_ui) : Append(status_ui, s)[i] = status_ui[i]
  BY Constants DEF QueuesType

LEMMA TailStatus ==
    ASSUME QueuesType, status_ui # <<>>
    PROVE  /\ Tail(status_ui) \in Seq(StatusType) /\ Head(status_ui) = status_ui[1]
           /\ Head(status_ui) \in StatusType /\ Len(status_ui) > 0
           /\ Len(Tail(status_ui)) = Len(status_ui) - 1
           /\ \A i \in 1..Len(Tail(status_ui)) : Tail(status_ui)[i] = status_ui[i + 1]
  BY DEF QueuesType

LEMMA StatusFrames ==
    ASSUME QueuesType, NEW i \in 1..Len(status_ui) PROVE status_ui[i].frames \in Nat
  <1>1. status_ui[i] \in StatusType
    BY DEF QueuesType
  <1> QED BY <1>1 DEF StatusType

LEMMA BudgetAfterTurn ==
    ASSUME QueuesType, Turn PROVE budget' \in 0..Budget
  <1>1. budget \in 0..Budget /\ budget > 0 /\ budget' = budget - 1 /\ Budget \in Nat
    BY Constants DEF QueuesType, Turn
  <1> QED BY <1>1

LEMMA StatusIsTyped ==
    ASSUME NEW n \in Nat, NEW b \in BOOLEAN PROVE Status(n, b) \in StatusType
  BY DEF Status, StatusType

-----------------------------------------------------------------------------
(* The worker thread.                                                      *)

Spent(n) == tele_ui <= n /\ tele_mon <= n /\ Len(status_ui) <= n

\* Who has something to read is in the run queue; nothing holds more than the
\* mock could publish in one poll, and while the mock is at the head, no more
\* than it has published in this one.
ThreadInv ==
    /\ Queue(runq)
    /\ tele_ui # 0 \/ status_ui # <<>> => Waits(runq, "ui")
    /\ tele_mon # 0 => Waits(runq, "monitor")
    /\ Spent(Budget)
    /\ First(runq, "mock") => Spent(Budget - budget)
    /\ Waits(runq, "mock") /\ ~First(runq, "mock") => budget = Budget

LEMMA RunningIsFirst ==
    ASSUME NEW t, Queue(runq) PROVE Running(t) <=> First(runq, t)
  BY DEF Queue, Running, First

LEMMA ReadyIsWaiting ==
    ASSUME NEW t, Queue(runq) PROVE Ready(t) <=> Waits(runq, t)
  BY DEF Queue, Ready, Waits

LEMMA NothingSpent ==
    ASSUME ThreadInv, Alone(runq), QueuesType
    PROVE  tele_ui = 0 /\ tele_mon = 0 /\ Len(status_ui) = 0
  BY DEF ThreadInv, Alone, QueuesType

\* A task with nothing left to do leaves the head of the queue.
LEMMA ThreadAfterSleep ==
    ASSUME ThreadInv, QueuesType, NEW t \in Task, First(runq, t),
           runq' = Tail(runq), UNCHANGED <<budget, tele_ui, tele_mon, status_ui>>,
           t = "ui" => tele_ui = 0 /\ status_ui = <<>>,
           t = "monitor" => tele_mon = 0
    PROVE  ThreadInv'
  <1>1. /\ Queue(runq') /\ runq[1] = t
        /\ \A u \in Task : u # t /\ Waits(runq, u) => Waits(runq', u)
        /\ First(runq', "mock") => Alone(runq')
        /\ Waits(runq', "mock") => Waits(runq, "mock") /\ ~First(runq, "mock")
    BY FirstSleeps DEF ThreadInv, First
  <1>2. "ui" \in Task /\ "monitor" \in Task
    BY DEF Task
  <1>3. /\ tele_ui' # 0 \/ status_ui' # <<>> => Waits(runq', "ui")
        /\ tele_mon' # 0 => Waits(runq', "monitor")
    BY <1>1, <1>2 DEF ThreadInv
  <1>4. Spent(Budget)'
    BY DEF ThreadInv, Spent
  <1>5. Waits(runq', "mock") => budget' = Budget
    BY <1>1 DEF ThreadInv
  <1>6. First(runq', "mock") => Spent(Budget - budget)'
    <2> SUFFICES ASSUME First(runq', "mock") PROVE Spent(Budget - budget)'
      OBVIOUS
    <2>1. Waits(runq', "mock")
      BY <1>1 DEF First, Waits, Queue
    <2>2. tele_ui' = 0 /\ status_ui' = <<>> /\ tele_mon' = 0
      BY <1>1, <1>3 DEF Alone
    <2>3. budget' = Budget
      BY <1>5, <2>1
    <2> QED BY <2>2, <2>3, Constants DEF Spent
  <1> QED BY <1>1, <1>3, <1>4, <1>5, <1>6 DEF ThreadInv

\* A turn of the mock that publishes at most once on each topic.
LEMMA ThreadAfterTurn ==
    ASSUME ThreadInv, QueuesType, Turn,
           Queue(runq'), First(runq', "mock"), Keeps(runq, runq'),
           tele_ui' \in {tele_ui, tele_ui + 1}, tele_mon' \in {tele_mon, tele_mon + 1},
           Len(status_ui') \in {Len(status_ui), Len(status_ui) + 1},
           tele_ui' # tele_ui \/ status_ui' # status_ui => Waits(runq', "ui"),
           tele_mon' # tele_mon => Waits(runq', "monitor")
    PROVE  ThreadInv'
  <1>1. /\ First(runq, "mock") /\ budget \in 0..Budget /\ budget > 0 /\ budget' = budget - 1
        /\ tele_ui \in Nat /\ tele_mon \in Nat /\ Len(status_ui) \in Nat
    BY RunningIsFirst DEF Turn, ThreadInv, QueuesType
  <1>2. Spent(Budget - budget)
    BY <1>1 DEF ThreadInv
  <1>3. /\ tele_ui' <= Budget - budget' /\ tele_mon' <= Budget - budget'
        /\ Len(status_ui') <= Budget - budget'
    BY <1>1, <1>2, Constants DEF Spent
  <1>4. Spent(Budget - budget)' /\ Spent(Budget)'
    BY <1>1, <1>3, Constants DEF Spent
  <1>5. /\ tele_ui' # 0 \/ status_ui' # <<>> => Waits(runq', "ui")
        /\ tele_mon' # 0 => Waits(runq', "monitor")
    BY DEF ThreadInv, Keeps, Task
  <1> QED BY <1>4, <1>5 DEF ThreadInv

LEMMA ThreadStep ==
    ASSUME SimTypeOK, ThreadInv, [SimNext]_sim_vars PROVE ThreadInv'
  <1>0. QueuesType /\ MockType /\ Queue(runq)
    BY SimTypeParts DEF ThreadInv
  <1>1. CASE WakeMock
    <2>1. /\ ~Waits(runq, "mock") /\ runq' = Append(runq, "mock") /\ budget' = Budget
          /\ UNCHANGED <<tele_ui, tele_mon, status_ui>>
      BY <1>0, <1>1, ReadyIsWaiting DEF WakeMock
    <2>2. /\ Queue(runq') /\ Keeps(runq, runq')
          /\ First(runq', "mock") => Alone(runq)
      BY <1>0, <2>1, MockAppended
    <2>3. /\ tele_ui' # 0 \/ status_ui' # <<>> => Waits(runq', "ui")
          /\ tele_mon' # 0 => Waits(runq', "monitor")
      BY <2>1, <2>2 DEF ThreadInv, Keeps, Task
    <2>4. Spent(Budget)'
      BY <2>1 DEF ThreadInv, Spent
    <2>5. First(runq', "mock") => Spent(Budget - budget)'
      BY <1>0, <2>1, <2>2, NothingSpent, Constants DEF Spent
    <2> QED BY <2>1, <2>2, <2>3, <2>4, <2>5 DEF ThreadInv
  <1>2. CASE Tick
    <2> DEFINE q == Woken(runq, "ui")
    <2>1. /\ Turn /\ runq' = Woken(q, "monitor")
          /\ tele_ui' = tele_ui + 1 /\ tele_mon' = tele_mon + 1
          /\ Len(status_ui') \in {Len(status_ui), Len(status_ui) + 1}
      <3>1. /\ Turn /\ runq' = Woken(q, "monitor") /\ Len(status_ui) < Cap
            /\ tele_ui' = tele_ui + 1 /\ tele_mon' = tele_mon + 1
        BY <1>2 DEF Tick, Room
      <3>2. frames' \in Nat /\ estop \in BOOLEAN
        BY <1>0, <1>2 DEF Tick, MockType
      <3>3. status_ui' = status_ui \/ status_ui' = Append(status_ui, Status(frames', estop))
        BY <1>2 DEF Tick
      <3>4. Len(Append(status_ui, Status(frames', estop))) = Len(status_ui) + 1
        BY <1>0, <3>1, <3>2, StatusIsTyped, AppendStatus
      <3> QED BY <3>1, <3>3, <3>4
    <2>2. First(runq, "mock")
      BY <1>0, <2>1, RunningIsFirst DEF Turn
    <2>3. Queue(q) /\ First(q, "mock") /\ Waits(q, "ui") /\ Keeps(runq, q)
      BY <1>0, <2>2, WokenByMock
    <2> HIDE DEF q
    <2>4. /\ Queue(runq') /\ First(runq', "mock") /\ Waits(runq', "monitor")
          /\ Keeps(q, runq')
      BY <2>1, <2>3, WokenByMock
    <2>5. Keeps(runq, runq') /\ Waits(runq', "ui")
      BY <2>3, <2>4 DEF Keeps, Task
    <2> QED BY <1>0, <2>1, <2>4, <2>5, ThreadAfterTurn
  <1>3. CASE (\E t \in {0, 1} : RecvTarget(t)) \/ Disregard
    <2>1. Turn /\ UNCHANGED <<runq, tele_ui, tele_mon, status_ui>>
      BY <1>3 DEF RecvTarget, Disregard
    <2>2. First(runq, "mock")
      BY <1>0, <2>1, RunningIsFirst DEF Turn
    <2>3. Queue(runq') /\ First(runq', "mock") /\ Keeps(runq, runq')
      BY <1>0, <2>1, <2>2 DEF Keeps
    <2> QED BY <1>0, <2>1, <2>3, ThreadAfterTurn
  <1>4. ASSUME NEW b \in BOOLEAN, ChangeLatch(b) PROVE ThreadInv'
    <2>1. /\ Turn /\ runq' = Woken(runq, "ui") /\ Len(status_ui) < Cap
          /\ status_ui' = Append(status_ui, Status(frames, b))
          /\ UNCHANGED <<tele_ui, tele_mon>>
      BY <1>4 DEF ChangeLatch
    <2>2. First(runq, "mock")
      BY <1>0, <2>1, RunningIsFirst DEF Turn
    <2>3. /\ Queue(runq') /\ First(runq', "mock") /\ Waits(runq', "ui")
          /\ Keeps(runq, runq')
      BY <1>0, <2>1, <2>2, WokenByMock
    <2>4. Status(frames, b) \in StatusType
      BY <1>0, StatusIsTyped DEF MockType
    <2>5. Len(status_ui') = Len(status_ui) + 1
      BY <1>0, <2>1, <2>4, AppendStatus
    <2> QED BY <1>0, <2>1, <2>3, <2>5, ThreadAfterTurn
  <1>5. CASE YieldMock
    <2> DEFINE q == Tail(runq)
    <2>1. /\ First(runq, "mock") /\ runq' = Append(q, "mock") /\ budget' = Budget
          /\ UNCHANGED <<tele_ui, tele_mon, status_ui>>
      BY <1>0, <1>5, RunningIsFirst DEF YieldMock
    <2>2. /\ Queue(q) /\ ~Waits(q, "mock")
          /\ \A u \in Task : u # "mock" /\ Waits(runq, u) => Waits(q, u)
      BY <1>0, <2>1, FirstSleeps DEF First
    <2> HIDE DEF q
    <2>3. /\ Queue(runq') /\ Keeps(q, runq')
          /\ First(runq', "mock") => Alone(q)
      BY <2>1, <2>2, MockAppended
    <2>4. /\ tele_ui' # 0 \/ status_ui' # <<>> => Waits(runq', "ui")
          /\ tele_mon' # 0 => Waits(runq', "monitor")
      BY <2>1, <2>2, <2>3 DEF ThreadInv, Keeps, Task
    <2>5. Spent(Budget)'
      BY <2>1 DEF ThreadInv, Spent
    <2>6. First(runq', "mock") => Alone(runq)
      BY <2>2, <2>3 DEF Alone, Task
    <2>7. First(runq', "mock") => Spent(Budget - budget)'
      BY <1>0, <2>1, <2>6, NothingSpent, Constants DEF Spent
    <2> QED BY <2>1, <2>3, <2>4, <2>5, <2>7 DEF ThreadInv
  <1>6. CASE SleepMock \/ SleepUi \/ SleepMonitor
    <2>1. /\ runq' = Tail(runq) /\ UNCHANGED <<budget, tele_ui, tele_mon, status_ui>>
          /\ \/ Running("mock")
             \/ Running("ui") /\ tele_ui = 0 /\ status_ui = <<>>
             \/ Running("monitor") /\ tele_mon = 0
      BY <1>6 DEF SleepMock, SleepUi, SleepMonitor
    <2>2. PICK t \in Task : /\ Running(t)
                            /\ t = "ui" => tele_ui = 0 /\ status_ui = <<>>
                            /\ t = "monitor" => tele_mon = 0
      BY <2>1 DEF Task
    <2>3. First(runq, t)
      BY <1>0, <2>2, RunningIsFirst
    <2> QED BY <1>0, <2>1, <2>2, <2>3, ThreadAfterSleep
  <1>7. CASE ApplyTelemetry \/ ApplyStatus \/ CountFrame
    <2>1. /\ UNCHANGED <<runq, budget>>
          /\ tele_ui' <= tele_ui /\ tele_mon' <= tele_mon
          /\ Len(status_ui') <= Len(status_ui) /\ Len(status_ui') \in Nat
          /\ tele_ui' \in Int /\ tele_mon' \in Int
          /\ \/ Running("ui") /\ tele_mon' = tele_mon
             \/ Running("monitor") /\ UNCHANGED <<tele_ui, status_ui>>
      BY <1>0, <1>7, TailStatus DEF ApplyTelemetry, ApplyStatus, CountFrame, QueuesType
    <2>2. \/ First(runq, "ui") /\ tele_mon' = tele_mon
          \/ First(runq, "monitor") /\ UNCHANGED <<tele_ui, status_ui>>
      BY <1>0, <2>1, RunningIsFirst
    <2>3. /\ tele_ui' # 0 \/ status_ui' # <<>> => Waits(runq', "ui")
          /\ tele_mon' # 0 => Waits(runq', "monitor")
      BY <1>0, <2>1, <2>2 DEF ThreadInv, First, Waits, Queue
    <2>4. Spent(Budget)'
      BY <1>0, <2>1, Constants DEF ThreadInv, Spent, QueuesType
    <2>5. ~First(runq', "mock")
      BY <2>1, <2>2 DEF First
    <2> QED BY <2>1, <2>2, <2>3, <2>4, <2>5 DEF ThreadInv, First
  <1>8. CASE UNCHANGED sim_vars
    BY <1>8 DEF sim_vars, ThreadInv, Spent
  <1> QED BY <1>1, <1>2, <1>3, <1>4, <1>5, <1>6, <1>7, <1>8 DEF SimNext, Worker

-----------------------------------------------------------------------------
(* What the screen shows.                                                  *)

StatusesBehind == \A i \in 1..Len(status_ui) : status_ui[i].frames <= frames

ScreenInv == SimTypeOK /\ StatusesBehind /\ ScreenTellsLatch /\ ScreenCountsFrames

LEMMA ScreenInit == SimInit => ScreenInv
  <1> SUFFICES ASSUME SimInit PROVE ScreenInv
    OBVIOUS
  <1>1. QueuesType
    BY Constants DEF SimInit, QueuesType
  <1>2. MockType
    BY DEF SimInit, MockType
  <1>3. ScreenType
    BY DEF SimInit, ScreenType, ScreenAtStart
  <1>4. StatusesBehind
    BY DEF SimInit, StatusesBehind
  <1>5. ScreenTellsLatch
    BY DEF SimInit, ScreenTellsLatch, ScreenAtStart
  <1>6. ScreenCountsFrames
    BY Constants DEF SimInit, ScreenCountsFrames, ScreenAtStart
  <1> QED BY <1>1, <1>2, <1>3, <1>4, <1>5, <1>6, SimTypeParts DEF ScreenInv

LEMMA RunqType ==
    ASSUME SimTypeOK, [SimNext]_sim_vars PROVE runq' \in Seq(Task)
  <1>1. runq \in Seq(Task)
    BY DEF SimTypeOK
  <1>2. \A q \in Seq(Task), t \in Task : Append(q, t) \in Seq(Task) /\ Woken(q, t) \in Seq(Task)
    BY DEF Woken
  <1>3. \A t \in Task : Running(t) => Tail(runq) \in Seq(Task)
    BY <1>1 DEF Running
  <1>4. "mock" \in Task /\ "ui" \in Task /\ "monitor" \in Task
    BY DEF Task
  <1>5. CASE WakeMock \/ Tick \/ (\E b \in BOOLEAN : ChangeLatch(b))
    BY <1>1, <1>2, <1>4, <1>5 DEF WakeMock, Tick, ChangeLatch
  <1>6. CASE YieldMock
    BY <1>2, <1>3, <1>4, <1>6 DEF YieldMock
  <1>7. CASE SleepMock \/ SleepUi \/ SleepMonitor
    BY <1>3, <1>4, <1>7 DEF SleepMock, SleepUi, SleepMonitor
  <1>8. CASE (\E t \in {0, 1} : RecvTarget(t)) \/ Disregard \/ ApplyTelemetry
             \/ ApplyStatus \/ CountFrame \/ UNCHANGED sim_vars
    BY <1>1, <1>8 DEF RecvTarget, Disregard, ApplyTelemetry, ApplyStatus, CountFrame, sim_vars
  <1> QED BY <1>5, <1>6, <1>7, <1>8 DEF SimNext, Worker

\* A status about the present goes into the subscription.
LEMMA StatusSent ==
    ASSUME ScreenInv, NEW n \in Nat, NEW b \in BOOLEAN, Len(status_ui) < Cap,
           status_ui' = Append(status_ui, Status(n, b)),
           estop' = b, frames' = n, frames <= n
    PROVE  /\ status_ui' \in Seq(StatusType) /\ Len(status_ui') <= Cap
           /\ StatusesBehind' /\ ScreenTellsLatch'
  <1>1. QueuesType /\ MockType /\ StatusesBehind
    BY SimTypeParts DEF ScreenInv
  <1>2. Status(n, b) \in StatusType
    BY StatusIsTyped
  <1>3. /\ status_ui' \in Seq(StatusType) /\ Len(status_ui') <= Cap
        /\ Len(status_ui') = Len(status_ui) + 1 /\ Len(status_ui) \in Nat
        /\ status_ui'[Len(status_ui) + 1] = Status(n, b)
        /\ \A i \in 1..Len(status_ui) : status_ui'[i] = status_ui[i]
    BY <1>1, <1>2, AppendStatus DEF QueuesType
  <1>4. Status(n, b).frames = n /\ Status(n, b).estop = b
    BY DEF Status
  <1>5. \A i \in 1..Len(status_ui) : status_ui[i].frames \in Nat /\ status_ui[i].frames <= frames
    BY <1>1, StatusFrames DEF StatusesBehind
  <1>6. frames \in Nat
    BY <1>1 DEF MockType
  <1>7. StatusesBehind'
    BY <1>3, <1>4, <1>5, <1>6 DEF StatusesBehind
  <1>8. status_ui' # <<>> /\ status_ui'[Len(status_ui')].estop = estop'
    BY <1>3, <1>4
  <1> QED BY <1>3, <1>7, <1>8 DEF ScreenTellsLatch

\* Nothing goes into the subscription.
LEMMA NoStatusSent ==
    ASSUME ScreenInv, UNCHANGED <<status_ui, estop, ui>>, frames' \in {frames, frames + 1}
    PROVE  StatusesBehind' /\ ScreenTellsLatch'
  <1>1. QueuesType /\ MockType /\ StatusesBehind /\ ScreenTellsLatch
    BY SimTypeParts DEF ScreenInv
  <1>2. \A i \in 1..Len(status_ui) : status_ui[i].frames \in Nat /\ status_ui[i].frames <= frames
    BY <1>1, StatusFrames DEF StatusesBehind
  <1>3. StatusesBehind'
    BY <1>1, <1>2 DEF StatusesBehind, MockType
  <1>4. ScreenTellsLatch'
    BY <1>1 DEF ScreenTellsLatch
  <1> QED BY <1>3, <1>4

LEMMA MockUnchanged ==
    ASSUME MockType, UNCHANGED mock_vars PROVE MockType'
  BY DEF MockType, mock_vars

LEMMA ScreenStep ==
    ASSUME ScreenInv, [SimNext]_sim_vars PROVE ScreenInv'
  <1>0. /\ QueuesType /\ MockType /\ ScreenType
        /\ StatusesBehind /\ ScreenTellsLatch /\ ScreenCountsFrames
    BY SimTypeParts DEF ScreenInv
  <1>a. runq' \in Seq(Task)
    BY RunqType DEF ScreenInv
  <1>1. CASE Tick
    <2>1. /\ Turn /\ tele_ui < Cap /\ tele_mon < Cap /\ Len(status_ui) < Cap
          /\ frames' = frames + 1 /\ tele_ui' = tele_ui + 1 /\ tele_mon' = tele_mon + 1
          /\ UNCHANGED <<estop, target, commanded, idle, ui, rx>>
      BY <1>1 DEF Tick, Room
    <2>2. status_ui' = status_ui \/ status_ui' = Append(status_ui, Status(frames', estop))
      BY <1>1 DEF Tick
    <2>3. /\ status_ui' \in Seq(StatusType) /\ Len(status_ui') <= Cap
          /\ StatusesBehind' /\ ScreenTellsLatch'
      <3>1. frames' \in Nat /\ frames <= frames' /\ estop \in BOOLEAN /\ estop' = estop
        BY <1>0, <2>1 DEF MockType
      <3>2. CASE status_ui' = status_ui
        BY <1>0, <2>1, <3>2, NoStatusSent DEF QueuesType
      <3>3. CASE status_ui' = Append(status_ui, Status(frames', estop))
        BY <2>1, <3>1, <3>3, StatusSent
      <3> QED BY <2>2, <3>2, <3>3
    <2>4. budget' \in 0..Budget
      BY <1>0, <2>1, BudgetAfterTurn
    <2>5. QueuesType'
      BY <1>0, <1>a, <2>1, <2>3, <2>4, Constants DEF QueuesType
    <2>6. pos' \in {0, 1}
      BY <1>0, <1>1 DEF Tick, MockType
    <2>7. published' \in {0, 1}
      BY <1>1, <2>6 DEF Tick
    <2>8. MockType'
      BY <1>0, <2>1, <2>6, <2>7 DEF MockType
    <2>9. ScreenType' /\ ScreenCountsFrames'
      BY <1>0, <2>1, Constants DEF ScreenType, ScreenCountsFrames, MockType, QueuesType
    <2> QED BY <2>3, <2>5, <2>8, <2>9, SimTypeParts DEF ScreenInv, SimTypeOK, QueuesType, MockType, ScreenType, StatusType
  <1>2. ASSUME NEW b \in BOOLEAN, ChangeLatch(b) PROVE ScreenInv'
    <2>1. /\ Turn /\ Len(status_ui) < Cap
          /\ status_ui' = Append(status_ui, Status(frames, b))
          /\ estop' = b /\ target' = 0 /\ pos' = 0 /\ idle' = TRUE
          /\ UNCHANGED <<tele_ui, tele_mon, frames, commanded, published, ui, rx>>
      BY <1>2 DEF ChangeLatch
    <2>2. /\ status_ui' \in Seq(StatusType) /\ Len(status_ui') <= Cap
          /\ StatusesBehind' /\ ScreenTellsLatch'
      <3>1. frames \in Nat /\ frames <= frames /\ frames' = frames
        BY <1>0, <2>1 DEF MockType
      <3> QED BY <2>1, <3>1, StatusSent
    <2>3. budget' \in 0..Budget
      BY <1>0, <2>1, BudgetAfterTurn
    <2>4. QueuesType'
      BY <1>0, <1>a, <2>1, <2>2, <2>3 DEF QueuesType
    <2>5. MockType'
      BY <1>0, <2>1 DEF MockType
    <2>6. ScreenType' /\ ScreenCountsFrames'
      BY <1>0, <2>1 DEF ScreenType, ScreenCountsFrames
    <2> QED BY <2>2, <2>4, <2>5, <2>6, SimTypeParts DEF ScreenInv, SimTypeOK, QueuesType, MockType, ScreenType, StatusType
  <1>3. CASE (\E t \in {0, 1} : RecvTarget(t)) \/ Disregard \/ WakeMock \/ YieldMock
             \/ SleepMock \/ SleepUi \/ SleepMonitor \/ UNCHANGED sim_vars
    <2>1. /\ UNCHANGED <<tele_ui, tele_mon, status_ui, frames, estop, pos, published, ui, rx>>
          /\ target' \in {0, 1} /\ commanded' \in BOOLEAN /\ idle' \in BOOLEAN
      BY <1>0, <1>3 DEF RecvTarget, Disregard, WakeMock, YieldMock, SleepMock, SleepUi,
                        SleepMonitor, sim_vars, mock_vars, MockType
    <2>2. budget' \in 0..Budget
      BY <1>0, <1>3, Constants DEF RecvTarget, Disregard, WakeMock, YieldMock, SleepMock,
             SleepUi, SleepMonitor, sim_vars, Turn, QueuesType
    <2>3. StatusesBehind' /\ ScreenTellsLatch'
      BY <2>1, NoStatusSent
    <2>4. QueuesType' /\ ScreenType' /\ ScreenCountsFrames'
      BY <1>0, <1>a, <2>1, <2>2 DEF QueuesType, ScreenType, ScreenCountsFrames
    <2>5. MockType'
      BY <1>0, <2>1 DEF MockType
    <2> QED BY <2>3, <2>4, <2>5, SimTypeParts DEF ScreenInv, SimTypeOK, QueuesType, MockType, ScreenType, StatusType
  <1>4. CASE ApplyTelemetry
    <2>1. /\ tele_ui > 0 /\ tele_ui' = tele_ui - 1
          /\ ui' = [ui EXCEPT !.frames = @ + 1]
          /\ UNCHANGED <<budget, tele_mon, status_ui, mock_vars, rx>>
      BY <1>4 DEF ApplyTelemetry
    <2>2. /\ ui' \in [frames : Nat, estop : BOOLEAN, online : BOOLEAN]
          /\ ui'.frames = ui.frames + 1 /\ ui'.estop = ui.estop
      BY <1>0, <2>1 DEF ScreenType
    <2>3. StatusesBehind' /\ ScreenTellsLatch'
      BY <1>0, <2>1, <2>2 DEF StatusesBehind, ScreenTellsLatch, mock_vars
    <2>4. QueuesType' /\ MockType' /\ ScreenType'
      <3>1. QueuesType'
        BY <1>0, <1>a, <2>1, Constants DEF QueuesType
      <3>2. MockType'
        BY <1>0, <2>1, MockUnchanged
      <3>3. ScreenType'
        BY <1>0, <2>1, <2>2 DEF ScreenType
      <3> QED BY <3>1, <3>2, <3>3
    <2>5. ScreenCountsFrames'
      <3>1. /\ frames \in Nat /\ tele_ui \in Nat /\ ui.frames \in Nat
            /\ frames' = frames /\ tele_mon' = tele_mon /\ rx' = rx
        BY <1>0, <2>1 DEF MockType, QueuesType, ScreenType, mock_vars
      <3> QED BY <1>0, <2>1, <2>2, <3>1, Constants DEF ScreenCountsFrames
    <2> QED BY <2>3, <2>4, <2>5, SimTypeParts DEF ScreenInv, SimTypeOK, QueuesType, MockType, ScreenType, StatusType
  <1>5. CASE ApplyStatus
    <2> DEFINE s == Head(status_ui)
    <2>1. /\ status_ui # <<>> /\ status_ui' = Tail(status_ui)
          /\ ui' = [frames |-> IF s.frames > ui.frames THEN s.frames ELSE ui.frames,
                    estop |-> s.estop, online |-> TRUE]
          /\ UNCHANGED <<budget, tele_ui, tele_mon, mock_vars, rx>>
      BY <1>5 DEF ApplyStatus
    <2>2. /\ s = status_ui[1] /\ s \in StatusType /\ Len(status_ui) > 0
          /\ status_ui' \in Seq(StatusType) /\ Len(status_ui') = Len(status_ui) - 1
          /\ \A i \in 1..Len(status_ui') : status_ui'[i] = status_ui[i + 1]
          /\ Len(status_ui) \in Nat
      BY <1>0, <2>1, TailStatus DEF QueuesType
    <2> HIDE DEF s
    <2>3. s.frames \in Nat /\ s.frames <= frames /\ s.estop \in BOOLEAN /\ ui.frames \in Nat
      BY <1>0, <2>2 DEF StatusesBehind, StatusType, ScreenType
    <2>4. ui'.frames \in {s.frames, ui.frames} /\ ui'.frames >= ui.frames /\ ui'.estop = s.estop
      BY <2>1, <2>3
    <2>5. ui' \in [frames : Nat, estop : BOOLEAN, online : BOOLEAN]
      BY <2>1, <2>3
    <2>6. StatusesBehind'
      BY <1>0, <2>1, <2>2 DEF StatusesBehind, mock_vars
    <2>7. ScreenTellsLatch'
      <3>1. CASE Len(status_ui) = 1
        BY <1>0, <2>1, <2>2, <2>4, <3>1 DEF ScreenTellsLatch, mock_vars
      <3>2. CASE Len(status_ui) > 1
        <4>1. status_ui'[Len(status_ui')] = status_ui[Len(status_ui)] /\ status_ui' # <<>>
          BY <2>2, <3>2
        <4> QED BY <1>0, <2>1, <4>1 DEF ScreenTellsLatch, mock_vars
      <3> QED BY <2>2, <3>1, <3>2
    <2>8. QueuesType' /\ MockType' /\ ScreenType'
      <3>1. QueuesType'
        BY <1>0, <1>a, <2>1, <2>2, Constants DEF QueuesType
      <3>2. MockType'
        BY <1>0, <2>1, MockUnchanged
      <3>3. ScreenType'
        BY <1>0, <2>1, <2>5 DEF ScreenType
      <3> QED BY <3>1, <3>2, <3>3
    <2>9. ScreenCountsFrames'
      BY <1>0, <2>1, <2>3, <2>4, Constants
         DEF ScreenCountsFrames, QueuesType, ScreenType, MockType, mock_vars
    <2> QED BY <2>6, <2>7, <2>8, <2>9, SimTypeParts DEF ScreenInv, SimTypeOK, QueuesType, MockType, ScreenType, StatusType
  <1>6. CASE CountFrame
    <2>1. /\ tele_mon > 0 /\ tele_mon' = tele_mon - 1 /\ rx' = rx + 1
          /\ UNCHANGED <<budget, tele_ui, status_ui, mock_vars, ui>>
      BY <1>6 DEF CountFrame
    <2>2. StatusesBehind' /\ ScreenTellsLatch'
      BY <1>0, <2>1 DEF StatusesBehind, ScreenTellsLatch, mock_vars
    <2>3. QueuesType' /\ MockType' /\ ScreenType'
      <3>1. QueuesType'
        BY <1>0, <1>a, <2>1, Constants DEF QueuesType
      <3>2. MockType'
        BY <1>0, <2>1, MockUnchanged
      <3>3. ScreenType'
        BY <1>0, <2>1 DEF ScreenType
      <3> QED BY <3>1, <3>2, <3>3
    <2>4. ScreenCountsFrames'
      BY <1>0, <2>1 DEF ScreenCountsFrames, QueuesType, ScreenType, MockType, mock_vars
    <2> QED BY <2>2, <2>3, <2>4, SimTypeParts DEF ScreenInv, SimTypeOK, QueuesType, MockType, ScreenType, StatusType
  <1> QED BY <1>1, <1>2, <1>3, <1>4, <1>5, <1>6 DEF SimNext, Worker

LEMMA ThreadInit == SimInit => ThreadInv
  BY Constants DEF SimInit, ThreadInv, Queue, Waits, First, Spent

LEMMA SimInvariant == SimSpec => [](ScreenInv /\ ThreadInv)
  <1>1. ScreenInv => SimTypeOK
    BY DEF ScreenInv
  <1>2. ScreenInv /\ ThreadInv /\ [SimNext]_sim_vars => (ScreenInv /\ ThreadInv)'
    BY <1>1, ScreenStep, ThreadStep
  <1> QED BY <1>2, ScreenInit, ThreadInit, PTL DEF SimSpec

-----------------------------------------------------------------------------
(***************************************************************************)
(* For every capacity, budget and rate of statuses, the simulator's state  *)
(* keeps its types (virtual_hardware_mock.rs:33-131).                      *)
(***************************************************************************)
THEOREM SimTypeCorrect == SimSpec => []SimTypeOK
  <1>1. ScreenInv => SimTypeOK
    BY DEF ScreenInv
  <1> QED BY <1>1, SimInvariant, PTL

\* In its poll the mock finds no queue fuller than what it has published.
LEMMA RoomForMock == ScreenInv /\ ThreadInv => WorkerNeverBlocks
  <1> SUFFICES ASSUME ScreenInv, ThreadInv, Running("mock"), budget > 0 PROVE Room
    BY DEF WorkerNeverBlocks
  <1>1. QueuesType
    BY SimTypeParts DEF ScreenInv
  <1>2. Spent(Budget - budget)
    BY RunningIsFirst DEF ThreadInv
  <1> QED BY <1>1, <1>2, Constants DEF Spent, Room, QueuesType

(***************************************************************************)
(* A budget below the capacity is enough: the thread never blocks in a put *)
(* (virtual_hardware_mock.rs:84, :120).                                    *)
(***************************************************************************)
THEOREM WorkerIsFree == SimSpec => []WorkerNeverBlocks
  BY RoomForMock, SimInvariant, PTL

(***************************************************************************)
(* The counts of the screen and the monitor (terminal_ui.rs:223, :236-240, *)
(* frequency_enforcer.rs:77-81), for any number of frames.                 *)
(***************************************************************************)
THEOREM CountsRight == SimSpec => []ScreenCountsFrames
  <1>1. ScreenInv => ScreenCountsFrames
    BY DEF ScreenInv
  <1> QED BY <1>1, SimInvariant, PTL

(***************************************************************************)
(* The last word on its way to the screen is the latch, for any number of  *)
(* changes (virtual_hardware_mock.rs:112-121, terminal_ui.rs:233-235).     *)
(***************************************************************************)
THEOREM LatchTold == SimSpec => []ScreenTellsLatch
  <1>1. ScreenInv => ScreenTellsLatch
    BY DEF ScreenInv
  <1> QED BY <1>1, SimInvariant, PTL

-----------------------------------------------------------------------------
\* What ReleasedMockRests needs: a change of the latch leaves nothing to move
\* to until the next command.
RestInv == idle => target = 0 /\ pos = 0

LEMMA RestInit == SimInit => RestInv
  BY DEF SimInit, RestInv

LEMMA RestStep == RestInv /\ [SimNext]_sim_vars => RestInv'
  <1> SUFFICES ASSUME RestInv, [SimNext]_sim_vars PROVE RestInv'
    OBVIOUS
  <1>1. CASE Tick
    <2>1. idle' = idle /\ target' = target
      BY <1>1 DEF Tick
    <2>2. pos' \in {target} \cup ({pos} \ {0}) \/ pos' = pos
      <3>1. CASE commanded
        BY <1>1, <3>1 DEF Tick
      <3>2. CASE ~commanded
        BY <1>1, <3>2 DEF Tick
      <3> QED BY <3>1, <3>2
    <2> QED BY <2>1, <2>2 DEF RestInv
  <1>2. ASSUME NEW t \in {0, 1}, RecvTarget(t) PROVE RestInv'
    <2>1. CASE estop
      BY <1>2, <2>1 DEF RecvTarget, RestInv
    <2>2. CASE ~estop
      BY <1>2, <2>2 DEF RecvTarget, RestInv
    <2> QED BY <2>1, <2>2
  <1>3. ASSUME NEW b \in BOOLEAN, ChangeLatch(b) PROVE RestInv'
    BY <1>3 DEF ChangeLatch, RestInv
  <1>4. CASE UNCHANGED <<idle, target, pos>>
    BY <1>4 DEF RestInv
  <1>5. CASE \/ WakeMock \/ Disregard \/ YieldMock \/ SleepMock \/ ApplyTelemetry
             \/ ApplyStatus \/ SleepUi \/ CountFrame \/ SleepMonitor
             \/ UNCHANGED sim_vars
    BY <1>4, <1>5 DEF WakeMock, Disregard, YieldMock, SleepMock, ApplyTelemetry,
       ApplyStatus, SleepUi, CountFrame, SleepMonitor, mock_vars, sim_vars
  <1> QED BY <1>1, <1>2, <1>3, <1>5 DEF SimNext, Worker

\* A frame at rest is published at zero; nothing else publishes.
LEMMA RestPublishes ==
    ASSUME RestInv, [SimNext]_sim_vars, published' # published, estop \/ (idle /\ commanded)
    PROVE  published' = 0
  <1>1. CASE Tick
    <2>1. CASE estop
      BY <1>1, <2>1 DEF Tick
    <2>2. CASE ~estop
      <3>1. idle /\ commanded /\ target = 0 /\ pos = 0
        BY <2>2 DEF RestInv
      <3>2. pos' \in {0}
        BY <1>1, <3>1 DEF Tick
      <3>3. published' \in {pos'}
        BY <1>1, <2>2, <3>1 DEF Tick
      <3> QED BY <3>2, <3>3
    <2> QED BY <2>1, <2>2
  <1>2. ASSUME NEW t \in {0, 1}, RecvTarget(t) PROVE FALSE
    BY <1>2 DEF RecvTarget
  <1>3. ASSUME NEW b \in BOOLEAN, ChangeLatch(b) PROVE FALSE
    BY <1>3 DEF ChangeLatch
  <1>4. CASE \/ WakeMock \/ Disregard \/ YieldMock \/ SleepMock \/ ApplyTelemetry
             \/ ApplyStatus \/ SleepUi \/ CountFrame \/ SleepMonitor
             \/ UNCHANGED sim_vars
    BY <1>4 DEF WakeMock, Disregard, YieldMock, SleepMock, ApplyTelemetry,
       ApplyStatus, SleepUi, CountFrame, SleepMonitor, mock_vars, sim_vars
  <1> QED BY <1>1, <1>2, <1>3, <1>4 DEF SimNext, Worker

(***************************************************************************)
(* No target from before an estop moves the mock after its release, however *)
(* many changes, commands and frames there are                              *)
(* (virtual_hardware_mock.rs:70-79, :112-115).                              *)
(***************************************************************************)
THEOREM MockRests == SimSpec => ReleasedMockRests
  <1>1. RestInv /\ [SimNext]_sim_vars
          => [published' # published /\ (estop \/ (idle /\ commanded)) => published' = 0]_sim_vars
    BY RestPublishes
  <1> QED BY <1>1, RestInit, RestStep, PTL DEF SimSpec, ReleasedMockRests
=============================================================================
